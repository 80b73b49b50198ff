SPECIFICATION LiveSpec
CONSTANTS
  Legacy = L
  PerThread = P
  Streams = {L, P, u}
  Events = {e}
  CommitFirst = 2
  CommitThreshold = 2
  WaitsVisible = FALSE
  Spins = TRUE
  MayTimeout = TRUE
  MaxFaults = 1
  MaxOps = 2
  MaxEventCalls = 1
INVARIANT QuerySound
PROPERTIES SyncSound SyncReturns FlushedRuns
CHECK_DEADLOCK FALSE
