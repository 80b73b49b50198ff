SPECIFICATION DestroySpec
CONSTANTS
  Legacy = L
  PerThread = P
  Streams = {L, P, u}
  Events = {}
  CommitFirst = 1
  CommitThreshold = 2
  WaitsVisible = FALSE
  Spins = FALSE
  MayTimeout = FALSE
  MaxFaults = 0
  MaxOps = 3
  MaxEventCalls = 0
INVARIANT StagingAlive
CHECK_DEADLOCK FALSE
