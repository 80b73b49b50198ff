SPECIFICATION IssueSpec
CONSTANTS
  Legacy = L
  PerThread = P
  Streams = {L, P}
  Events = {e}
  CommitFirst = 1
  CommitThreshold = 2
  WaitsVisible = TRUE
  Spins = FALSE
  MayTimeout = FALSE
  MaxFaults = 0
  MaxOps = 2
  MaxEventCalls = 1
PROPERTY Ordered
CHECK_DEADLOCK FALSE
