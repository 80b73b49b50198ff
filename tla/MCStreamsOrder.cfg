SPECIFICATION IssueSpec
CONSTANTS
  Legacy = L
  PerThread = P
  Streams = {L, P, u}
  Events = {e}
  CommitFirst = 2
  CommitThreshold = 3
  WaitsVisible = FALSE
  Spins = FALSE
  MayTimeout = FALSE
  MaxFaults = 0
  MaxOps = 3
  MaxEventCalls = 2
INVARIANTS TypeOK FenceCounts WaitsCommitted LegacyExclusive GpuNeverStuck
PROPERTY Ordered
CHECK_DEADLOCK FALSE
