SPECIFICATION RuntimeSpec
CONSTANTS
  Align = 2
  ChunkSize = 10
  DedicatedMin = 6
  Sizes = {0, 2, 3, 6}
  Bases = {0, 6, 10, 16}
  WrapPages = 2
  Pages = {0, 1, 2, 3, 4, 5, 6}
  Lengths = {1, 2}
  Ranks = {0, 1}
  Threads = {0, 1}
  Programs <- All
  Failing <- FewPairs
  Legacy = L
  Streams = {L, a, b}
  Events = {e}
  Sessions = {1, 2}
  MaxOps = 3
INVARIANTS MemorySound PostsKept CaptureSound
PROPERTY AllFinish
CHECK_DEADLOCK FALSE
