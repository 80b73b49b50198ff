SPECIFICATION HostSpec
CONSTANTS
  Align = 2
  ChunkSize = 10
  DedicatedMin = 6
  Sizes = {0, 2, 3, 6}
  Bases = {0, 6, 10, 16}
  WrapPages = 2
  Pages = {0, 1, 2, 3, 4, 5, 6}
  Lengths = {1, 2}
INVARIANT RegistryKept
