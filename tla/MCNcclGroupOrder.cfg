SPECIFICATION NcclSpec
CONSTANTS
  Ranks = {0, 1}
  Threads = {0, 1}
  Programs <- Pairs
  Failing = {}
INVARIANT MatchedInOrder
