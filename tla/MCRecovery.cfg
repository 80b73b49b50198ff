SPECIFICATION RecSpec
CONSTANTS
  Corpus <- MCCorpus
  MaxKernels = 2
  Programs <- MCPrograms
  GraphFiles <- MCGraphFiles
  Occurs <- MCOccurs
  DotModes = {TRUE, FALSE}
  Launches <- MCLaunches
  Lanes = 4
  Bounds = {4, 8}
  Shapes <- MCShapes
  Elements <- MCElements
  Steps = {1, 4}
  DotKernels <- MCDotKernels
  Enabled = TRUE
  Wrap = 8
  Kernels <- MCKernels
  GroupM = 2
  GroupN = 2
  GroupK = 0
  Prelude <- MCPrelude
  NodeShapes <- MCNodeShapes
  MaxNodes = 13
  Blocks <- MCBlocks
  Args = {0, 3}
  Tids <- MCTids
  Iterations = {0, 2}
  Needs = {1, 3}
  BlockSizes = {1, 2}
  Grid = 2
  MaxLaunches = 2
  Room = 3
  PoolSlots = 2
  Places = {0, 5}
  Unit = 2
  Window = 8
  Atomics <- MCAtomics
  Addresses = {0, 1, 2}
  LockCount = 2
INVARIANTS EveryBodySame BlockComputesSource SameSum RecoveredSame LaneValuesSound PreludeSound
PROPERTIES DotFinishes KernelsFinish
CHECK_DEADLOCK FALSE
