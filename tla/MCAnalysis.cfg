SPECIFICATION AnalysisSpec
CONSTANTS
  KernelPrograms <- MCKernelPrograms
  Databases <- MCDatabases
  Texts <- MCTexts
  Depth = 2
  Width = 3
  Warp = 3
  Threads = 9
  Iters = 2
  Kernels <- MCKernels
  ManyLoops = {TRUE, FALSE}
  Modulus = 4
  MaxPhis = 2
  Sources <- MCSources
  Xs <- MCXs
  Clamp = 2
  kGuardExpandLimit = 4
  ShallowGuard = 4
  MaxBuild = 3
  Selectors <- MCSelectors
  kUnderDepth = 3
  MaxLits = 5
  SelectSteps = 2
  T = 2
  iterCount = 2
  Programs <- MCPrograms
  Modes = {TRUE, FALSE}
INVARIANTS EmitsSameValue ChoiceStands  GrantsSound ConditionsSound ReadsResolved
CHECK_DEADLOCK FALSE
