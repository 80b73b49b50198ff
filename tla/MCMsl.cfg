SPECIFICATION MslSpec
CONSTANTS
  Graphs <- MCGraphs
  Regions <- MCRegions
  RegionBlocks = 5
  kMaxBlocks = 2
  MaxRounds = 3
  Sources <- MCSources
  Inputs <- MCInputs
  Memory <- MCMemory
  MaxArm = 3
  Rounds = 3
  Bodies <- MCBodies
  Envs <- MCEnvs
  MaxLanes = 2
  MaxBits = 4
  Objects <- MCObjects
  Stored <- MCStored
  Shapes <- MCShapes
  MaxGrown = 3
  Joins <- MCJoins
  SharedJobs <- MCSharedJobs
  ParamJobs <- MCParamJobs
  GlobalJobs <- MCGlobalJobs
  DefaultMaxThreads = 64
  ScratchPerSg = 512
INVARIANTS EdgesKept SamePath SameEffect SameBits PointersRight LaidOutRight
CHECK_DEADLOCK FALSE
