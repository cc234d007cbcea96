SPECIFICATION Spec
CONSTANTS
  NDevs = 2
  NSrc = 1
  NDst = 1
  MaxOpen = 1
  MaxCore = 2
  Steady = {1}
  Envs <- TwoEnvs
  NULL = NULL
INVARIANTS SrcNoLeak CoreCounts
PROPERTY DeliversFinishedFrame
