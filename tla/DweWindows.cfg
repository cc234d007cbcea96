SPECIFICATION FairSpec
CONSTANTS
  NDevs = 1
  NSrc = 2
  NDst = 2
  MaxOpen = 1
  MaxCore = 2
  Steady = {}
  Envs <- WindowEnvs
  NULL = NULL
INVARIANTS SrcNoLeak NoFault HwTarget
PROPERTY NoStarvation
\* A kernel fault ends the behaviour.
CHECK_DEADLOCK FALSE
