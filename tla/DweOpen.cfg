SPECIFICATION Spec
CONSTANTS
  NDevs = 1
  NSrc = 1
  NDst = 1
  MaxOpen = 1
  MaxCore = 2
  Steady = {}
  Envs <- OpenEnvs
  NULL = NULL
INVARIANTS TypeOK OneRole BusyIsWorking
\* A kernel fault ends the behaviour.
CHECK_DEADLOCK FALSE
