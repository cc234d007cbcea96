SPECIFICATION Spec
CONSTANTS
  Bufs = {b1, b2}
  NPaths = 1
  MaxOpen = 1
  Envs <- OpenEnvs
  NULL = NULL
SYMMETRY Symmetry
INVARIANTS TypeOK OneRole OneOwner NoFault EmptyWhenIdle
PROPERTIES FlowSpec SharedOnlyByStreamoff
\* A kernel fault ends the behaviour.
CHECK_DEADLOCK FALSE
