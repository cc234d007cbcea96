SPECIFICATION FairSpec
CONSTANTS
  Bufs = {b1, b2}
  NPaths = 1
  MaxOpen = 1
  Envs <- LiveEnvs
  NULL = NULL
PROPERTY FrameFlow
