SPECIFICATION Spec
CONSTANTS
  Bufs = {b1, b2, b3}
  NPaths = 2
  MaxOpen = 1
  Envs <- WindowEnvs
  NULL = NULL
SYMMETRY Symmetry
INVARIANTS NoLeak HwTarget
PROPERTY DeliversFinishedFrame
