SPECIFICATION Spec
CONSTANTS
  Blocks = {"wdr"}
  Subscribers = {}
  MaxSets = 2
  Envs <- OpenEnvs
PROPERTY WdrAtFrameEnd
