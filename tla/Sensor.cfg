SPECIFICATION Spec
CONSTANTS
  Modes = {0, 1}
  HdrModes = {}
  Channels = {c1, c2}
  Fps = {0}
  MinFps = 1
  MaxFps = 2
  Gains = {1}
  WbGains = {1, 2}
  Levels = {1}
  Envs <- SensorEnvs
INVARIANTS TypeOK InForce Remembered
SYMMETRY Alike
VIEW Seen
