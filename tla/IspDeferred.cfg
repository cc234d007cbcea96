SPECIFICATION FairSpec
CONSTANTS
  Blocks = {"cc", "wdr", "gamma"}
  Subscribers = {s1, s2}
  MaxSets = 2
  Envs <- DeferredEnvs
INVARIANTS TypeOK AskedSettings NoLostSetting PostEventSound
PROPERTY SettingsLand
