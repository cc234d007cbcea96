SPECIFICATION FairSpec
CONSTANTS
  Posters = {p1, p2}
  Daemons = {d1}
  MaxEvents = 2
  MaxTries = 2
  Elems = 1
  Envs <- LiveEnvs
  NULL = NULL
PROPERTY Returns
