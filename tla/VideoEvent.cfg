SPECIFICATION Spec
CONSTANTS
  Posters = {p1, p2}
  Daemons = {d1}
  MaxEvents = 3
  MaxTries = 2
  Elems = 1
  Envs <- EventEnvs
  NULL = NULL
SYMMETRY AlikePosters
INVARIANTS TypeOK Answered OwnResult CountIsSubscribers
