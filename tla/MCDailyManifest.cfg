SPECIFICATION Spec
CONSTANTS
  a = a
  b = b
  c = c
  d = d
  x = x
  p = p
  q = q
  Rounds = {a, b, c, d, x}
  OneHop = {a, b, c, d}
  Contents = {1, 2}
  Pools = {p, q}
  PoolRounds <- MCPoolRounds
  Similar <- MCSimilar
  live = live
  frozen = frozen
  Urls = {live, frozen}
  Live = live
  g1 = g1
  g2 = g2
  Generations = {g1, g2}
  NoGeneration = NoGeneration
  NoFile = NoFile
  NoManifest = NoManifest
  NoDay = NoDay
  StartDates = {0}
  BuildDays = {2}
  ExtendDays = {1}
  FirstPool = p
  LastDay = 2
  MaxCommands = 5
INVARIANTS OnlyOvertakenDatesChange ScheduledResolves RepeatsAreForced
PROPERTIES CalendarIsFrozen
SYMMETRY MCSymmetry
CHECK_DEADLOCK FALSE
