SPECIFICATION BaySpec
CONSTANTS
  cb = cb
  ds1 = ds1
  Switch = {cb, ds1}
  Breaker = {cb}
  Cb = cb
  Isolators <- OneIsolator
  Thread = {t1, t2, t3}
INVARIANTS
  InterlockFollowsBreaker
PROPERTIES
  CommandNeedsOpenBreaker
  TripReleases
CHECK_DEADLOCK FALSE
