SPECIFICATION FairSpec
CONSTANTS
  Fetchers = {f1, f2}
  Events <- MCEvents
  Intervals <- MCIntervals
  Outage <- MCOutage
  Windows <- MCWindows
  RateLimit = 1
  KlineLimit = 2
VIEW LiveState
INVARIANTS TypeOK CacheSound LacksOnlyNear
PROPERTIES KeepsPromise FetchEnds
