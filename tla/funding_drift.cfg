SPECIFICATION Spec
CONSTANTS
  Fetchers = {f1}
  Events <- LateEvents
  Intervals = {4}
  Outage <- NoOutage
  Windows <- LateWindows
  RateLimit = 2
  KlineLimit = 3
INVARIANT InteriorComplete
