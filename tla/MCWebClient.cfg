\* Three analyses in flight, three pending timers of a page that was left.
\* The page may stop: DeadEndsKnown says where.
CONSTANTS
  MaxAnalyses = 3
  MaxTimers = 3
SPECIFICATION WebClientSpec
CHECK_DEADLOCK FALSE
INVARIANTS
  WebClientTypeOK
  OneRouteOnMap
  BuildsHaveLocation
  BusyHasCause
  DeadEndsKnown
