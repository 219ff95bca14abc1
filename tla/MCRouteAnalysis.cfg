\* Four segments over two slots: the loop blocks twice, and up to two
\* goroutines are still asking when the scan starts.
CONSTANTS
  MaxSegments = 4
  MaxConcurrentRequests = 2
  Tag = {t1}
  Nil = Nil
  Err = Err
SPECIFICATION RouteAnalysisSpec
CHECK_DEADLOCK FALSE
INVARIANTS
  RouteAnalysisTypeOK
  ConcurrencyBound
  LostErrorsBounded
  InternalErrorIsReal
  OutageIsNoticed
  RefusalMeansNoTags
PROPERTIES
  ReturnedResultsFrozen
  GoroutinesDrain
  RequestAnswered
