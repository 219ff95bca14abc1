\* One failed request is enough: the scan runs before its error is stored.
CONSTANTS
  MaxSegments = 3
  MaxConcurrentRequests = 2
  Tag = {t1}
  Nil = Nil
  Err = Err
SPECIFICATION RouteAnalysisSpec
CHECK_DEADLOCK FALSE
INVARIANTS
  FailureIsNotBlamedOnInput
