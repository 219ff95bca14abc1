\* A limit of one in windows of two seconds.
CONSTANTS
  Client = {c1}
  User = {}
  Global = global
  UserLimit = 1
  DailyLimit = 3
  PlaceLimit = 1
  Window = 2
  Day = 5
  Hour = 2
  Horizon = 6
  MaxHits = 3
  MaxWaiting = 2
  MaxFaults = 0
SPECIFICATION RateLimitsSpec
INVARIANTS
  WaitIsEnough
\* Time is bounded.
CHECK_DEADLOCK FALSE
