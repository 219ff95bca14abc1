\* A limit of two in windows of two seconds, three a day of five seconds;
\* one access to Redis may fail.
CONSTANTS
  Client = {c1}
  User = {u1}
  Global = global
  UserLimit = 2
  DailyLimit = 3
  PlaceLimit = 1
  Window = 2
  Day = 5
  Hour = 2
  Horizon = 6
  MaxHits = 3
  MaxWaiting = 2
  MaxFaults = 1
SPECIFICATION RateLimitsSpec
INVARIANTS
  RateLimitsTypeOK
  RefusalIsReal
  FairShare
  NoDoubleBurst
  QuietClientIsAdmitted
\* Time is bounded.
CHECK_DEADLOCK FALSE
