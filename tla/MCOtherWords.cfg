\* The page may stop: a timer may hide a window entered again.
CONSTANTS
  MaxAnalyses = 1
  MaxTimers = 1
SPECIFICATION WebClientSpec
CHECK_DEADLOCK FALSE
INVARIANTS
  OtherWordsCanBeTried
