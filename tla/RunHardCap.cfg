CONSTANTS
  MaxAttempts = 2
  CallbackAttempts = 1
  Watched = TRUE
  Limited = FALSE
  HeardBound = 3
  Faults <- MCNoFaults
SPECIFICATION FairSpec
CHECK_DEADLOCK FALSE
PROPERTIES HardCap
