CONSTANTS
  MaxAttempts = 3
  CallbackAttempts = 2
  Watched = FALSE
  Limited = TRUE
  HeardBound = 3
  Faults <- MCNetworkFaults
SPECIFICATION FairSpec
CHECK_DEADLOCK FALSE
INVARIANTS OneOutcome SkippedIsSilent AllSaid
PROPERTIES CancelInTime KeepsContract RunEnds
