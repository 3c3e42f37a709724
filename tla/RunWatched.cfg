CONSTANTS
  MaxAttempts = 2
  CallbackAttempts = 1
  Watched = TRUE
  Limited = FALSE
  HeardBound = 1
  Faults <- MCAllFaults
SPECIFICATION FairSpec
CHECK_DEADLOCK FALSE
INVARIANTS RunInv LostWasCancelled
PROPERTIES CancelFreesWorker
