CONSTANTS
  Capacity = 1
  OutLines = 1
  ErrLines = 2
  ExitCode = "zero"
SPECIFICATION FairSpec
CHECK_DEADLOCK FALSE
INVARIANTS OutputComplete OneLatePing StreamInv
PROPERTIES FollowsTaskRun CanFinish WorkerFreed CancelEnds
