CHECK_DEADLOCK FALSE
CONSTANTS
  CancelRetries = 1
  MaxStarts = 2
  MaxFailures = 2
  MaxChanges = 1
SPECIFICATION FairSpec
INVARIANTS
  TypeOK
  IdleMeansStopped
  ReaderHasSession
  RetryOnce
PROPERTIES
  RunningMeansStarted
  StopSettles
  CloseSettles
