CHECK_DEADLOCK FALSE
CONSTANTS
  CancelRetries = 1
  MaxStarts = 1
  MaxFailures = 0
  MaxChanges = 0
SPECIFICATION FobosSpec
PROPERTY StopCompletes
