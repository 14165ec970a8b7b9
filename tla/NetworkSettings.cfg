SPECIFICATION MCSpec
CONSTANTS
  a = a
  b = b
  Clients <- MCClients
  Keys <- MCKeys
  Values = {0, 1}
  Taken <- MCTaken
  Tuned <- MCTuned
  Adjusted <- MCAdjusted
  Shown <- MCShown
  Near <- MCNear
  Reported <- MCReported
  Devices <- MCDevices
  None = None
  MaxEdits = 2
  MaxChanges = 1
INVARIANTS
  TypeOK
  InStep
  OnlyEditsSent
PROPERTY
  Settles
CHECK_DEADLOCK FALSE
