CONSTANTS
  Streams <- SyncFobos
  Frequencies = {f1, f2}
  Settings <- OneSetting
  SnapshotFloats = 8
  BlockFloats = 4
  MaxRows = 2
  Recreate = TRUE
  MaxCommands = 3
  MaxPublished = 2
SYMMETRY Interchangeable
SPECIFICATION Spec
INVARIANT GateComparesAlike
CHECK_DEADLOCK FALSE
