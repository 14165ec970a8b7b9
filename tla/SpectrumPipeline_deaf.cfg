CONSTANTS
  Streams <- AllStreams
  Frequencies = {f1, f2}
  Settings <- OneSetting
  SnapshotFloats = 8
  BlockFloats = 4
  MaxRows = 2
  Recreate = FALSE
  MaxCommands = 2
  MaxPublished = 2
SYMMETRY Interchangeable
SPECIFICATION Spec
INVARIANT StreamAccepted
CHECK_DEADLOCK FALSE
