CONSTANTS
  Streams <- AllStreams
  Frequencies = {f1, f2}
  Settings <- AllSettings
  SnapshotFloats = 8
  BlockFloats = 6
  MaxRows = 2
  Recreate = FALSE
  MaxCommands = 3
  MaxPublished = 2
SYMMETRY Interchangeable
SPECIFICATION Spec
INVARIANTS
  TypeOK
  ShownInTune
  ShownFresh
  NoRowTwice
  GateComparesAlike
  OutstandingOwned
CHECK_DEADLOCK FALSE
