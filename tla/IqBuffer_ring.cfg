CONSTANTS
  Nobody = Nobody
  Readers = {r1}
  SnapshotFloats = 6
  ChunkFloats = 2
  MaxBlocks = 1
  QueueLimits = {4}
  BlockSizes = {2, 6}
  Modes <- RingOnly
  Wants = {3, 6}
  EndStep = 3
  Epochs = {1, 2}
  MaxTotal = 8
  MaxClears = 2
  MaxPublished = 1
SPECIFICATION Spec
INVARIANTS
  TypeOK
  RingHoldsTail
  RingOneEpoch
  SnapshotContiguous
  SnapshotOneEpoch
  AlignedAsAsked
  SnapshotEndBounded
PROPERTY ImplementsLog
