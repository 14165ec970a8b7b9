CONSTANTS
  Nobody = Nobody
  Readers = {r1}
  SnapshotFloats = 2
  ChunkFloats = 2
  MaxBlocks = 2
  QueueLimits = {4}
  BlockSizes = {2, 4}
  Modes <- AllModes
  Wants = {2}
  EndStep = 5
  Epochs = {1, 2}
  MaxTotal = 4
  MaxClears = 1
  MaxPublished = 3
SPECIFICATION PublisherFairSpec
INVARIANTS
  QueueOneEpoch
  QueueAccounted
  QueueOrdered
PROPERTY PublishReturns
