SPECIFICATION FairSpec
CONSTANTS
  StreamLength = 3
  Streams <- SmallStreams
  MaximumSizes = {0, 2, 3}
  compression_level = 1
INVARIANTS
  UpgradeIsSound
  BatchesAreMaximal
PROPERTY ImplementsInOrderUpgrade
CHECK_DEADLOCK FALSE
