SPECIFICATION FairSpec
CONSTANTS
  Upgrades <- SmallUpgrades
  Buffers = 1
  maximum_batched_extent_size = 3
INVARIANTS
  PipelineIsSound
  DoneOnlyWhenComplete
  NoFailureForgotten
  BatchesAreMaximal
PROPERTY ImplementsInOrderUpgrade
CHECK_DEADLOCK FALSE
