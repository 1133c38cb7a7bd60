SPECIFICATION Spec
CONSTANTS
  Upgrades <- ShortUpgrade
  Buffers = 1
  maximum_batched_extent_size = 0
INVARIANT ZeroDisablesBatching
CHECK_DEADLOCK FALSE
