SPECIFICATION FairSpec
CONSTANTS
  Items <- BatchedItems
  Consumers = {c1, c2}
INVARIANTS
  InOrder
  NothingLost
  NoLostWakeup
PROPERTIES
  AllDelivered
  ImplementsFairPromise
CHECK_DEADLOCK FALSE
