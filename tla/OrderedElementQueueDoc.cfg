SPECIFICATION FairSpec
CONSTANTS
  Items <- DocumentedItems
  Consumers = {c1, c2}
PROPERTY GoodSetDelivered
CHECK_DEADLOCK FALSE
