SPECIFICATION Spec
CONSTANTS
  MaxFeatures = 4
  Layers <- LayersMC
INVARIANTS
  ItemsAreThere
  OrderIndependent
PROPERTIES
  RequiredBeforeBuilt
  FailsOnlyFor
  MountpointsCleaned
CHECK_DEADLOCK FALSE
