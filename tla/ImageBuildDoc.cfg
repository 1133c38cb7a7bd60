SPECIFICATION Spec
CONSTANTS
  MaxFeatures = 2
  Layers <- LayersMC
INVARIANT
  EnsuredAsDeclared
CHECK_DEADLOCK FALSE
