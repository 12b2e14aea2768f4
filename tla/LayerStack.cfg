SPECIFICATION Spec
CONSTANT MaxLayers = 3
CHECK_DEADLOCK FALSE
INVARIANT PropagatedThroughTheLayers
