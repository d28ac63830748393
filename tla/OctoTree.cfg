SPECIFICATION Spec
CONSTANTS
  Octants = {1, 2}
  MaxLayers = 2
  LayerPoints <- MCLayerPoints
  UpdateSize = 1
  MaxPoints = 5
  CovLimits = {2, 5}
  MaxReceived = 7
INVARIANTS TypeOK PlanesAllMatched ListsCounted
PROPERTIES PlanesSettle
CHECK_DEADLOCK FALSE
