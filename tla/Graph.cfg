SPECIFICATION Spec
CONSTANTS
  MaxFrames = 7
  FramewiseModes = {TRUE, FALSE}
  RealTimeModes = {TRUE, FALSE}
  StoreInterval = 2
  MinSubmapIdDiff = 1
  CoolingSubmapNum = 2
  Reliabilities = {TRUE, FALSE}
INVARIANTS TypeOK SubMapsTileFrames ChainComplete LoopEdgesSound SubMapsFollowGraph
PROPERTIES HeldNodesStay
