SPECIFICATION Spec
CONSTANTS
  MaxFrames = 4
  MaxCorrections = 2
  ProcessLocked = TRUE
  RealTime = TRUE
  WithGNSS = FALSE
  Incremental = FALSE
  StoreInterval = 1
  CoolingSubmapNum = 1
INVARIANTS
  StateComposesCorrections
