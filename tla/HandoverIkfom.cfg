SPECIFICATION Spec
CONSTANTS
  MaxFrames = 5
  MaxCorrections = 3
  ProcessLocked = TRUE
  RealTime = TRUE
  WithGNSS = FALSE
  Incremental = FALSE
  StoreInterval = 1
  CoolingSubmapNum = 1
INVARIANTS
  TypeOK
  HandoverExclusion
  BufferConsistent
  PosesInStep
PROPERTIES
  PublishedStable
  HandoverProgress
