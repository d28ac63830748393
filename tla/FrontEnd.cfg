SPECIFICATION FrontEndSpec
CONSTANTS
  MaxIter = 5
  MergedFrames = 3
  MaxScans = 8
  MaxCorrections = 2
INVARIANTS
  FrontEndTypeOK
  UpdateSound
  ScanJoinsMap
