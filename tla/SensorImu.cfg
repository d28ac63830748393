SPECIFICATION ImuSpec
CONSTANTS
  MaxTime = 5
  ScanLen = 1
  MinPeriod = 2
  ImuGap = 1
  MotorGap = 2
  MaxLoopBacks = 1
  MotorInitialized = {TRUE, FALSE}
  MaxInitCount = 1
  UnsetEnds = {0, 9}
INVARIANTS FilterTypeOK ScanSynchronised ImuSharedOut ScanUndistorted
PROPERTIES ScansDrain
