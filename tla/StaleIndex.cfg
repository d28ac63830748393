SPECIFICATION Spec
CONSTANTS
  MaxBucketVal = 5
  Values <- MCValues
  NumBuckets = 3
  ScanKeys <- MCScanKeys
  MinElapse = 1
  MaxElapse = 3
  KNearest = 2
  MaxDistSq = 5
  MaxScans = 8
INVARIANTS IndexCurrent
CHECK_DEADLOCK FALSE
