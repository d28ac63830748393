SPECIFICATION Spec
CONSTANTS
  MaxScans = 4
  MaxCorrections = 2
  MaxOctrees = 12
INVARIANTS
  TypeOK
  InUseAlive
PROPERTIES
  ProgramEnds
