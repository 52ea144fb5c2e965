CONSTANTS
  NCS = 2
  Counts = {1, 16, 17, 129}
  MaxSpin = 2
  MaxDrives = 2
SPECIFICATION Spec
INVARIANTS
  TypeOK
PROPERTIES
  TrueMeansRead
  TablesKept
  CallsEnd
CHECK_DEADLOCK FALSE
