CONSTANTS
  Places = 2
  Bars <- MCBars
  OtherBars = {1, 4173824}
  HeapBytes = 2900000
  PortKinds <- MCPortKinds
SPECIFICATION Spec
INVARIANTS
  TypeOK
  ProbeExact
  PrintedExact
CHECK_DEADLOCK FALSE
