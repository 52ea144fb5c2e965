CONSTANTS
  Partitions = 2
  SysIds = {0, 12}
  Skip = 1
  DriveSize = 460
  Room = 1
SPECIFICATION Spec
INVARIANTS
  TypeOK
PROPERTIES
  NeverRecognised
  CallsEnd
CHECK_DEADLOCK FALSE
