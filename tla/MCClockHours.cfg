CONSTANTS
  Sixty = 12
  Minutes = 2
  Days = 2
  MaxTicks = 2
SPECIFICATION Spec
PROPERTY Converted12To24
CHECK_DEADLOCK FALSE
