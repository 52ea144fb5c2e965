CONSTANTS
  Sixty = 60
  Minutes = 60
  Days = 3
  MaxTicks = 1
  MaxUpdates = 1
  Periods = {1, 5, 130}
  Starts <- MCStarts
  Instants <- MCInstants
SPECIFICATION TimeoutSpec
INVARIANTS
  TimeoutTypeOK
PROPERTIES
  QuietExact
  NeverBehind
  ExpiresExactly
  LastDigitStays
CHECK_DEADLOCK FALSE
