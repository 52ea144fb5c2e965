CONSTANTS
  Lines = {1, 6, 8, 9, 12}
  MaxNest = 3
SPECIFICATION IrqSpec
INVARIANTS
  IrqTypeOK
  OneHandlerAtATime
  InServiceExact
