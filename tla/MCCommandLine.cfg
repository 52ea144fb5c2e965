CONSTANTS
  MAX_ARGS = 3
  MAX_ARG_LEN = 2
  Gap = 1
  Letters = {"x", "y"}
  MaxLine = 5
  Exit <- TheExit
SPECIFICATION Spec
INVARIANTS
  TypeOK
  SplitExact
  RowsWiped
PROPERTIES
  SmashedByLine
CHECK_DEADLOCK FALSE
