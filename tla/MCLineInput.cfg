CONSTANTS
  Width = 4
  Height = 2
  Glyphs = {"a", "b"}
  Modulus = 64
  BufSize = 9
  Prompt <- ThePrompt
  Outputs <- TheOutputs
SPECIFICATION Spec
INVARIANTS
  TypeOK
  ScreenFaithful
  LineFaithful
PROPERTIES
  OverrunsNamed
  AsksAgain
CHECK_DEADLOCK FALSE
