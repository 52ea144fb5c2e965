CONSTANTS
  Lines = {0, 1}
  MaxNest = 2
  Keys = {"a"}
SPECIFICATION Spec
PROPERTY KeyboardWorks
