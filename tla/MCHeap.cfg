CONSTANTS
  HeapBegin = 1
  HeapEnd = 17
  Sizes = {1, 2}
  DescSize = 1
  Words = {0, 2}
  Modulus = 7
SPECIFICATION Spec
INVARIANTS
  TypeOK
  HeapSound
  PanicJustified
  AccountExact
PROPERTIES
  GrowOnlyIfFull
  MallocEnds
  ImplementsAllocator
CHECK_DEADLOCK FALSE
