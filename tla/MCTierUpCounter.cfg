CONSTANTS
  NumBytecodes = 2
  Lengths = {1, 5}
  InitCounter = 20
  None = None

SPECIFICATION Spec

PROPERTIES
  CycleDecreasesCounter
