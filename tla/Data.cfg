SPECIFICATION Spec
CONSTANTS
  B = 1
  Registers <- MCRegisters
  Starts <- MCStarts
  Handlers <- MCHandlers
  Values = {0, 1, 3, 7, 8, 15, 16, 90, 127, 128, 200, 248, 255}
CHECK_DEADLOCK FALSE
PROPERTIES
  FlatSpec
  ResultsRight
  LanesRight
