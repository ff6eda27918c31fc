SPECIFICATION Spec
CONSTANTS
  B = 1
  Registers <- MCRegisters
  Starts <- MCStarts
  Handlers <- MCHandlers
  Values = {}
CHECK_DEADLOCK FALSE
PROPERTIES
  UpperHalfKept
