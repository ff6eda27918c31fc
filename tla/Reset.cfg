SPECIFICATION Spec
CONSTANTS
  CodeAddr <- Addresses
  CachedAddr <- Cached
  Program <- FloatProgram
  LineWords = 2
  NumSets = 4
  ResetVector = 2
  Vector = 4
  BevVector = 32
  StallCycles = 1
  MaxResets = 2
INVARIANTS
  ProgramOrder
  WellBehaved
