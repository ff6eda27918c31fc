SPECIFICATION FairSpec
CONSTANTS
  CodeAddr <- Addresses
  CachedAddr <- Cached
  Program <- LoopProgram
  LineWords = 2
  NumSets = 4
  ResetVector = 2
  Vector = 4
  BevVector = 32
  StallCycles = 1
  MaxResets = 0
INVARIANTS
  TypeOK
  FaultingIffQueued
  NoInvalidFault
  FlushLosesNoInterlock
  NoOrphanAccess
  ProgramOrder
  RaiseMaskTracksStatus
PROPERTIES
  PreciseEPC
  RefillSatisfiesFetch
  PipelineRuns
  InterruptTaken
