SPECIFICATION Spec
CONSTANTS
  Program <- Software
  ResetVector = 1
  Vector = 10
  BevVector = 8
  MaxDepth = 2
  Devices = {DP}
  DP = DP
  Modes = {"ebus"}
  Period = 12
  MaxWrites = 0
INVARIANTS
  TypeOK
  ClosesInTime
PROPERTIES
  TimerWaits
  NotInHandler
  RestoresContext
