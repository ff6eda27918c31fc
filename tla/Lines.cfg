SPECIFICATION FairSpec
CONSTANTS
  Devices = {DP, VI}
  DP = DP
  VI = VI
  Modes = {"ebus"}
  Period = 4
  MaxWrites = 2
INVARIANTS
  TypeOK
  CauseFollowsMI
PROPERTIES
  TimerWaits
  TimerExpires
