CONSTANTS
  PulseNumber <- OnePulse
  MinTimePulse = 10
  prev <- MCPrev
  JetsOf <- RootOnly
  PlatformVersion = 2
  CleanPeriod = 1
  MaxLosses = 0
  MaxFaults = 0
  MaxRestarts = 0
  MaxLoaders = 3
  TransientCreate = FALSE
  Worker = {w1}
SPECIFICATION FairSpec
PROPERTY LoadersFinish
