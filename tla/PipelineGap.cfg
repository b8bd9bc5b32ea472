CONSTANTS
  PulseNumber <- TwoPulses
  MinTimePulse = 10
  prev <- MCPrev
  JetsOf <- RootOnly
  PlatformVersion = 1
  CleanPeriod = 1
  MaxLosses = 1
  MaxFaults = 0
  MaxRestarts = 0
  MaxLoaders = 2
  TransientCreate = FALSE
  Worker = {w1}
SPECIFICATION FairSpec
PROPERTY CompleteBecomesSequential
