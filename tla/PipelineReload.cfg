CONSTANTS
  PulseNumber <- OnePulse
  MinTimePulse = 10
  prev <- MCPrev
  JetsOf <- TwoJets
  PlatformVersion = 2
  CleanPeriod = 1
  MaxLosses = 1
  MaxFaults = 0
  MaxRestarts = 0
  MaxLoaders = 2
  TransientCreate = FALSE
  Worker = {w1}
SPECIFICATION FairSpec
INVARIANTS CompleteHasAllJetDrops CompleteWhenAllArrived AmountIsExact
PROPERTIES SavedBecomesComplete RegisterForgets
