CONSTANTS
  PulseNumber <- TwoPulses
  MinTimePulse = 10
  prev <- MCPrev
  JetsOf <- RootOnly
  PlatformVersion = 1
  CleanPeriod = 1
  MaxLosses = 0
  MaxFaults = 1
  MaxRestarts = 1
  MaxLoaders = 0
  TransientCreate = TRUE
  Worker = {w1, w2}
SPECIFICATION Spec
INVARIANTS TypeOK SequentialHasNoGap IncompleteIsRegistered AmountIsBounded
PROPERTY KeepsLedger
SYMMETRY WorkerSymmetry
