SPECIFICATION PoolSpec
CONSTANTS
  PulseRange <- Gaps
  TTL = 2
  CleanPeriod = 2
PROPERTIES NotReloadedWithinTTL PassHalvesExpired StopReturns
