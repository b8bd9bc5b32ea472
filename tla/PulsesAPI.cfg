SPECIFICATION Spec
CONSTANTS
  LastPulse = 4
  MaxErrors = 1
  DefaultLimit = 2
  MaxLimit = 3
  MinPulseNumber = 1
  Requests <- MCRequests
INVARIANTS NeighboursAreReal PagesShowEveryPulse
