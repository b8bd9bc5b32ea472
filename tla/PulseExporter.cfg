SPECIFICATION Spec
CONSTANTS
  Stream = {s1, s2}
  LastPulse = 2
  MaxMatching = 2
  MaxFindErrors = 1
  MaxCountErrors = 1
  MaxBreaks = 1
INVARIANTS ReceivedInChain AmountIsFinal
PROPERTY MatchingPulsesArrive
