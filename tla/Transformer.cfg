SPECIFICATION Spec
CONSTANTS
  NoRef = NoRef
  SortError = SortError
  NoDrop = NoDrop
  j0 = j0
  j1 = j1
  A = A
  B = B
  QueueLen = 1
  LastPulse <- LastOne
  PlatformPulseData <- ShapesAndKinds
INVARIANTS EveryJetInOrder NoRecordLost InOrderOfChange
PROPERTY StopEnds
CHECK_DEADLOCK FALSE
