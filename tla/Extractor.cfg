SPECIFICATION Spec
CONSTANTS
  main = main
  reload = reload
  NoPulse = NoPulse
  Thread = {main, reload}
  From <- MCFrom
  Until <- MCUntil
  StartPulse = 2
  LastPulse = 3
  RecordAmount <- Amounts
  BatchSize = 1
  MaxWorkers = 1
  SerialMax = 0
  QueueLen = 1
  MaxErrors = 1
INVARIANTS WorkersCounted WholePulses RangeCovered
PROPERTIES LoadEnds StopEnds
CHECK_DEADLOCK FALSE
