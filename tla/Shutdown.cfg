SPECIFICATION ShutdownSpec
CONSTANTS
  Sender = {notifyShutdown}
  Worker = {w1, w2}
  JetDrop = {d1, d2, d3}
  None = None
  Stopping = TRUE
  MaxFailures = 2
INVARIANTS DispatcherSendsOnOpen NothingForgotten
PROPERTIES EveryJetDropIsSaved StopsWithDatabase NothingNewOnClosedDatabase
CHECK_DEADLOCK FALSE
