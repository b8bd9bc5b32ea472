SPECIFICATION Spec
CONSTANTS
  DefaultLimit = 2
  MaxLimit = 3
  MinPulseNumber = 1
  MaxResaves = 1
  MaxErrors = 1
  Ledger <- MCLedger
  LifelineRequests <- MCLifelineRequests
  RecordsRequests <- MCRecordsRequests
  SearchRequests <- MCSearchRequests
INVARIANTS PagesShowEveryRecord SearchLeadsToRecord
