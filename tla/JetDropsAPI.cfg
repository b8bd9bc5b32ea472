SPECIFICATION Spec
CONSTANTS
  DefaultLimit = 2
  MaxLimit = 7
  MinPulseNumber = 1
  MaxErrors = 1
  Ledgers <- MCLedgers
  PathRequests <- MCPathRequests
  ListRequests <- MCListRequests
  PulseRequests <- MCPulseRequests
INVARIANTS LinksAreTrue EveryNeighbourByID EveryPredecessorListed LinksLeadBack PagesShowEveryDrop
