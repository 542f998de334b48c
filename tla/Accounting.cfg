SPECIFICATION FairSpec
CONSTANTS
  a = a
  b = b
  Replicas = {a, b}
  Peers <- MCPeers
  Catalog <- MCCatalog
  Value = 3
  MinPayout = 1
  MinerMinimum = 1
  MaxOutputs = 3
  MaxBody = 2
  MaxRequests = 4
  MaxFaults = 1
INVARIANTS WorkRecordedOnce AcceptedIsRecorded ClaimsCurrentWhenIdle SettledFromEveryLedger
PROPERTIES ReadableLosesNothing RequestAnswered
CHECK_DEADLOCK FALSE
