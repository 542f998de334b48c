SPECIFICATION Spec
CONSTANTS
  a = a
  b = b
  Replicas = {a, b}
  Peers <- MCPeers
  Catalog <- MCHeights
  Value = 3
  MinPayout = 1
  MinerMinimum = 1
  MaxOutputs = 3
  MaxBody = 2
  MaxRequests = 4
  MaxFaults = 1
INVARIANT ProofCountedOnce
CHECK_DEADLOCK FALSE
