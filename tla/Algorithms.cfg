SPECIFICATION Spec
CONSTANTS
  Shares <- MCShares
  TrustedRounds <- Rounds
  NetworkTarget = 9
  ShareTarget = 19
  ShareWorkUnits = 2
  FinalityDepth = 1
  PayoutWindow = 2
  MaxShares = 4
  MaxList = 5
  Networks = {1, 2, 3, 4}
  Operators = {1, 2, 3, 4}
  Transports = {1, 2, 3}
  MaxPerPrefix = 1
  MaxPerOperator = 1
  MaxPerTransport = 2
  MinPeers = 3
  MinPrefixes = 3
  MinOperators = 3
  MinTransports = 2
  MaxCandidates = 8
  MaxPeers = 8
  OperatorCount = 4
  MaxTable = 4
  Catalog <- MCCatalog
  MaxValue = 16
  MinPayout = 2
  MinerMinimum = 2
  MaxOutputs = 3
INVARIANTS ValidatorsAgree ClaimsCoverWindow AssembledSetLoads ExactDivision MinerAgrees
CHECK_DEADLOCK FALSE
