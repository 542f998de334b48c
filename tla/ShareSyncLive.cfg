CONSTANTS
  a = a
  b = b
  f = f
  Nodes = {a, b}
  Faulty = {}
  Shares <- FewShares
  Imports <- FewImports
  FaultyNotes = {}
  TrustedRounds <- Rounds
  NetworkTarget = 9
  ShareTarget = 19
  ShareWorkUnits = 2
  FinalityDepth = 2
  PayoutWindow = 4
  MaxShares = 4
  MaxOrphans = 1
  MaxOrphanAge = 3
  MaxKnown = 3
  MaxBatch = 2
  PageSize = 3
  MaxSlots = 2
  MaxEvidence = 1
  MaxOps = 3
  MaxCopies = 0
  MaxRestarts = 1
  Watched = a
SPECIFICATION FairSpec
PROPERTIES
  LockReleased
  NodeRefinesStore
CHECK_DEADLOCK FALSE
