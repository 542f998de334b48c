CONSTANTS
  a = a
  b = b
  f = f
  Nodes = {a, b}
  Faulty = {}
  Shares <- PagedShares
  Imports <- PagedImports
  FaultyNotes = {}
  TrustedRounds <- Rounds
  NetworkTarget = 9
  ShareTarget = 19
  ShareWorkUnits = 2
  FinalityDepth = 2
  PayoutWindow = 4
  MaxShares = 4
  MaxOrphans = 1
  MaxOrphanAge = 3
  MaxKnown = 4
  MaxBatch = 3
  PageSize = 2
  MaxSlots = 2
  MaxEvidence = 1
  MaxOps = 3
  MaxCopies = 0
  MaxRestarts = 0
  Watched = a
SPECIFICATION Spec
PROPERTY ConvergedSetsAgree
CHECK_DEADLOCK FALSE
