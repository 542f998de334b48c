CONSTANTS
  a = a
  b = b
  f = f
  Nodes = {a, b, f}
  Faulty = {f}
  Shares <- MCShares
  Imports <- MCImports
  FaultyNotes <- Notes
  TrustedRounds <- Rounds
  NetworkTarget = 9
  ShareTarget = 19
  ShareWorkUnits = 2
  FinalityDepth = 2
  PayoutWindow = 4
  MaxShares = 4
  MaxOrphans = 1
  MaxOrphanAge = 3
  MaxKnown = 3
  MaxBatch = 2
  PageSize = 3
  MaxSlots = 2
  MaxEvidence = 1
  MaxOps = 3
  MaxCopies = 1
  MaxRestarts = 1
  Watched = a
SYMMETRY Symmetry
SPECIFICATION Spec
INVARIANTS
  TypeOK
  EvidenceOnlyAgainstFaulty
  LiveNeverReplay
PROPERTIES
  ConvergedSameState
  AnsweredConflictIsDurable
CHECK_DEADLOCK FALSE
