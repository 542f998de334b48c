CONSTANTS
  Shares <- MCShares
  Batches <- MCBatches
  TrustedRounds <- Rounds
  NetworkTarget = 9
  ShareTarget = 19
  ShareWorkUnits = 2
  FinalityDepth = 2
  PayoutWindow = 4
  MaxShares = 6
  MaxOrphans = 2
  MaxOrphanAge = 2
  MaxKnown = 5
  MaxBatch = 2
  StartTicks <- MCStartTicks
SPECIFICATION Spec
INVARIANTS
  TypeOK
  AcceptedGraphValid
  WorkHeldOnce
  NoOrphanLeftBehind
  SavedSharesLoad
  LoopReachesFixedPoint
PROPERTY SelectionNeverWorsens
