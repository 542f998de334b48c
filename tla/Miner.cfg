SPECIFICATION FairSpec
CONSTANTS
  m1 = m1
  m2 = m2
  c1 = c1
  c2 = c2
  Miners = {m1, m2}
  Coordinators <- MCCoordinators
  Views = {v1, v2}
  MaxHeight = 3
INVARIANTS QuarantineJustified PublishedIsInChain
CHECK_DEADLOCK FALSE
PROPERTY CoordinatorsNeverHalt
