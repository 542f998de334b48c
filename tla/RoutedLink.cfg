SPECIFICATION FairSpec
CONSTANTS
  a = a
  b = b
  Hosts = {a, b}
  Slots = 2
  HelloLifetime = 1
  SessionLifetime = 2
  Offsets <- MCOffsets
  MaxCalls <- MCMaxCalls
  MaxTick = 2
INVARIANTS AppliedInOrder SkewNeedsTime
PROPERTY AllReleased
CHECK_DEADLOCK FALSE
