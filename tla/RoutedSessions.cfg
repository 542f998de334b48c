SPECIFICATION Spec
CONSTANTS
  a = a
  b = b
  p = p
  q = q
  t1 = t1
  t2 = t2
  Identities = {a}
  PrefixOf <- MCPrefixOf
  Nonces = {1, 2, 3, 4}
  Threads = {t1, t2}
  HelloLifetime = 0
  SessionLifetime = 0
  MaxSessions = 2
  MaxPerIdentity = 2
  MaxPerPrefix = 2
  HandshakeCapacity = 2
  HandshakeRefill = 1
  MessageCapacity = 1
  MessageRefill = 1
  MaxNonces = 3
  MaxQuarantines = 1
  MaxBuckets = 4
  QuarantineTicks = 1
  MaxCost = 1
  MaxTick = 1
  MaxHellos = 4
  MaxHeld = 1
INVARIANTS HelloAnsweredOnce AnsweredRate LiveSessionsCounted
SYMMETRY ThreadSymmetry
