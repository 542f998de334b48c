SPECIFICATION Spec
CONSTANTS
  a = a
  b = b
  p = p
  q = q
  d = d
  n1 = n1
  n2 = n2
  n3 = n3
  n4 = n4
  Identities = {a, b, d}
  PrefixOf <- MCPrefixOf
  Nonces = {n1, n2, n3, n4}
  HelloLifetime = 1
  MaxSessions = 3
  MaxPerIdentity = 2
  MaxPerPrefix = 2
  HandshakeCapacity = 2
  HandshakeRefill = 1
  MessageCapacity = 1
  MessageRefill = 1
  MaxNonces = 3
  MaxQuarantines = 1
  MaxBuckets = 4
  QuarantineTicks = 1
  MaxCost = 1
  MaxTick = 2
  Talkers = {a}
  MaxLog = 3
INVARIANTS BarredNotAdmitted RestoreNeverRefused
PROPERTY ImplementsLimiter
SYMMETRY NonceSymmetry
