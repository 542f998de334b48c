SPECIFICATION Spec
CONSTANTS
  m1 = m1
  m2 = m2
  Miners <- MCMiners
  Bodies <- MCBodies
  VersionOf <- MCVersionOf
  Modes <- MCModes
  MaxCalls <- MCMaxCalls
  MaxRestarts = 1
INVARIANTS
  AcceptedJobIsOwn
  RejectionExplained
  ViewsMatchMode
CHECK_DEADLOCK FALSE
