SPECIFICATION Spec
CONSTANTS
  Requests = {r1, r2}
  Kinds <- MCKinds
  Deciders = {d1, d2}
  Claims = {c1, c2}
  MaxExecute = 5
  MaxAttempts = 6
  None = None
INVARIANTS NoPermanentBump
CHECK_DEADLOCK FALSE
