SPECIFICATION FairSpec
CONSTANTS
  Requests = {r1, r2}
  Kinds <- MCBumps
  Deciders = {d1}
  Claims = {}
  MaxExecute = 2
  MaxAttempts = 3
  None = None
PROPERTIES ApprovedBumpSettles ExpiredBumpIsReclaimed
CHECK_DEADLOCK FALSE
