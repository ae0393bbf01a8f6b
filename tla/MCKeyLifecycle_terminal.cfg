SPECIFICATION Spec
CONSTANTS
  Keys = {k1}
  Subtrees <- MCSubtrees
  Leavers <- MCLeavers
  MaxAttempts = 5
PROPERTIES RevokedIsTerminal
CHECK_DEADLOCK FALSE
