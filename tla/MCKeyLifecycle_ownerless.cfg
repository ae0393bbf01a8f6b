SPECIFICATION Spec
CONSTANTS
  Keys = {k1}
  Subtrees <- MCSubtrees
  Leavers <- MCLeavers
  MaxAttempts = 5
INVARIANTS NoOwnerlessCredentialEver
CHECK_DEADLOCK FALSE
