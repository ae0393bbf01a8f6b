SPECIFICATION FairSpec
CONSTANTS
  Keys = {k1}
  Subtrees <- MCSubtrees
  Leavers <- MCLeavers
  MaxAttempts = 5
INVARIANTS TypeOK NoOwnerlessCredential HandedOverKeyIsServable StampMeansBlocked
PROPERTIES HandedOverRevocationIsFinal RevocationReachesUpstream PendingIsTransient
CHECK_DEADLOCK FALSE
