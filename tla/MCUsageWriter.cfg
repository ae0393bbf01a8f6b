CONSTANTS
  Records = {u1, u2, u3, u4, u5}
  Capacity = 2
  BatchSize = 2
SPECIFICATION FairSpec
INVARIANTS
  TypeOK
  NoSendOnClosedChannel
  NoSilentLoss
  CloseDrains
PROPERTIES
  ImplementsLedger
  HeldIsSettled
  CloseReturns
CHECK_DEADLOCK FALSE
