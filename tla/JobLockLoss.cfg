SPECIFICATION FairSpec
CONSTANTS
  p1 = p1
  p2 = p2
  NoOwner = NoOwner
  Processors <- TwoSlots
  MaxRows = 1
  MaxAttempts = 2
  MaxStalled = 1
  Triggers <- OnlyManual
  FailsAt <- FailuresAround
  Crashes = TRUE
  LockLoss = TRUE
INVARIANTS TypeOK
PROPERTIES JobSettles
CHECK_DEADLOCK FALSE
