SPECIFICATION FairSpec
CONSTANTS
  p1 = p1
  p2 = p2
  NoOwner = NoOwner
  Processors <- TwoSlots
  MaxRows = 4
  MaxAttempts = 3
  MaxStalled = 1
  Triggers <- OnlyManual
  FailsAt <- FollowUpFails
  Crashes = FALSE
  LockLoss = FALSE
PROPERTIES SucceededIsFinal
CHECK_DEADLOCK FALSE
