SPECIFICATION Spec
CONSTANTS
  p1 = p1
  p2 = p2
  NoOwner = NoOwner
  Processors <- TwoSlots
  MaxRows = 4
  MaxAttempts = 3
  MaxStalled = 1
  Triggers <- OnlyManual
  FailsAt <- NoFailures
  Crashes = TRUE
  LockLoss = FALSE
INVARIANTS FailureHasCode
CHECK_DEADLOCK FALSE
