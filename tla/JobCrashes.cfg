SPECIFICATION Spec
CONSTANTS
  p1 = p1
  p2 = p2
  NoOwner = NoOwner
  Processors <- TwoSlots
  MaxRows = 4
  MaxAttempts = 3
  MaxStalled = 1
  Triggers <- AllTriggers
  FailsAt <- FailuresButFollowUp
  Crashes = TRUE
  LockLoss = FALSE
INVARIANTS OnlyNamedExecutionRuns
PROPERTIES SucceededIsFinal RowsFollowLifecycle
CHECK_DEADLOCK FALSE
