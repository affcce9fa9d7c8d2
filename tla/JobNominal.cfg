SPECIFICATION FairSpec
CONSTANTS
  p1 = p1
  p2 = p2
  NoOwner = NoOwner
  Processors <- TwoSlots
  MaxRows = 4
  MaxAttempts = 3
  MaxStalled = 1
  Triggers <- AllTriggers
  FailsAt <- FailuresInTry
  Crashes = FALSE
  LockLoss = FALSE
INVARIANTS OneExecutionPerJob VerdictMatchesJob MonitorShowsVerdict
PROPERTIES BlockedEndsJob ExecutionSettles
CHECK_DEADLOCK FALSE
