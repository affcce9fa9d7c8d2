SPECIFICATION Spec
CONSTANTS
  v1 = v1
  v2 = v2
  NoValue = NoValue
  Free = Free
  Orphan = Orphan
  Values <- TwoValues
  MaxRows = 3
  MaxAttempts = 2
  MaxStalled = 1
  MaxInFlight = 2
  FailsAt <- CommitAndPublication
  Crashes = TRUE
  Lapses = TRUE
INVARIANTS ReportsAreTrue ChangeAgreesWithBaseline OneAlertPerChange ChangeIsReportedOnce ChangesAreAlerted
PROPERTIES BaselineIsCurrent
SYMMETRY Symmetry
CHECK_DEADLOCK FALSE
