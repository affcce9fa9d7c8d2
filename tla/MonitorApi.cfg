SPECIFICATION Spec
CONSTANTS
  MaxRequests = 3
  MaxInFlight = 2
  MaxRuns = 2
  Bodies <- AllEdits
  FailsAt <- EveryStep
  Crashes = TRUE
INVARIANTS UpdatesRepairTheSchedule SnapshotHasFields NamedScreenshotExists 
CHECK_DEADLOCK FALSE
