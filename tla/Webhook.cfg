SPECIFICATION FairSpec
CONSTANTS
  d1 = d1
  u1 = u1
  u2 = u2
  NoUrl = NoUrl
  Deliveries <- OneAlert
  Urls <- AllUrls
  Hooks <- AllUrls
  MaxRedirects = 3
  MaxAttempts = 4
  MaxStalled = 1
  FailsAt <- EveryQuery
  Crashes = TRUE
INVARIANTS TypeOK DestinationIsCurrent RepetitionIsBounded
PROPERTIES KeepsPromise AlertsAreDecided
CHECK_DEADLOCK FALSE
