SPECIFICATION Spec
CONSTANTS
  Urls <- SomeUrls
  Answers <- SomeAnswers
  Pages <- SomePages
  Previous <- OldOutputs
  MaxRedirects = 2
  MaxMatches = 2
  MaxRefused = 2
INVARIANTS OneBrowserPerCall ResultIsWithinPolicy StaticResultSurvives NumbersAreRead BlockedHasCause ChangeSetIsExact
CHECK_DEADLOCK FALSE
