SPECIFICATION FairSpec
CONSTANTS
  t1 = t1
  t2 = t2
  e1 = e1
  e2 = e2
  Nobody = Nobody
  Tabs <- TwoTabs
  Loading <- OneTab
  Emails <- TwoEmails
  MaxSessions = 2
  MaxPreviews = 1
  MaxActs = 3
  MaxPolls = 2
INVARIANTS OneAccountPerEmail MutationsRunAsComposed
PROPERTIES PreviewingEnds
CHECK_DEADLOCK FALSE
