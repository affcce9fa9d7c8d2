SPECIFICATION FairSpec
CONSTANTS
  w1 = w1
  w2 = w2
  w3 = w3
  Free = Free
  Orphan = Orphan
  Workers <- ThreeWorkers
  MinDelay = 3
  LeaseTtl = 7
  AcquireTimeout = 3
  Backoffs <- OneOrTwo
  MaxLag = 1
  MaxSkew = 1
  Ahead <- OneSlowClock
INVARIANTS TypeOK StartsAreExclusive NobodySleepsForNothing
PROPERTIES MinimumStartDelay OnlyOwnerFrees EveryCallIsAnswered
