SPECIFICATION FairSpec
CONSTANTS
  w1 = w1
  w2 = w2
  None = None
  Workers <- MCWorkers
  Periods <- ShortPeriods
  MaxIds = 2
  MaxTime = 2
INVARIANTS
  NeverSleepsOnWork
  DeliveredOnce
PROPERTIES
  NoBurst
  EveryMessageArrives
