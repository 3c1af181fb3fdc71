SPECIFICATION FairSpec
CONSTANTS
  t1 = t1
  t2 = t2
  Thread <- MCThread
  Asks <- MCAsks
  Beyond = 7
  Capacity = 2
  Workers = 1
  WritersFirst = FALSE
  MaxTx = 2
  MaxItem = 3
  MaxVisit = 1
CHECK_DEADLOCK FALSE
INVARIANTS ScanMeetsAll GarbageCounted
PROPERTIES EveryCallReturns GarbageCollected
