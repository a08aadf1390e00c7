SPECIFICATION FairSpec
CONSTANTS
  t1 = t1
  t2 = t2
  t3 = t3
  NoThread = NoThread
  Threads <- MCThreads
  InitValues <- MCValues
  InitMaxes <- MCMaxes
  MaxInits = 2
  MaxWaits = 4
  MaxSignals = 4
  MaxSpurious = 1
INVARIANTS
  TypeOK
  ValueInRange
  WaitsCovered
  NoLostWakeup
  NoUseAfterDestroy
PROPERTIES
  ImplementsSemaphore
  ImplementsFairness
  PermitReachesWaiter
CHECK_DEADLOCK FALSE
