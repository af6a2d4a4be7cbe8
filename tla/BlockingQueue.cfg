SPECIFICATION FairSpec
CONSTANTS
  Threads = {t1, t2, t3}
  Capacity = 2
  MaxPush = 4
INVARIANTS
  TypeOK
  Accounting
  NoDoubleDelivery
  WakeupBudget
  CloseReachesWaiters
PROPERTIES
  FailsOnlyWhenEmpty
  ImplementsWindow
  ItemReachesWaiter
  PopsReturn
CHECK_DEADLOCK FALSE
