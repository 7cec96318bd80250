CONSTANTS
  Threads = {t1, t2, t3}
  Free = Free
  Initial = 1
  MaxCalls = 2
  MaxSpurious = 1
  MAX_BUF = 2
  NLOOPS = 7
  Room = 2
  MaxEntries = 3
SPECIFICATION AnySpec
INVARIANTS NoStranded CounterInRange OwnSizes
PROPERTIES ImplementsSemaphore WorksUntilLost
