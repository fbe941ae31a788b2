CONSTANTS
  t1 = t1
  t2 = t2
  t3 = t3
  Threads = {t1, t2, t3}
  NoThread = NoThread
  Names = {1}
  End = End
  Features = 1
  AllocMayFail = FALSE
  MaxCalls = 1
SPECIFICATION FairSpec
INVARIANT WaiterHasWaker
PROPERTY CallsReturn
CHECK_DEADLOCK FALSE
