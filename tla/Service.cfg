SPECIFICATION FairSpec
CONSTANTS
  Clients = {a, b}
  Ids = {i1, i2}
  None = None
  MaxSize = 1
  MinWarm = 1
  MaxJobs = 0
  Faults = {"create"}
  TTL = 1
  Grace = 1
  Overrun = 0
  SlowCap = 2
INVARIANTS TypeOK TrackedIsOwned NoReapOnClosedPool
PROPERTIES DeadlineIsSpent CollectsOverdueOnly HungJobEnds CloseReturns
CHECK_DEADLOCK FALSE
