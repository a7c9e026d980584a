SPECIFICATION Spec
CONSTANTS
  Clients = {a, b}
  Ids = {i1, i2}
  None = None
  MaxSize = 1
  MinWarm = 1
  MaxJobs = 0
  Faults = {}
  TTL = 1
  Grace = 1
  Overrun = 0
  SlowCap = 0
PROPERTIES ReapsOnlyCheckedOut
CHECK_DEADLOCK FALSE
