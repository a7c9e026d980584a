SPECIFICATION Spec
CONSTANTS
  Clients = {a}
  Ids = {i1}
  None = None
  MaxSize = 1
  MinWarm = 1
  MaxJobs = 0
  Faults = {}
  TTL = 4
  Grace = 2
  Overrun = 0
  SlowCap = 1
PROPERTIES ReapsOnlyHung
CHECK_DEADLOCK FALSE
