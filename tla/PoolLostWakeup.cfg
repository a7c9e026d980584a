SPECIFICATION FairSpec
CONSTANTS
  Clients = {a, b}
  Ids = {i1, i2}
  None = None
  MaxSize = 1
  MinWarm = 1
  MaxJobs = 1
  Faults = {}
  Impatient = {}
  Reapable = {}
PROPERTIES WaiterServed
CHECK_DEADLOCK FALSE
