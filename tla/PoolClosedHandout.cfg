SPECIFICATION Spec
CONSTANTS
  Clients = {a}
  Ids = {i1}
  None = None
  MaxSize = 1
  MinWarm = 1
  MaxJobs = 0
  Faults = {}
  Impatient = {}
  Reapable = {}
PROPERTIES ClosedPoolHandsOutNothing
CHECK_DEADLOCK FALSE
