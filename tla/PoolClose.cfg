SPECIFICATION FairSpec
CONSTANTS
  Clients = {a, b}
  Ids = {i1, i2}
  None = None
  MaxSize = 1
  MinWarm = 1
  MaxJobs = 2
  Faults <- AllFaults
  Impatient = {}
  Reapable = {i1, i2}
PROPERTIES ClosedIsFinal DrainAfterClose WaiterServedOrSlotFreed
CHECK_DEADLOCK FALSE
