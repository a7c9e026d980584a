SPECIFICATION Spec
CONSTANTS
  Clients = {a, b, c}
  Ids = {i1, i2, i3}
  None = None
  MaxSize = 2
  MinWarm = 1
  MaxJobs = 2
  Faults <- AllFaults
  Impatient = {a, b, c}
  Reapable = {i1, i2, i3}
SYMMETRY FullSymmetry
INVARIANTS TypeOK SingleOwner CapacityLedger RecycleLimit NoLeak OnlySurplusWaits StatsExact ParkHasRoom
PROPERTIES ImplementsLease
CHECK_DEADLOCK FALSE
