CONSTANTS
  Requests = {r1, r2, r3}
  Proxies = {"route"}
  NumSlots = 2
  ProxyOf <- SharedRoute
  QueueLimit = 1
  Stored <- SmallStored
  MaxFaults = 1
SPECIFICATION Spec
SYMMETRY Symmetry
CHECK_DEADLOCK FALSE
INVARIANTS TypeOK LeaseExclusive Accounting NoLostWakeup
PROPERTIES PinnedRunsNext StaleSuccessKeepsFailure LastSaveIsComplete
