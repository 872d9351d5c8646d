SPECIFICATION PoolSpec
CONSTANTS
  Keys = {k1, k2, k3, k4}
  Nodes = {0, 1, 2, 3}
  Capacities = {0, 1, 2, 3, 4}
  IntBits = 2
  WordBits = 3
  Null = Null
  Absent = Absent
INVARIANTS
  PoolIsRecency
  NodesOwned
PROPERTIES
  PoolDropsOldest
CHECK_DEADLOCK FALSE
