SPECIFICATION Spec
CONSTANTS
  Width = 4
  HashMul = 1
  Threads = {1, 2}
  Keys = {1, 3}
  Vals = {1}
  InitSize = 1
  LValue = FALSE
  Client <- Changers
  Calls <- Twice
  MaxNodes = 8
  MaxTables = 3
INVARIANTS
  Control
  Ownership
  NoDangling
  CountExact
  Reachable
  Protected
  SizeAhead
  BucketZeroReady
PROPERTIES
  MarkedFrozen
CHECK_DEADLOCK FALSE
