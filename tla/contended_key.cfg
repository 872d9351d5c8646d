SPECIFICATION HFairSpec
CONSTANTS
  Width = 4
  HashMul = 1
  Threads = {1, 2, 3}
  Keys = {1}
  Vals = {1}
  InitSize = 1
  LValue = FALSE
  Client <- Everyone
  Calls <- Once
  MaxNodes = 8
  MaxTables = 3
PROPERTIES
  Linearizable
  Termination
CHECK_DEADLOCK FALSE
