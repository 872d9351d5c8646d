SPECIFICATION HFairSpec
CONSTANTS
  Width = 4
  HashMul = 1
  Threads = {1, 2}
  Keys = {1, 3}
  Vals = {1}
  InitSize = 2
  LValue = FALSE
  Client <- ChangerAndFinder
  Calls <- ThriceAndOnce
  MaxNodes = 8
  MaxTables = 3
PROPERTIES
  Linearizable
CHECK_DEADLOCK FALSE
