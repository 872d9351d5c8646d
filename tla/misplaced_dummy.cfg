SPECIFICATION Spec
CONSTANTS
  Width = 4
  HashMul = 1
  Threads = {1, 2}
  Keys = {1, 2, 3}
  Vals = {1}
  InitSize = 1
  LValue = FALSE
  Client <- Inserters
  Calls <- Twice
  MaxNodes = 8
  MaxTables = 3
INVARIANTS
  SlotsHoldDummies
CHECK_DEADLOCK FALSE
