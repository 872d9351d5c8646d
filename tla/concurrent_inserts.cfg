SPECIFICATION HSpec
CONSTANTS
  Width = 4
  HashMul = 1
  Threads = {1, 2}
  Keys = {1, 2}
  Vals = {1}
  InitSize = 1
  LValue = TRUE
  Client <- InsertersAndFinders
  Calls <- Twice
  MaxNodes = 8
  MaxTables = 3
INVARIANTS
  Sorted
  NoDuplicates
  SlotsHoldDummies
  DestroyFreesList
PROPERTIES
  Linearizable
CHECK_DEADLOCK FALSE
