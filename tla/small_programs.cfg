\* One behaviour is one of one of the eight programs.
SPECIFICATION SpecTrees
CONSTANTS
  Nil = Nil
  kHist = 2
  Top = 4
  MaxElements = 3
  Arrays <- SomeArrays
  Coordinates = {0, 3, 15}
  Levels = {0, 1, 100, 127, 128, 255}
  MaxGrades = 2
  Sizes = {0, 1, 2, 5, 16, 17, 64, 127, 128, 200}
  MaxLine = 150
  IntMax = 127
  Memory = 1024
  Pieces = {"code", "slash", "define", "line", "block", "string", "char", "macro",
            "openLine", "openBlock", "openString", "halfMacro", "lastMacro"}
  MaxPieces = 3
  Chunk = 4
  Capacity = 4
  SIZE = 4
  TableKeys <- SpreadKeys
  Vals = {1, 2}
  AvlKeys = {1, 2, 3, 4, 5, 6, 7, 8, 9, 10}
  TreeKeys = {1, 2, 3, 4, 5}
  MaxList = 5
INVARIANTS
  SortsByDistance
  HalvesAgree
  LinesKept
  ScansLikeC
  TableFinds
  AvlFinds
  TreeFinds
PROPERTIES
  LumaPreserved
  DeletionBalances
CHECK_DEADLOCK FALSE
