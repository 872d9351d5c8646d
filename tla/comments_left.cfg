\* The preprocessor alone; the constants of the other programs are not used.
SPECIFICATION MacroSpec
CONSTANTS
  Nil = Nil
  kHist = 1
  Top = 2
  MaxElements = 0
  Arrays = {}
  Coordinates = {}
  Levels = {}
  MaxGrades = 0
  Sizes = {}
  MaxLine = 0
  IntMax = 127
  Memory = 0
  Pieces = {"code", "slash", "line", "block"}
  MaxPieces = 3
  Chunk = 4
  Capacity = 4
  SIZE = 1
  TableKeys = {}
  Vals = {}
  AvlKeys = {}
  TreeKeys = {}
  MaxList = 0
INVARIANT
  CommentsTakenOut
CHECK_DEADLOCK FALSE
