\* The AVL tree alone; the constants of the other programs are not used.
SPECIFICATION AvlSpec
CONSTANTS
  Nil = Nil
  kHist = 1
  Top = 2
  MaxElements = 0
  Arrays = {}
  Coordinates = {}
  Levels = {}
  MaxGrades = 0
  Sizes = {}
  MaxLine = 0
  IntMax = 127
  Memory = 0
  Pieces = {}
  MaxPieces = 0
  Chunk = 1
  Capacity = 1
  SIZE = 1
  TableKeys = {}
  Vals = {}
  AvlKeys = {1, 2, 3, 4, 5, 6, 7}
  TreeKeys = {}
  MaxList = 0
INVARIANT
  AvlBalanced
CHECK_DEADLOCK FALSE
