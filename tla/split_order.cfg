SPECIFICATION MCSpec
CONSTANTS
  Width = 8
  HashMul = 177
INVARIANTS
  AgreesWithReference
  DummyFirst
  InOwnSublist
PROPERTIES
  SplitFromParent
CHECK_DEADLOCK FALSE
