SPECIFICATION FairSpec
CONSTANTS
  MaxObjects = 3
  Children = {0, 2}
  Variables = {v1, v2}
  GcRoots = 2
  PtrSize = 2
  MaxCalls = 5
  MaxAssigned = 4
INVARIANTS
  ListSound
  MarkWalk
  CollectExact
  DestroyCollects
PROPERTIES
  Termination
CHECK_DEADLOCK FALSE
