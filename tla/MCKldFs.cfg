SPECIFICATION Spec
CONSTANTS
  N = 5
  Objs = {o1, o2, o3, o4}
  Names = {n1, n2}
  RootName = RootName
  Null = Null
SYMMETRY Alike
INVARIANTS TypeOK FreeListSound TreeSound NoAssert CleanupComplete
CHECK_DEADLOCK FALSE
