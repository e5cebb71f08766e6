SPECIFICATION Spec
CONSTANTS
  Nodes = {1, 2, 3, 4, 5}
  v1 = v1
  v2 = v2
  v3 = v3
  Vars <- MCVars
  Keys = {"a"}
  MaxInUse = 6
SYMMETRY Symmetry
CONSTRAINT Bounded
INVARIANTS OwnedOnce WellLinked
CHECK_DEADLOCK FALSE
