SPECIFICATION Spec
CONSTANTS
  f1 = f1
  f2 = f2
  f3 = f3
  Fns <- MCFns
  Nodes = {1, 2, 3}
  Nices = {0, 1}
INVARIANTS EnteredAreCalled
CHECK_DEADLOCK FALSE
