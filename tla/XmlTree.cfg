SPECIFICATION Spec
CONSTANTS
  Docs = {1, 2}
  Nodes = {1, 2, 3, 4}
  x1 = x1
  x2 = x2
  v1 = v1
  v2 = v2
  r1 = r1
  Xmls <- MCXmls
  NodeVars <- MCNodeVars
  Results <- MCResults
SYMMETRY Symmetry
INVARIANTS NodesOwnedOnce ResultsKeepDocument
CHECK_DEADLOCK FALSE
