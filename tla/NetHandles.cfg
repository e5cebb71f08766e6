SPECIFICATION Spec
CONSTANTS
  e1 = e1
  e2 = e2
  e3 = e3
  p1 = p1
  p2 = p2
  c1 = c1
  c2 = c2
  Easies <- MCEasies
  Packs <- MCPacks
  Curls <- MCCurls
  Data = {"u"}
  MaxAttached = 1
SYMMETRY Symmetry
INVARIANTS MessagesFindOwner TransfersLand
