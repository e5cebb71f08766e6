SPECIFICATION Spec
CONSTANTS
  p1 = p1
  p2 = p2
  f1 = f1
  v1 = v1
  v2 = v2
  s1 = s1
  s2 = s2
  Procs <- MCProcs
  Files <- MCFiles
  Objs <- MCObjs
  Vars <- MCVars
  Socks <- MCSocks
  Numbers = {0, 1, 2, 3, 4, 5, 6, 7, 8, 9, 10, 11}
  MaxActors = 2
  Redirects <- MCRedirects
SYMMETRY Symmetry
INVARIANTS NumbersOwned RunAnswers SigpipeRestored CountsExact
CHECK_DEADLOCK FALSE
