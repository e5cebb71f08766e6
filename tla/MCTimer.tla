------------------------------- MODULE MCTimer -------------------------------
(* Two addresses for up to three timers, so that a new timer gets the       *)
(* address of one that is gone; Scale is 2 where the code has 1000.         *)
EXTENDS Timer, TLC
NodeSymmetry == Permutations(Nodes)
=============================================================================
