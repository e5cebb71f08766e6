------------------------------- MODULE MCEvent -------------------------------
(* Three threads, so that one set() can find two waiters in different places. *)
EXTENDS Event, TLC
ThreadSymmetry == Permutations(Threads)
=============================================================================
