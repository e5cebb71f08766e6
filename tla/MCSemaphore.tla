----------------------------- MODULE MCSemaphore -----------------------------
(* Three threads: two that are blocked and one that posts. *)
EXTENDS Semaphore
=============================================================================
