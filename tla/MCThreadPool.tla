---------------------------- MODULE MCThreadPool ----------------------------
(* Two clients and two workers, so that a worker that was detached and the  *)
(* one made after it exist at the same time.                               *)
EXTENDS ThreadPool
=============================================================================
