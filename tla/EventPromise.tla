----------------------------- MODULE EventPromise -----------------------------
(***************************************************************************)
(* What the users of Sync::Event may rely on, whatever the interleaving:   *)
(* a call of wait() answers true only if the flag was set at some time     *)
(* while the call was in progress, or for a spurious wake-up, and false    *)
(* only if it had a time limit.                                            *)
(* The promise does not say that a set() releases every waiting thread:    *)
(* the code loses some (SetWakesWaiters in module Event).                  *)
(***************************************************************************)

CONSTANTS
    Threads,
    Spurious        \* the threads that may be released for no reason

VARIABLES
    isset,          \* the flag
    waiting,        \* the threads inside wait()
    released,       \* those of them that will answer true
    limited         \* the threads whose wait() has a time limit

vars == <<isset, waiting, released, limited>>

Init ==
    /\ isset = FALSE
    /\ waiting = {}
    /\ released = {}
    /\ limited = {}

(* A set() releases some of the threads that are waiting. *)
Set ==
    /\ isset' = TRUE
    /\ \E S \in SUBSET waiting : released' = released \cup S
    /\ UNCHANGED <<waiting, limited>>

(* A wake-up that no set() explains. *)
ReleaseForNothing(t) ==
    /\ t \in waiting \cap Spurious
    /\ released' = released \cup {t}
    /\ UNCHANGED <<isset, waiting, limited>>

Clear ==
    /\ isset' = FALSE
    /\ UNCHANGED <<waiting, released, limited>>

(* A thread that enters while the flag is set is released at once. *)
Enter(t, lim) ==
    /\ t \notin waiting
    /\ waiting' = waiting \cup {t}
    /\ released' = IF isset THEN released \cup {t} ELSE released
    /\ limited' = IF lim THEN limited \cup {t} ELSE limited \ {t}
    /\ UNCHANGED isset

LeaveTrue(t) ==
    /\ t \in released
    /\ waiting' = waiting \ {t}
    /\ released' = released \ {t}
    /\ UNCHANGED <<isset, limited>>

LeaveFalse(t) ==
    /\ t \in (waiting \cap limited) \ released
    /\ waiting' = waiting \ {t}
    /\ UNCHANGED <<isset, released, limited>>

Next ==
    \/ Set
    \/ Clear
    \/ \E t \in Threads :
          \/ \E lim \in BOOLEAN : Enter(t, lim)
          \/ ReleaseForNothing(t)
          \/ LeaveTrue(t)
          \/ LeaveFalse(t)

Spec == Init /\ [][Next]_vars
=============================================================================
