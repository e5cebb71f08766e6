-------------------------------- MODULE Event --------------------------------
(***************************************************************************)
(* Sync::Event of src/src/sync/sem.cpp: a Boolean guarded by val_mutex and *)
(* a condition variable.                                                   *)
(*                                                                         *)
(* Each section under val_mutex is one step, since nothing blocks inside   *)
(* it.  wait() is not one section: it releases val_mutex before it blocks  *)
(* on the condition variable, with a mutex of its own, so that a set() can *)
(* come between the two.  The condition variable is the set of the threads *)
(* that are "parked".                                                      *)
(*                                                                         *)
(* The modules that use an event (Pipe, ThreadPool, Timer) instantiate     *)
(* this one and call its actions.                                          *)
(***************************************************************************)

CONSTANTS
    Threads,        \* the threads that use the event
    Spurious        \* those that the condition variable may wake for no reason

ASSUME SpuriousAssumption == Spurious \subseteq Threads

VARIABLES
    val_isset,      \* the flag
    wstate,         \* where each thread is in wait()
    limited         \* the threads whose wait() has a time limit

vars == <<val_isset, wstate, limited>>

(* "out": not in wait(); "checked": found the flag clear and released      *)
(* val_mutex; "parked": blocked on the condition variable; "woken" and     *)
(* "expired": about to return, true and false in the version with a limit. *)
WaitStates == {"out", "checked", "parked", "woken", "expired"}

Parked == {t \in Threads : wstate[t] = "parked"}

Init ==
    /\ val_isset = FALSE
    /\ wstate = [t \in Threads |-> "out"]
    /\ limited = {}

-----------------------------------------------------------------------------
(* The operations. *)

(* set(): a flag that is set already returns early and wakes nobody. *)
Set ==
    /\ val_isset' = TRUE
    /\ wstate' = IF val_isset THEN wstate
                 ELSE [t \in Threads |-> IF wstate[t] = "parked" THEN "woken" ELSE wstate[t]]
    /\ UNCHANGED limited

Clear ==
    /\ val_isset' = FALSE
    /\ UNCHANGED <<wstate, limited>>

(* Deviation: a wait() that never looks at the flag and never blocks. *)
WaitNeverBlocks(t, lim) ==
    /\ wstate[t] = "out"
    /\ wstate' = [wstate EXCEPT ![t] = "woken"]
    /\ limited' = IF lim THEN limited \cup {t} ELSE limited \ {t}
    /\ UNCHANGED val_isset

(* wait() up to the release of val_mutex; lim selects the timed overload. *)
Wait(t, lim) ==
    /\ wstate[t] = "out"
    /\ wstate' = [wstate EXCEPT ![t] = IF val_isset THEN "woken" ELSE "checked"]
    /\ limited' = IF lim THEN limited \cup {t} ELSE limited \ {t}
    /\ UNCHANGED val_isset

(* cond_var.wait and cond_var.wait_for: the thread joins the waiters. *)
Park(t) ==
    /\ wstate[t] = "checked"
    /\ wstate' = [wstate EXCEPT ![t] = "parked"]
    /\ UNCHANGED <<val_isset, limited>>

(* A condition variable may return with no notification; wait() has no loop. *)
SpuriousWake(t) ==
    /\ t \in Spurious
    /\ wstate[t] = "parked"
    /\ wstate' = [wstate EXCEPT ![t] = "woken"]
    /\ UNCHANGED <<val_isset, limited>>

(* Deviations: a time-out in a wait() that has no limit, and one that is    *)
(* ignored once the flag is set.                                           *)
ExpireAnyWait(t) ==
    /\ wstate[t] = "parked"
    /\ wstate' = [wstate EXCEPT ![t] = "expired"]
    /\ UNCHANGED <<val_isset, limited>>

ExpireOnlyIfClear(t) == ~val_isset /\ t \in limited /\ ExpireAnyWait(t)

Expire(t) ==
    /\ wstate[t] = "parked"
    /\ t \in limited
    /\ wstate' = [wstate EXCEPT ![t] = "expired"]
    /\ UNCHANGED <<val_isset, limited>>

Return(t) ==
    /\ wstate[t] \in {"woken", "expired"}
    /\ wstate' = [wstate EXCEPT ![t] = "out"]
    /\ UNCHANGED <<val_isset, limited>>

-----------------------------------------------------------------------------
(* The event alone, under clients that call it in any order. *)

CallSet(t) == wstate[t] = "out" /\ Set

CallClear(t) == wstate[t] = "out" /\ Clear

(* The steps a thread takes by itself once it has entered wait(). *)
Proceed(t) == Park(t) \/ Return(t)

Next ==
    \E t \in Threads :
        \/ CallSet(t)
        \/ CallClear(t)
        \/ \E lim \in BOOLEAN : Wait(t, lim)
        \/ Park(t)
        \/ SpuriousWake(t)
        \/ Expire(t)
        \/ Return(t)

Spec == Init /\ [][Next]_vars

(* A thread inside wait() keeps running unless it is parked, and time goes *)
(* on for a wait() with a limit.  Nobody is obliged to call anything, and a *)
(* spurious wake-up is never owed.                                         *)
Fairness == \A t \in Threads : WF_vars(Proceed(t)) /\ WF_vars(Expire(t))

FairSpec == Spec /\ Fairness

(* Clients that never clear, to ask what a set() alone achieves. *)
NextNoClear ==
    \E t \in Threads :
        \/ CallSet(t)
        \/ Wait(t, FALSE)
        \/ Park(t)
        \/ Return(t)

LatchSpec == Init /\ [][NextNoClear]_vars /\ Fairness

-----------------------------------------------------------------------------
(* Properties. *)

(* The type of the state, and that only a wait() given a limit ever times  *)
(* out (sem.cpp:48-64 against 34-47).                                      *)
TypeOK ==
    /\ val_isset \in BOOLEAN
    /\ wstate \in [Threads -> WaitStates]
    /\ limited \subseteq Threads
    /\ \A t \in Threads : wstate[t] = "expired" => t \in limited

(* What the abstract event promises; see EventPromise. *)
Promise == INSTANCE EventPromise WITH
               isset    <- val_isset,
               waiting  <- {t \in Threads : wstate[t] # "out"},
               released <- {t \in Threads : wstate[t] = "woken"},
               limited  <- limited

(* wait() returns true only to a thread during whose call the flag was set: *)
(* at its entry, or by a set() that found it waiting, unless it was woken   *)
(* for no reason (sem.cpp:34-64).                                          *)
ImplementsPromise == Promise!Spec

(* A wait() with a limit ends, even when its wake-up is lost (sem.cpp:48). *)
TimedWaitEnds ==
    \A t \in Threads : (wstate[t] # "out" /\ t \in limited) ~> (wstate[t] = "out")

(* sem.hpp:66 says of set() "wake all threads": once the flag is set and   *)
(* nobody clears it, no thread stays in wait().                            *)
SetWakesWaiters ==
    \A t \in Threads : (val_isset /\ wstate[t] # "out") ~> (wstate[t] = "out")
=============================================================================
