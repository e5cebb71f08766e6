--------------------------------- MODULE Pipe ---------------------------------
(***************************************************************************)
(* Sync::Pipe<T> of src/include/Box/sync/pipe.hpp: a queue guarded by mtx  *)
(* and an Event, empty_ev, that a write() into the empty queue sets.       *)
(*                                                                         *)
(* A section under mtx is one step: no thread blocks inside one.  mtx is   *)
(* nevertheless a variable, because the timed read() returns true without  *)
(* releasing it.  A read() of the empty queue releases mtx, waits for      *)
(* empty_ev (the steps of module Event) and locks mtx again.               *)
(***************************************************************************)
EXTENDS Naturals, Sequences

CONSTANTS
    Readers,        \* the threads that call read(), poll() and try_read()
    Writers,        \* the threads that call write() and operator<<
    NoThread,       \* the owner of a mutex that is free
    Spurious,       \* the readers that empty_ev may wake for no reason
    MaxWrites       \* bound: how many messages are written

Threads == Readers \cup Writers

ASSUME NoThreadAssumption == NoThread \notin Threads
ASSUME SpuriousAssumption == Spurious \subseteq Readers
ASSUME BoundAssumption == MaxWrites \in Nat

VARIABLES
    data_queue,
    mtx,            \* the owner of mtx between steps
    val_isset, wstate, limited,     \* empty_ev
    pc,             \* where each thread is in read()
    sent,           \* history: the messages written so far are 1 .. sent
    got,            \* history: the messages read, in the order they left
    overrun,        \* front() and pop() were called on an empty std::queue
    shared          \* history: two readers were inside at once, or one was
                    \* woken for no reason

event == <<val_isset, wstate, limited>>
vars == <<data_queue, mtx, val_isset, wstate, limited, pc, sent, got, overrun, shared>>

empty_ev == INSTANCE Event

(* "idle": outside; "read" and "timed_read": found the queue empty and      *)
(* released mtx; "waiting": inside empty_ev.wait.                          *)
PcStates == {"idle", "read", "timed_read", "waiting"}

Init ==
    /\ data_queue = <<>>
    /\ mtx = NoThread
    /\ empty_ev!Init
    /\ pc = [t \in Threads |-> "idle"]
    /\ sent = 0
    /\ got = <<>>
    /\ overrun = FALSE
    /\ shared = FALSE

-----------------------------------------------------------------------------
(* Deviation: front() without pop(). *)
PopKeepsMessage ==
    IF data_queue = <<>>
    THEN overrun' = TRUE /\ UNCHANGED <<data_queue, got>>
    ELSE got' = Append(got, Head(data_queue)) /\ UNCHANGED <<data_queue, overrun>>

(* front() and pop().  On an empty queue both are undefined behaviour: the  *)
(* state of the queue is lost, and the model stops there.                  *)
Pop ==
    IF data_queue = <<>>
    THEN overrun' = TRUE /\ UNCHANGED <<data_queue, got>>
    ELSE /\ got' = Append(got, Head(data_queue))
         /\ data_queue' = Tail(data_queue)
         /\ UNCHANGED overrun

(* The mutex after the last section of read(): the version with a limit     *)
(* returns true with no mtx.unlock().                                      *)
Release(t, lim) == mtx' = IF lim THEN t ELSE NoThread

(* Deviation: a write() that does not set empty_ev. *)
WriteWithoutSet(t) ==
    /\ mtx = NoThread
    /\ pc[t] = "idle"
    /\ sent < MaxWrites
    /\ data_queue' = Append(data_queue, sent + 1)
    /\ sent' = sent + 1
    /\ UNCHANGED <<mtx, event, pc, got, overrun, shared>>

Write(t) ==
    /\ mtx = NoThread
    /\ pc[t] = "idle"
    /\ sent < MaxWrites
    /\ data_queue' = Append(data_queue, sent + 1)
    /\ sent' = sent + 1
    /\ IF data_queue = <<>> THEN empty_ev!Set ELSE UNCHANGED event
    /\ UNCHANGED <<mtx, pc, got, overrun, shared>>

(* A reader joins the others that are inside read(). *)
Join(t) == shared' = (shared \/ \E s \in Readers \ {t} : pc[s] # "idle")

(* Deviation: a read() that does not clear empty_ev before it waits. *)
StartReadKeepsFlag(t, lim) ==
    /\ mtx = NoThread
    /\ pc[t] = "idle"
    /\ IF data_queue = <<>>
       THEN /\ pc' = [pc EXCEPT ![t] = IF lim THEN "timed_read" ELSE "read"]
            /\ UNCHANGED <<event, data_queue, mtx, got, overrun>>
       ELSE Pop /\ Release(t, lim) /\ UNCHANGED <<event, pc>>
    /\ Join(t)
    /\ UNCHANGED sent

(* read() up to the release of mtx, or to its end if there is a message.   *)
StartRead(t, lim) ==
    /\ mtx = NoThread
    /\ pc[t] = "idle"
    /\ IF data_queue = <<>>
       THEN /\ empty_ev!Clear
            /\ pc' = [pc EXCEPT ![t] = IF lim THEN "timed_read" ELSE "read"]
            /\ UNCHANGED <<data_queue, mtx, got, overrun>>
       ELSE /\ Pop
            /\ Release(t, lim)
            /\ UNCHANGED <<event, pc>>
    /\ Join(t)
    /\ UNCHANGED sent

EnterWait(t) ==
    /\ pc[t] \in {"read", "timed_read"}
    /\ empty_ev!Wait(t, pc[t] = "timed_read")
    /\ pc' = [pc EXCEPT ![t] = "waiting"]
    /\ UNCHANGED <<data_queue, mtx, sent, got, overrun, shared>>

(* The steps inside empty_ev.wait. *)
WaitStep(t) ==
    /\ \/ (empty_ev!Park(t) \/ empty_ev!Expire(t)) /\ UNCHANGED shared
       \/ empty_ev!SpuriousWake(t) /\ shared' = TRUE
    /\ UNCHANGED <<data_queue, mtx, pc, sent, got, overrun>>

(* The rest of read() after empty_ev.wait: it does not look again whether   *)
(* the queue is empty.                                                     *)
FinishRead(t) ==
    /\ wstate[t] = "woken"
    /\ mtx = NoThread
    /\ empty_ev!Return(t)
    /\ Pop
    /\ Release(t, t \in limited)
    /\ pc' = [pc EXCEPT ![t] = "idle"]
    /\ UNCHANGED <<sent, shared>>

(* Deviation: the timed read() does not return when its wait times out. *)
GiveUpStaysInside(t) ==
    /\ wstate[t] = "expired"
    /\ empty_ev!Return(t)
    /\ UNCHANGED <<data_queue, mtx, pc, sent, got, overrun, shared>>

(* The timed read() whose wait timed out returns false. *)
GiveUp(t) ==
    /\ wstate[t] = "expired"
    /\ empty_ev!Return(t)
    /\ pc' = [pc EXCEPT ![t] = "idle"]
    /\ UNCHANGED <<data_queue, mtx, sent, got, overrun, shared>>

(* On an empty queue try_read() changes nothing and answers false. *)
TryRead(t) ==
    /\ mtx = NoThread
    /\ pc[t] = "idle"
    /\ data_queue # <<>>
    /\ Pop
    /\ Join(t)
    /\ UNCHANGED <<mtx, event, pc, sent>>

(* What a thread that has begun a read() does without further calls. *)
Proceed(t) ==
    \/ EnterWait(t)
    \/ empty_ev!Park(t) /\ UNCHANGED <<data_queue, mtx, pc, sent, got, overrun, shared>>
    \/ FinishRead(t)
    \/ GiveUp(t)

Next ==
    /\ ~overrun
    /\ \/ \E t \in Writers : Write(t)
       \/ \E t \in Readers :
             \/ \E lim \in BOOLEAN : StartRead(t, lim)
             \/ EnterWait(t)
             \/ WaitStep(t)
             \/ FinishRead(t)
             \/ GiveUp(t)
             \/ TryRead(t)

Spec == Init /\ [][Next]_vars

(* Threads are scheduled, and mtx is fair enough to let a thread in that    *)
(* finds it free for ever; nobody is obliged to call anything.             *)
FairSpec == Spec /\ \A t \in Readers : WF_vars(~overrun /\ Proceed(t))

-----------------------------------------------------------------------------
(* Properties. *)

(* Types, and that a thread is inside the wait of empty_ev exactly between  *)
(* the two locked sections of its read() (pipe.hpp:42-46).                 *)
TypeOK ==
    /\ data_queue \in Seq(1 .. MaxWrites)
    /\ mtx \in Threads \cup {NoThread}
    /\ empty_ev!TypeOK
    /\ pc \in [Threads -> PcStates]
    /\ sent \in 0 .. MaxWrites
    /\ got \in Seq(1 .. MaxWrites)
    /\ overrun \in BOOLEAN
    /\ shared \in BOOLEAN
    /\ \A t \in Threads : wstate[t] # "out" <=> pc[t] = "waiting"

(* read() takes from an empty queue only if two readers were inside at the  *)
(* same time or empty_ev woke one for no reason: a reader alone is woken by *)
(* a write, and nobody empties the queue before it has locked mtx again    *)
(* (pipe.hpp:45-51, whose comment fears the opposite).                     *)
NeverPopsEmpty == overrun => shared

(* Messages leave in the order they were written, none twice, none lost    *)
(* (write, read, try_read: pipe.hpp:27-84).                                *)
FifoOrder ==
    /\ sent = Len(got) + Len(data_queue)
    /\ \A i \in 1 .. Len(got) : got[i] = i
    /\ \A i \in 1 .. Len(data_queue) : data_queue[i] = Len(got) + i

(* A reader that is parked before the write is always released, as long as  *)
(* it is alone: only the window between its release of mtx and its block    *)
(* can lose the wake-up (pipe.hpp:32-35).                                  *)
ParkedReaderServed ==
    \A t \in Readers :
        []((wstate[t] = "parked" /\ data_queue = <<>> /\ <>(data_queue # <<>>))
              => <>(pc[t] = "idle" \/ shared))
=============================================================================
