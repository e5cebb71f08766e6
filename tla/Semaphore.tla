------------------------------ MODULE Semaphore ------------------------------
(***************************************************************************)
(* Sync::Semaphore of src/src/sync/sem.cpp: a count guarded by val_mutex    *)
(* and a condition variable.                                               *)
(*                                                                         *)
(* A wait() that blocked counts down without val_mutex and then unlocks it  *)
(* all the same.  So the load and the store of the count are two steps, and *)
(* unlocking is one that frees val_mutex whoever holds it, which is what    *)
(* an unlock by another thread does to a std::mutex on a POSIX mutex.      *)
(***************************************************************************)
EXTENDS Integers, FiniteSets

CONSTANTS
    Callers,        \* the threads that call
    Initial,        \* the value given to the constructor
    Width,          \* 2^32: the count is an unsigned int
    MaxCalls,       \* bound: how many calls are made
    SpuriousCallers,  \* the threads cond_var may wake for no reason
    NoThread        \* val_mutex is free

ASSUME CountAssumption ==
    Initial \in Nat /\ MaxCalls \in Nat /\ Width \in Nat /\ Initial + MaxCalls < Width
ASSUME CallersAssumption ==
    IsFiniteSet(Callers) /\ NoThread \notin Callers /\ SpuriousCallers \subseteq Callers

VARIABLES
    sem_value,
    val_mutex,
    pc,             \* where each thread is in its call
    op,             \* the call
    reg,            \* the count as the thread last read it
    calls,          \* history: calls made
    posts, takes,   \* history: how often the count went up and down
    slow            \* history: a thread has counted down without val_mutex

history == <<calls, posts, takes, slow>>
semVars == <<sem_value, val_mutex, pc, op, reg, history>>

Ops == {"post", "wait", "trywait", "timed"}

(* "locking": waits for val_mutex; "locked": has it and has read the count; *)
(* "checked": found 0 and released val_mutex; "parked": on cond_var;        *)
(* "woken"; "slow": has read the count without val_mutex; "unlocking".     *)
PcStates ==
    {"out", "locking", "locked", "checked", "parked", "woken", "slow", "unlocking"}

SemInit ==
    /\ sem_value = Initial
    /\ val_mutex = NoThread
    /\ pc = [t \in Callers |-> "out"]
    /\ op = [t \in Callers |-> "post"]
    /\ reg = [t \in Callers |-> 0]
    /\ calls = 0 /\ posts = 0 /\ takes = 0
    /\ slow = FALSE

-----------------------------------------------------------------------------
Go(t, to) == pc' = [pc EXCEPT ![t] = to]

Call(t, which) ==
    /\ pc[t] = "out"
    /\ calls < MaxCalls
    /\ calls' = calls + 1
    /\ op' = [op EXCEPT ![t] = which]
    /\ Go(t, "locking")
    /\ UNCHANGED <<sem_value, val_mutex, reg, posts, takes, slow>>

(* Every call starts by locking val_mutex and reading the count. *)
Lock(t) ==
    /\ pc[t] = "locking"
    /\ val_mutex = NoThread
    /\ val_mutex' = t
    /\ reg' = [reg EXCEPT ![t] = sem_value]
    /\ Go(t, "locked")
    /\ UNCHANGED <<sem_value, op, history>>

(* post(): the waiters are notified when the count leaves 0. *)
Post(t) ==
    /\ pc[t] = "locked"
    /\ op[t] = "post"
    /\ sem_value' = IF reg[t] = Width - 1 THEN 0 ELSE reg[t] + 1
    /\ posts' = posts + 1
    /\ pc' = [u \in Callers |->
                 IF u = t THEN "unlocking"
                 ELSE IF reg[t] = 0 /\ pc[u] = "parked" THEN "woken" ELSE pc[u]]
    /\ UNCHANGED <<val_mutex, op, reg, calls, takes, slow>>

CountDown(t) ==
    /\ sem_value' = IF reg[t] = 0 THEN Width - 1 ELSE reg[t] - 1
    /\ takes' = takes + 1
    /\ Go(t, "unlocking")
    /\ UNCHANGED <<val_mutex, op, reg, calls, posts, slow>>

(* Deviation: trywait() does not look at the count. *)
TakeAlways(t) ==
    /\ pc[t] = "locked"
    /\ op[t] # "post"
    /\ CountDown(t)

(* wait() and both trywait() with a count that is not 0. *)
Take(t) ==
    /\ pc[t] = "locked"
    /\ op[t] # "post"
    /\ reg[t] # 0
    /\ CountDown(t)

(* trywait() with a count of 0 gives up. *)
Refuse(t) ==
    /\ pc[t] = "locked"
    /\ op[t] = "trywait"
    /\ reg[t] = 0
    /\ Go(t, "unlocking")
    /\ UNCHANGED <<sem_value, val_mutex, op, reg, history>>

(* Deviation: val_mutex stays locked when the call goes to sleep. *)
BlockKeepsMutex(t) ==
    /\ pc[t] = "locked"
    /\ op[t] \in {"wait", "timed"}
    /\ reg[t] = 0
    /\ Go(t, "checked")
    /\ UNCHANGED <<sem_value, val_mutex, op, reg, history>>

(* wait() and the timed trywait() with a count of 0 release val_mutex ...  *)
Block(t) ==
    /\ pc[t] = "locked"
    /\ op[t] \in {"wait", "timed"}
    /\ reg[t] = 0
    /\ val_mutex' = NoThread
    /\ Go(t, "checked")
    /\ UNCHANGED <<sem_value, op, reg, history>>

(* ... and block on cond_var, under a mutex of their own. *)
Sleep(t) ==
    /\ pc[t] = "checked"
    /\ Go(t, "parked")
    /\ UNCHANGED <<sem_value, val_mutex, op, reg, history>>

WakeForNothing(t) ==
    /\ pc[t] = "parked"
    /\ t \in SpuriousCallers
    /\ Go(t, "woken")
    /\ UNCHANGED <<sem_value, val_mutex, op, reg, history>>

(* The timed trywait() returns at once when its time is up. *)
TimeOut(t) ==
    /\ pc[t] = "parked"
    /\ op[t] = "timed"
    /\ Go(t, "out")
    /\ UNCHANGED <<sem_value, val_mutex, op, reg, history>>

(* A call that was woken does not look at the count again; it counts down  *)
(* without val_mutex.                                                      *)
SlowLoad(t) ==
    /\ pc[t] = "woken"
    /\ reg' = [reg EXCEPT ![t] = sem_value]
    /\ slow' = TRUE
    /\ Go(t, "slow")
    /\ UNCHANGED <<sem_value, val_mutex, op, calls, posts, takes>>

SlowStore(t) ==
    /\ pc[t] = "slow"
    /\ CountDown(t)

Unlock(t) ==
    /\ pc[t] = "unlocking"
    /\ val_mutex' = NoThread
    /\ Go(t, "out")
    /\ UNCHANGED <<sem_value, op, reg, history>>

-----------------------------------------------------------------------------
(* The steps a thread takes by itself once it has made a call. *)
GoOn(t) ==
    \/ Lock(t)
    \/ Post(t) \/ Take(t) \/ Refuse(t) \/ Block(t)
    \/ Sleep(t) \/ TimeOut(t)
    \/ SlowLoad(t) \/ SlowStore(t)
    \/ Unlock(t)

SemNext ==
    \E t \in Callers :
        \/ \E which \in Ops : Call(t, which)
        \/ GoOn(t)
        \/ WakeForNothing(t)

SemSpec == SemInit /\ [][SemNext]_semVars

(* A call goes on, once it can, and time passes for a timed one.  Nobody    *)
(* has to call anything, and a spurious wake-up is never owed.             *)
SemFairness == \A t \in Callers : WF_semVars(GoOn(t))

SemFairSpec == SemSpec /\ SemFairness

-----------------------------------------------------------------------------
(* Properties. *)

(* The type of the state.  The thread that val_mutex names is in a locked   *)
(* section or past one (sem.cpp:82-133).                                   *)
SemTypeOK ==
    /\ sem_value \in 0 .. Width - 1
    /\ val_mutex \in Callers \cup {NoThread}
    /\ pc \in [Callers -> PcStates]
    /\ op \in [Callers -> Ops]
    /\ reg \in [Callers -> 0 .. Width - 1]
    /\ calls \in 0 .. MaxCalls /\ posts \in Nat /\ takes \in Nat
    /\ slow \in BOOLEAN
    /\ val_mutex # NoThread => pc[val_mutex] \in {"locked", "unlocking"}

(* Until the first call that was blocked counts down, the count is what     *)
(* was given and posted less what was taken: no update is lost between     *)
(* post(), the fast path of wait() and of both trywait(), and the calls    *)
(* that time out (sem.cpp:82-133).                                         *)
Conserved == ~slow => sem_value + takes = Initial + posts

(* val_mutex is never left locked: every post() and every trywait() ends,   *)
(* even after the unlocks of blocked calls (sem.cpp:82-133).               *)
CallEnds ==
    \A t \in Callers : (pc[t] # "out" /\ op[t] # "wait") ~> (pc[t] = "out")
=============================================================================
