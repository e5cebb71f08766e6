------------------------------ MODULE SyncProofs ------------------------------
(***************************************************************************)
(* The event and the semaphore of Box::Sync (src/src/sync/sem.cpp).        *)
(*                                                                         *)
(* Event keeps its promise for every set of threads: every step of Event   *)
(* is a step of EventPromise or a stutter.                                 *)
(*                                                                         *)
(* For any callers and calls the semaphore keeps its type, and loses no    *)
(* update until a call that was blocked counts down.  Conserved is         *)
(* inductive with what val_mutex gives as long as only its holder unlocks  *)
(* it: no two threads are in a locked section, and what the one in it has  *)
(* read is the count.  That the count does not wrap upwards needs that     *)
(* there are no more posts than calls: each call that is still to post is  *)
(* one of them.                                                            *)
(***************************************************************************)
EXTENDS Event, Semaphore, FiniteSetTheorems, TLAPS

(***************************************************************************)
(* Event                                                                   *)
(***************************************************************************)
(* The event's state keeps its type, and only a wait() with a limit times  *)
(* out (sem.cpp:48-64): TypeOK is inductive.                               *)
THEOREM TypeCorrect == Spec => []TypeOK
<1>1. Init => TypeOK
  BY DEF Init, TypeOK, WaitStates
<1>2. TypeOK /\ [Next]_vars => TypeOK'
  <2> SUFFICES ASSUME TypeOK, [Next]_vars PROVE TypeOK'
    OBVIOUS
  <2> USE DEF TypeOK, WaitStates
  <2>1. ASSUME NEW t \in Threads, CallSet(t) PROVE TypeOK'
    BY <2>1 DEF CallSet, Set
  <2>2. ASSUME NEW t \in Threads, CallClear(t) PROVE TypeOK'
    BY <2>2 DEF CallClear, Clear
  <2>3. ASSUME NEW t \in Threads, NEW lim \in BOOLEAN, Wait(t, lim) PROVE TypeOK'
    BY <2>3 DEF Wait
  <2>4. ASSUME NEW t \in Threads, Park(t) PROVE TypeOK'
    BY <2>4 DEF Park
  <2>5. ASSUME NEW t \in Threads, SpuriousWake(t) PROVE TypeOK'
    BY <2>5 DEF SpuriousWake
  <2>6. ASSUME NEW t \in Threads, Expire(t) PROVE TypeOK'
    BY <2>6 DEF Expire
  <2>7. ASSUME NEW t \in Threads, Return(t) PROVE TypeOK'
    BY <2>7 DEF Return
  <2>8. CASE UNCHANGED vars
    BY <2>8 DEF vars
  <2> QED
    BY <2>1, <2>2, <2>3, <2>4, <2>5, <2>6, <2>7, <2>8 DEF Next
<1> QED
  BY <1>1, <1>2, PTL DEF Spec

(* What a step of the event does to the promise: sem.cpp:24-68 one section *)
(* at a time.                                                              *)
LEMMA StepSimulation ==
    ASSUME TypeOK, TypeOK', [Next]_vars
    PROVE  [Promise!Next]_Promise!vars
<1> DEFINE waiting  == {t \in Threads : wstate[t] # "out"}
           released == {t \in Threads : wstate[t] = "woken"}
<1> USE DEF TypeOK, WaitStates, Promise!vars
<1>1. ASSUME NEW t \in Threads, CallSet(t) PROVE Promise!Set
  <2> DEFINE woken == IF val_isset THEN {} ELSE Parked
  <2>1. woken \in SUBSET waiting
    BY DEF Parked
  <2>2. released' = released \cup woken /\ waiting' = waiting
    BY <1>1 DEF CallSet, Set, Parked
  <2> QED
    BY <1>1, <2>1, <2>2 DEF CallSet, Set, Promise!Set
<1>2. ASSUME NEW t \in Threads, CallClear(t) PROVE Promise!Clear
  BY <1>2 DEF CallClear, Clear, Promise!Clear
<1>3. ASSUME NEW t \in Threads, NEW lim \in BOOLEAN, Wait(t, lim) PROVE Promise!Enter(t, lim)
  BY <1>3 DEF Wait, Promise!Enter
<1>4. ASSUME NEW t \in Threads, Park(t) PROVE UNCHANGED Promise!vars
  BY <1>4 DEF Park
<1>5. ASSUME NEW t \in Threads, SpuriousWake(t) PROVE Promise!ReleaseForNothing(t)
  BY <1>5 DEF SpuriousWake, Promise!ReleaseForNothing
<1>6. ASSUME NEW t \in Threads, Expire(t) PROVE UNCHANGED Promise!vars
  BY <1>6 DEF Expire
<1>7. ASSUME NEW t \in Threads, Return(t) PROVE Promise!LeaveTrue(t) \/ Promise!LeaveFalse(t)
  <2>1. CASE wstate[t] = "woken"
    BY <1>7, <2>1 DEF Return, Promise!LeaveTrue
  <2>2. CASE wstate[t] = "expired"
    BY <1>7, <2>2 DEF Return, Promise!LeaveFalse
  <2> QED
    BY <1>7, <2>1, <2>2 DEF Return
<1>8. CASE UNCHANGED vars
  BY <1>8 DEF vars
<1> QED
  BY <1>1, <1>2, <1>3, <1>4, <1>5, <1>6, <1>7, <1>8 DEF Next, Promise!Next

(* wait() answers true only to a thread during whose call the flag was set *)
(* (sem.cpp:34-64): Event implements EventPromise.                         *)
THEOREM KeepsPromise == Spec => ImplementsPromise
<1>1. Init => Promise!Init
  BY DEF Init, Promise!Init
<1>2. TypeOK /\ TypeOK' /\ [Next]_vars => [Promise!Next]_Promise!vars
  BY StepSimulation
<1> QED
  BY <1>1, <1>2, TypeCorrect, PTL DEF Spec, ImplementsPromise, Promise!Spec

(***************************************************************************)
(* Semaphore                                                               *)
(***************************************************************************)
InSection(t) == pc[t] \in {"locked", "unlocking"}

Exclusive ==
    \A t \in Callers :
        /\ InSection(t) => val_mutex = t
        /\ pc[t] # "slow"
        /\ pc[t] = "locked" => reg[t] = sem_value

ToPost == {t \in Callers : op[t] = "post" /\ pc[t] \in {"locking", "locked"}}

WithinCalls == posts + Cardinality(ToPost) <= calls

SemInv ==
    /\ SemTypeOK
    /\ WithinCalls
    /\ ~slow => Exclusive
    /\ Conserved

(* The calls still to post are finitely many; one that starts adds at most *)
(* itself, one that posts leaves, and the others do not matter.            *)
LEMMA ToPostFinite ==
    SemTypeOK => /\ IsFiniteSet(ToPost)
              /\ Cardinality(ToPost) \in Nat
<1>1. IsFiniteSet(ToPost)
  BY CallersAssumption, FS_Subset DEF ToPost
<1> QED
  BY <1>1, FS_CardinalityType

LEMMA CallWithin ==
    ASSUME SemInv, NEW t \in Callers, NEW which \in Ops, Call(t, which)
    PROVE  WithinCalls'
<1>1. ToPost' = ToPost \/ ToPost' = ToPost \cup {t}
  BY DEF Call, Go, ToPost, SemInv, SemTypeOK
<1>2. IsFiniteSet(ToPost) /\ Cardinality(ToPost) \in Nat
  BY ToPostFinite DEF SemInv
<1>3. /\ Cardinality(ToPost \cup {t}) <= Cardinality(ToPost) + 1
      /\ Cardinality(ToPost \cup {t}) \in Nat
  <2>1. Cardinality(ToPost \cup {t}) \in {Cardinality(ToPost), Cardinality(ToPost) + 1}
    BY <1>2, FS_AddElement
  <2> QED
    BY <1>2, <2>1
<1>4. Cardinality(ToPost') <= Cardinality(ToPost) + 1 /\ Cardinality(ToPost') \in Nat
  <2>1. CASE ToPost' = ToPost
    BY <1>2, <2>1
  <2>2. CASE ToPost' = ToPost \cup {t}
    BY <1>3, <2>2
  <2> QED
    BY <1>1, <2>1, <2>2
<1>5. calls' = calls + 1 /\ posts' = posts /\ calls \in Nat /\ posts \in Nat
  BY CountAssumption DEF Call, SemInv, SemTypeOK
<1> QED
  BY <1>2, <1>4, <1>5 DEF WithinCalls, SemInv

LEMMA PostWithin ==
    ASSUME SemInv, NEW t \in Callers, Post(t)
    PROVE  WithinCalls' /\ posts + 1 <= MaxCalls
<1>1. t \in ToPost /\ ToPost' = ToPost \ {t}
  BY DEF Post, ToPost, SemInv, SemTypeOK
<1>2. IsFiniteSet(ToPost) /\ Cardinality(ToPost) \in Nat
  BY ToPostFinite DEF SemInv
<1>3. Cardinality(ToPost') = Cardinality(ToPost) - 1
  BY <1>1, <1>2, FS_RemoveElement
<1>4. IsFiniteSet(ToPost') /\ Cardinality(ToPost') \in Nat
  BY <1>1, <1>2, FS_RemoveElement, FS_CardinalityType
<1>5. calls' = calls /\ posts' = posts + 1 /\ calls \in 0 .. MaxCalls /\ posts \in Nat
  BY DEF Post, SemInv, SemTypeOK
<1> QED
  BY <1>2, <1>3, <1>4, <1>5, CountAssumption DEF WithinCalls, SemInv

LEMMA OtherWithin ==
    ASSUME SemInv, ToPost' = ToPost, UNCHANGED <<calls, posts>>
    PROVE  WithinCalls'
BY DEF WithinCalls, SemInv

LEMMA SemInitInv == SemInit => SemInv
<1> SUFFICES ASSUME SemInit PROVE SemInv
  OBVIOUS
<1>1. SemTypeOK
  <2>1. sem_value \in 0 .. Width - 1 /\ 0 \in 0 .. Width - 1 /\ calls \in 0 .. MaxCalls
    BY CountAssumption DEF SemInit
  <2>2. /\ pc \in [Callers -> PcStates]
        /\ op \in [Callers -> Ops]
        /\ reg \in [Callers -> 0 .. Width - 1]
    BY <2>1 DEF SemInit, PcStates, Ops
  <2> QED
    BY <2>1, <2>2 DEF SemInit, SemTypeOK
<1>2. ToPost = {}
  BY DEF SemInit, ToPost
<1>3. WithinCalls
  BY <1>2, FS_EmptySet DEF SemInit, WithinCalls
<1>4. Exclusive /\ Conserved
  BY CountAssumption DEF SemInit, Exclusive, InSection, Conserved
<1> QED
  BY <1>1, <1>3, <1>4 DEF SemInv

LEMMA SemNextInv == SemInv /\ [SemNext]_semVars => SemInv'
<1> SUFFICES ASSUME SemInv, [SemNext]_semVars PROVE SemInv'
  OBVIOUS
<1> USE CountAssumption, CallersAssumption
        DEF SemTypeOK, PcStates, Ops, Go, Exclusive, InSection, Conserved, history
<1>1. SemTypeOK /\ WithinCalls /\ (~slow => Exclusive) /\ Conserved
  BY DEF SemInv
<1>2. ASSUME NEW t \in Callers, NEW which \in Ops, Call(t, which) PROVE SemInv'
  <2>1. WithinCalls'
    BY <1>2, CallWithin
  <2> QED
    BY <1>1, <1>2, <2>1 DEF Call, SemInv
<1>3. ASSUME NEW t \in Callers, Post(t) PROVE SemInv'
  <2>1. WithinCalls' /\ posts + 1 <= MaxCalls
    BY <1>3, PostWithin
  <2>2. SemTypeOK'
    BY <1>1, <1>3 DEF Post
  <2>3. ASSUME ~slow PROVE sem_value' = sem_value + 1 /\ Exclusive' /\ Conserved'
    <3>1. reg[t] = sem_value /\ val_mutex = t
      BY <1>1, <1>3, <2>3 DEF Post
    <3>2. sem_value # Width - 1
      BY <1>1, <2>1, <2>3
    <3>3. sem_value' = sem_value + 1
      BY <1>1, <1>3, <3>1, <3>2 DEF Post
    <3>4. Conserved'
      BY <1>1, <1>3, <2>3, <3>3 DEF Post
    <3>5. Exclusive'
      BY <1>1, <1>3, <2>3, <3>1 DEF Post
    <3> QED
      BY <3>3, <3>4, <3>5
  <2>4. slow' = slow
    BY <1>3 DEF Post
  <2>5. ~slow' => Exclusive'
    BY <2>3, <2>4
  <2>6. Conserved'
    BY <2>3, <2>4
  <2> QED
    BY <2>1, <2>2, <2>5, <2>6 DEF SemInv
<1>4. ASSUME NEW t \in Callers, Lock(t) PROVE SemInv'
  <2>1. WithinCalls'
    <3>1. ToPost' = ToPost
      BY <1>1, <1>4 DEF Lock, ToPost
    <3> QED
      BY <1>4, <3>1, OtherWithin DEF Lock
  <2> QED
    BY <1>1, <1>4, <2>1 DEF Lock, SemInv
<1>5. ASSUME NEW t \in Callers, Take(t) PROVE SemInv'
  <2>1. WithinCalls'
    <3>1. ToPost' = ToPost
      BY <1>1, <1>5 DEF Take, CountDown, ToPost
    <3> QED
      BY <1>5, <3>1, OtherWithin DEF Take, CountDown
  <2> QED
    BY <1>1, <1>5, <2>1 DEF Take, CountDown, SemInv
<1>6. ASSUME NEW t \in Callers, Refuse(t) PROVE SemInv'
  <2>1. WithinCalls'
    <3>1. ToPost' = ToPost
      BY <1>1, <1>6 DEF Refuse, ToPost
    <3> QED
      BY <1>6, <3>1, OtherWithin DEF Refuse
  <2> QED
    BY <1>1, <1>6, <2>1 DEF Refuse, SemInv
<1>7. ASSUME NEW t \in Callers, Block(t) PROVE SemInv'
  <2>1. WithinCalls'
    <3>1. ToPost' = ToPost
      BY <1>1, <1>7 DEF Block, ToPost
    <3> QED
      BY <1>7, <3>1, OtherWithin DEF Block
  <2> QED
    BY <1>1, <1>7, <2>1 DEF Block, SemInv
<1>8. ASSUME NEW t \in Callers, Sleep(t) \/ WakeForNothing(t) \/ TimeOut(t) PROVE SemInv'
  <2>1. WithinCalls'
    <3>1. ToPost' = ToPost
      BY <1>1, <1>8 DEF Sleep, WakeForNothing, TimeOut, ToPost
    <3> QED
      BY <1>8, <3>1, OtherWithin DEF Sleep, WakeForNothing, TimeOut
  <2> QED
    BY <1>1, <1>8, <2>1 DEF Sleep, WakeForNothing, TimeOut, SemInv
<1>9. ASSUME NEW t \in Callers, SlowLoad(t) \/ SlowStore(t) PROVE SemInv'
  <2>1. WithinCalls'
    <3>1. ToPost' = ToPost
      BY <1>1, <1>9 DEF SlowLoad, SlowStore, CountDown, ToPost
    <3> QED
      BY <1>9, <3>1, OtherWithin DEF SlowLoad, SlowStore, CountDown
  <2>2. slow'
    BY <1>1, <1>9 DEF SlowLoad, SlowStore, CountDown
  <2>3. SemTypeOK'
    <3>1. CASE SlowLoad(t)
      BY <1>1, <3>1 DEF SlowLoad
    <3>2. CASE SlowStore(t)
      BY <1>1, <3>2 DEF SlowStore, CountDown
    <3> QED
      BY <1>9, <3>1, <3>2
  <2> QED
    BY <2>1, <2>2, <2>3 DEF SemInv
<1>10. ASSUME NEW t \in Callers, Unlock(t) PROVE SemInv'
  <2>1. WithinCalls'
    <3>1. ToPost' = ToPost
      BY <1>1, <1>10 DEF Unlock, ToPost
    <3> QED
      BY <1>10, <3>1, OtherWithin DEF Unlock
  <2> QED
    BY <1>1, <1>10, <2>1 DEF Unlock, SemInv
<1>11. CASE UNCHANGED semVars
  <2>1. ToPost' = ToPost
    BY <1>11 DEF semVars, ToPost
  <2>2. WithinCalls'
    BY <1>11, <2>1, OtherWithin DEF semVars
  <2> QED
    BY <1>1, <1>11, <2>2 DEF semVars, SemInv
<1> QED
  BY <1>2, <1>3, <1>4, <1>5, <1>6, <1>7, <1>8, <1>9, <1>10, <1>11 DEF SemNext, GoOn

(* The semaphore keeps its type, and val_mutex names only a thread that is  *)
(* in a locked section or leaves one (sem.cpp:82-133).                     *)
THEOREM SemTypeCorrect == SemSpec => []SemTypeOK
<1>1. SemInv => SemTypeOK
  BY DEF SemInv
<1> QED
  BY <1>1, SemInitInv, SemNextInv, PTL DEF SemSpec

(* For any threads, calls and starting value no update of the count is lost *)
(* before a call that was blocked counts down (sem.cpp:82-133).            *)
THEOREM ConservesCount == SemSpec => []Conserved
<1>1. SemInv => Conserved
  BY DEF SemInv
<1> QED
  BY <1>1, SemInitInv, SemNextInv, PTL DEF SemSpec
=============================================================================
