------------------------------ MODULE PipeProofs ------------------------------
(***************************************************************************)
(* Pipe delivers in order for any threads and any number of messages, and  *)
(* as long as no two readers are inside at once and no wake-up is spurious  *)
(* no reader takes from an empty queue.                                    *)
(*                                                                         *)
(* TypeOK and FifoOrder are inductive together.  NeverPopsEmpty needs the   *)
(* reason why a reader may trust a wake-up: once it has seen the queue     *)
(* empty and cleared empty_ev under mtx, whatever shows it the event (the   *)
(* flag, or being woken) comes from a write(), and no other reader could    *)
(* have taken what was written.                                            *)
(*                                                                         *)
(* Each section of the pipe is at most one step of its event, so that the  *)
(* event keeps its promise inside it.                                      *)
(***************************************************************************)
EXTENDS Pipe, SequenceTheorems, TLAPS

Ordered == TypeOK /\ FifoOrder

(* A write keeps types and order (pipe.hpp:27-36). *)
LEMMA WriteInOrder ==
    ASSUME Ordered, NEW t \in Threads, Write(t)
    PROVE  /\ data_queue' \in Seq(1 .. MaxWrites) /\ data_queue' # <<>>
           /\ sent' \in 0 .. MaxWrites
           /\ FifoOrder'
<1> USE DEF Ordered
<1> DEFINE elt == sent + 1
<1>1. data_queue \in Seq(1 .. MaxWrites) /\ got \in Seq(1 .. MaxWrites) /\ sent \in Nat
  BY BoundAssumption DEF TypeOK
<1>2. elt \in 1 .. MaxWrites /\ sent' = elt /\ data_queue' = Append(data_queue, elt) /\ got' = got
  BY <1>1, BoundAssumption DEF Write
<1>3. /\ Append(data_queue, elt) \in Seq(1 .. MaxWrites)
      /\ Append(data_queue, elt) # <<>>
      /\ Len(Append(data_queue, elt)) = Len(data_queue) + 1
      /\ \A i \in 1 .. Len(data_queue) : Append(data_queue, elt)[i] = data_queue[i]
      /\ Append(data_queue, elt)[Len(data_queue) + 1] = elt
  <2> HIDE DEF elt
  <2> QED
    BY <1>1, <1>2, AppendProperties
<1>4. Len(data_queue) \in Nat /\ Len(got) \in Nat
  BY <1>1, LenProperties
<1>5. sent' = Len(got') + Len(data_queue')
  BY <1>1, <1>2, <1>3, <1>4 DEF FifoOrder
<1>6. ASSUME NEW i \in 1 .. Len(data_queue') PROVE data_queue'[i] = Len(got') + i
  <2>1. i \in 1 .. Len(data_queue) \/ i = Len(data_queue) + 1
    BY <1>2, <1>3, <1>4
  <2>2. CASE i \in 1 .. Len(data_queue)
    BY <2>2, <1>2, <1>3 DEF FifoOrder
  <2>3. CASE i = Len(data_queue) + 1
    BY <2>3, <1>2, <1>3, <1>4 DEF FifoOrder
  <2> QED
    BY <2>1, <2>2, <2>3
<1> QED
  BY <1>1, <1>2, <1>3, <1>5, <1>6, BoundAssumption DEF FifoOrder

(* Taking a message keeps types and order, and is an overrun only if the    *)
(* queue is empty (pipe.hpp:49-50).                                        *)
LEMMA PopInOrder ==
    ASSUME Ordered, Pop, sent' = sent
    PROVE  /\ data_queue' \in Seq(1 .. MaxWrites)
           /\ got' \in Seq(1 .. MaxWrites)
           /\ FifoOrder'
           /\ overrun' \in BOOLEAN
           /\ data_queue # <<>> => overrun' = overrun
<1> USE DEF Ordered
<1>1. CASE data_queue = <<>>
  BY <1>1 DEF Pop, TypeOK, FifoOrder
<1>2. CASE data_queue # <<>>
  <2>1. data_queue \in Seq(1 .. MaxWrites) /\ got \in Seq(1 .. MaxWrites)
    BY DEF TypeOK
  <2>2. data_queue' = Tail(data_queue) /\ got' = Append(got, Head(data_queue)) /\ overrun' = overrun
    BY <1>2 DEF Pop
  <2>3. Len(data_queue) \in Nat \ {0} /\ Len(got) \in Nat
    BY <1>2, <2>1, LenProperties, EmptySeq
  <2>4. /\ Head(data_queue) \in 1 .. MaxWrites
        /\ Tail(data_queue) \in Seq(1 .. MaxWrites)
        /\ Len(Tail(data_queue)) = Len(data_queue) - 1
        /\ \A i \in 1 .. Len(Tail(data_queue)) : Tail(data_queue)[i] = data_queue[i + 1]
    BY <1>2, <2>1, HeadTailProperties
  <2>5. Head(data_queue) = Len(got) + 1
    BY <2>1, <2>3 DEF FifoOrder
  <2>6. /\ got' \in Seq(1 .. MaxWrites)
        /\ Len(got') = Len(got) + 1
        /\ \A i \in 1 .. Len(got) : got'[i] = got[i]
        /\ got'[Len(got) + 1] = Len(got) + 1
    BY <2>1, <2>2, <2>4, <2>5, AppendProperties
  <2>7. sent' = Len(got') + Len(data_queue')
    BY <2>2, <2>3, <2>4, <2>6 DEF FifoOrder
  <2>8. \A i \in 1 .. Len(got') : got'[i] = i
    BY <2>3, <2>6 DEF FifoOrder
  <2>9. \A i \in 1 .. Len(data_queue') : data_queue'[i] = Len(got') + i
    BY <2>2, <2>3, <2>4, <2>6 DEF FifoOrder
  <2> QED
    BY <2>2, <2>4, <2>6, <2>7, <2>8, <2>9 DEF FifoOrder, TypeOK
<1> QED
  BY <1>1, <1>2

-----------------------------------------------------------------------------
(* Order, for any readers, with or without spurious wake-ups. *)

LEMMA InitOrdered == Init => Ordered
<1> SUFFICES ASSUME Init PROVE Ordered
  OBVIOUS
<1>1. <<>> \in Seq(1 .. MaxWrites) /\ Len(<<>>) = 0
  BY EmptySeq
<1>2. empty_ev!TypeOK
  BY DEF Init, empty_ev!Init, empty_ev!TypeOK, empty_ev!WaitStates
<1>3. sent \in 0 .. MaxWrites
  BY BoundAssumption DEF Init
<1>4. \A t \in Threads : wstate[t] # "out" <=> pc[t] = "waiting"
  BY DEF Init, empty_ev!Init
<1>5. TypeOK
  BY <1>1, <1>2, <1>3, <1>4 DEF Init, TypeOK, PcStates
<1>6. FifoOrder
  BY <1>1 DEF Init, FifoOrder
<1> QED
  BY <1>5, <1>6 DEF Ordered

LEMMA NextOrdered ==
    ASSUME Ordered, [Next]_vars
    PROVE  Ordered'
<1> USE DEF Ordered, event, Join, PcStates, empty_ev!TypeOK, empty_ev!WaitStates, Threads
<1>1. ASSUME NEW t \in Writers, Write(t) PROVE Ordered'
  <2>1. data_queue' \in Seq(1 .. MaxWrites) /\ sent' \in 0 .. MaxWrites /\ FifoOrder'
    BY <1>1, WriteInOrder
  <2>2. TypeOK'
    BY <1>1, <2>1 DEF Write, TypeOK, empty_ev!Set
  <2> QED
    BY <2>1, <2>2
<1>2. ASSUME NEW t \in Readers, NEW lim \in BOOLEAN, StartRead(t, lim) PROVE Ordered'
  <2>1. CASE data_queue = <<>>
    <3>1. TypeOK'
      BY <1>2, <2>1 DEF StartRead, TypeOK, empty_ev!Clear
    <3>2. FifoOrder'
      BY <1>2, <2>1 DEF StartRead, FifoOrder
    <3> QED
      BY <3>1, <3>2
  <2>2. CASE data_queue # <<>>
    <3>1. Pop /\ sent' = sent /\ UNCHANGED <<event, pc>> /\ mtx' \in {t, NoThread}
          /\ shared' \in BOOLEAN
      BY <1>2, <2>2 DEF StartRead, Release, TypeOK
    <3>2. /\ data_queue' \in Seq(1 .. MaxWrites) /\ got' \in Seq(1 .. MaxWrites)
          /\ FifoOrder' /\ overrun' \in BOOLEAN
      BY <3>1, PopInOrder
    <3>3. TypeOK'
      BY <3>1, <3>2 DEF TypeOK
    <3> QED
      BY <3>2, <3>3
  <2> QED
    BY <2>1, <2>2
<1>3. ASSUME NEW t \in Readers, EnterWait(t) PROVE Ordered'
  <2>1. TypeOK'
    BY <1>3 DEF EnterWait, TypeOK, empty_ev!Wait
  <2>2. FifoOrder'
    BY <1>3 DEF EnterWait, FifoOrder
  <2> QED
    BY <2>1, <2>2
<1>4. ASSUME NEW t \in Readers, WaitStep(t) PROVE Ordered'
  <2>1. TypeOK'
    BY <1>4 DEF WaitStep, TypeOK, empty_ev!Park, empty_ev!SpuriousWake, empty_ev!Expire
  <2>2. FifoOrder'
    BY <1>4 DEF WaitStep, FifoOrder
  <2> QED
    BY <2>1, <2>2
<1>5. ASSUME NEW t \in Readers, FinishRead(t) PROVE Ordered'
  <2>1. /\ Pop /\ sent' = sent /\ empty_ev!Return(t)
        /\ pc' = [pc EXCEPT ![t] = "idle"] /\ mtx' \in {t, NoThread}
        /\ shared' = shared
    BY <1>5 DEF FinishRead, Release
  <2>2. /\ data_queue' \in Seq(1 .. MaxWrites) /\ got' \in Seq(1 .. MaxWrites)
        /\ FifoOrder' /\ overrun' \in BOOLEAN
    BY <2>1, PopInOrder
  <2>3. TypeOK'
    BY <2>1, <2>2 DEF TypeOK, empty_ev!Return
  <2> QED
    BY <2>2, <2>3
<1>6. ASSUME NEW t \in Readers, GiveUp(t) PROVE Ordered'
  <2>1. TypeOK'
    BY <1>6 DEF GiveUp, TypeOK, empty_ev!Return
  <2>2. FifoOrder'
    BY <1>6 DEF GiveUp, FifoOrder
  <2> QED
    BY <2>1, <2>2
<1>7. ASSUME NEW t \in Readers, TryRead(t) PROVE Ordered'
  <2>1. Pop /\ sent' = sent /\ UNCHANGED <<event, pc, mtx>> /\ shared' \in BOOLEAN
    BY <1>7 DEF TryRead, TypeOK
  <2>2. /\ data_queue' \in Seq(1 .. MaxWrites) /\ got' \in Seq(1 .. MaxWrites)
        /\ FifoOrder' /\ overrun' \in BOOLEAN
    BY <2>1, PopInOrder
  <2>3. TypeOK'
    BY <2>1, <2>2 DEF TypeOK
  <2> QED
    BY <2>2, <2>3
<1>8. CASE UNCHANGED vars
  BY <1>8 DEF vars, TypeOK, FifoOrder
<1> QED
  BY <1>1, <1>2, <1>3, <1>4, <1>5, <1>6, <1>7, <1>8 DEF Next

(* The state keeps its type, and a thread is inside empty_ev.wait exactly   *)
(* between the two locked sections of its read() (pipe.hpp:37-72).         *)
THEOREM TypeCorrect == Spec => []TypeOK
<1>1. Ordered /\ [Next]_vars => Ordered'
  BY NextOrdered
<1>2. Ordered => TypeOK
  BY DEF Ordered
<1> QED
  BY <1>1, <1>2, InitOrdered, PTL DEF Spec

(* Whatever the readers and the wake-ups, up to an overrun every message    *)
(* leaves once and in the order written (pipe.hpp:27-84).                  *)
THEOREM DeliversInOrder == Spec => []FifoOrder
<1>1. Ordered /\ [Next]_vars => Ordered'
  BY NextOrdered
<1>2. Ordered => FifoOrder
  BY DEF Ordered
<1> QED
  BY <1>1, <1>2, InitOrdered, PTL DEF Spec

-----------------------------------------------------------------------------
(* No overrun while each reader is alone and no wake-up is spurious. *)

(* Only readers are inside read(), and while nothing is shared one at most. *)
OnlyReadersRead == \A t \in Threads : pc[t] # "idle" => t \in Readers

Alone ==
    ~shared => \A t, u \in Readers : pc[t] # "idle" /\ pc[u] # "idle" => t = u

(* The reader of an event that is up, or that has been woken, has a message. *)
WakeMeansMessage ==
    ~shared => \A t \in Threads :
        /\ pc[t] # "idle" /\ val_isset => data_queue # <<>>
        /\ wstate[t] = "woken" => data_queue # <<>>

IInv ==
    /\ Ordered
    /\ OnlyReadersRead
    /\ Alone
    /\ WakeMeansMessage
    /\ NeverPopsEmpty

LEMMA NextIInv ==
    ASSUME IInv, [Next]_vars
    PROVE  IInv'
<1> USE DEF event
<1>0. Ordered /\ Ordered' /\ TypeOK /\ TypeOK' /\ NeverPopsEmpty
  BY NextOrdered DEF IInv, Ordered
<1> DEFINE Safe == OnlyReadersRead /\ Alone /\ WakeMeansMessage /\ NeverPopsEmpty
<1> USE DEF OnlyReadersRead, Alone, WakeMeansMessage, NeverPopsEmpty, empty_ev!TypeOK
<1>1. ASSUME NEW t \in Writers, Write(t) PROVE Safe'
  <2>1. data_queue' # <<>>
    BY <1>0, <1>1, WriteInOrder DEF Threads
  <2> QED
    BY <1>1, <2>1 DEF Write, IInv
<1>2. ASSUME NEW t \in Readers, NEW lim \in BOOLEAN, StartRead(t, lim) PROVE Safe'
  <2>0. ~shared' => /\ ~shared
                    /\ \A u \in Readers : u # t => pc[u] = "idle"
    BY <1>2 DEF StartRead, Join
  <2>1. CASE data_queue = <<>>
    <3>1. /\ val_isset' = FALSE /\ UNCHANGED <<wstate, overrun, data_queue>>
          /\ pc' = [pc EXCEPT ![t] = IF lim THEN "timed_read" ELSE "read"]
      BY <1>2, <2>1 DEF StartRead, empty_ev!Clear
    <3>2. OnlyReadersRead' /\ NeverPopsEmpty'
      BY <1>0, <2>0, <3>1 DEF IInv, TypeOK
    <3>3. Alone'
      BY <1>0, <2>0, <3>1 DEF IInv, TypeOK, Threads
    <3>4. ~shared' => \A s \in Threads : wstate[s] = "out"
      BY <1>0, <1>2, <2>0 DEF StartRead, IInv, TypeOK, Threads
    <3> QED
      BY <3>1, <3>2, <3>3, <3>4
  <2>2. CASE data_queue # <<>>
    <3>1. Pop /\ UNCHANGED <<event, pc, sent>> /\ pc[t] = "idle"
      BY <1>2, <2>2 DEF StartRead
    <3>2. overrun' = overrun
      BY <1>0, <2>2, <3>1, PopInOrder
    <3>3. ~shared' => \A s \in Threads : pc[s] = "idle" /\ wstate[s] = "out"
      BY <1>0, <2>0, <3>1 DEF IInv, TypeOK
    <3>4. shared => shared'
      BY <2>0
    <3> QED
      BY <1>0, <3>1, <3>2, <3>3, <3>4 DEF IInv
  <2> QED
    BY <2>1, <2>2
<1>3. ASSUME NEW t \in Readers, EnterWait(t) PROVE Safe'
  BY <1>0, <1>3 DEF EnterWait, IInv, TypeOK, empty_ev!Wait, Threads
<1>4. ASSUME NEW t \in Readers, WaitStep(t) PROVE Safe'
  <2>1. CASE shared' /\ empty_ev!SpuriousWake(t)
    BY <1>0, <1>4, <2>1 DEF WaitStep, IInv, TypeOK, Threads
  <2>2. CASE UNCHANGED shared /\ empty_ev!Park(t)
    BY <1>0, <1>4, <2>2 DEF WaitStep, IInv, TypeOK, Threads, empty_ev!Park
  <2>3. CASE UNCHANGED shared /\ empty_ev!Expire(t)
    BY <1>0, <1>4, <2>3 DEF WaitStep, IInv, TypeOK, Threads, empty_ev!Expire
  <2> QED
    BY <1>4, <2>1, <2>2, <2>3 DEF WaitStep
<1>5. ASSUME NEW t \in Readers, FinishRead(t) PROVE Safe'
  <2>1. /\ Pop /\ sent' = sent /\ empty_ev!Return(t) /\ wstate[t] = "woken"
        /\ pc' = [pc EXCEPT ![t] = "idle"] /\ UNCHANGED shared
    BY <1>5 DEF FinishRead
  <2>2. ~shared => data_queue # <<>>
    BY <2>1 DEF IInv, Threads
  <2>3. ~shared => overrun' = overrun
    BY <1>0, <2>1, <2>2, PopInOrder
  <2>4. ~shared => \A s \in Threads : pc'[s] = "idle" /\ wstate'[s] = "out"
    BY <1>0, <2>1 DEF TypeOK, IInv, Threads
  <2>5. OnlyReadersRead'
    BY <1>0, <2>1 DEF IInv, TypeOK
  <2> QED
    BY <1>0, <2>1, <2>3, <2>4, <2>5 DEF Threads
<1>6. ASSUME NEW t \in Readers, GiveUp(t) PROVE Safe'
  BY <1>0, <1>6 DEF GiveUp, IInv, TypeOK, empty_ev!Return, Threads
<1>7. ASSUME NEW t \in Readers, TryRead(t) PROVE Safe'
  <2>0. ~shared' => /\ ~shared
                    /\ \A u \in Readers : u # t => pc[u] = "idle"
    BY <1>7 DEF TryRead, Join
  <2>1. Pop /\ UNCHANGED <<event, pc, sent>> /\ pc[t] = "idle" /\ data_queue # <<>>
    BY <1>7 DEF TryRead
  <2>2. overrun' = overrun
    BY <1>0, <2>1, PopInOrder
  <2>3. ~shared' => \A s \in Threads : pc[s] = "idle" /\ wstate[s] = "out"
    BY <1>0, <2>0, <2>1 DEF IInv, TypeOK
  <2>4. shared => shared'
    BY <2>0
  <2> QED
    BY <1>0, <2>1, <2>2, <2>3, <2>4 DEF IInv
<1>8. CASE UNCHANGED vars
  BY <1>0, <1>8, SMT DEF vars, IInv
<1> QED
  BY <1>0, <1>1, <1>2, <1>3, <1>4, <1>5, <1>6, <1>7, <1>8 DEF Next, IInv

(* Whatever the readers, the writers and the messages: a read takes from an *)
(* empty queue only after two readers were inside at once or a wake-up was  *)
(* spurious (pipe.hpp:37-84).                                              *)
THEOREM ReaderNeverPopsEmpty == Spec => []NeverPopsEmpty
<1>1. Init => IInv
  BY InitOrdered
  DEF Init, IInv, OnlyReadersRead, Alone, WakeMeansMessage, NeverPopsEmpty, Threads, empty_ev!Init
<1>2. IInv /\ [Next]_vars => IInv'
  BY NextIInv
<1>3. IInv => NeverPopsEmpty
  BY DEF IInv
<1> QED
  BY <1>1, <1>2, <1>3, PTL DEF Spec

(***************************************************************************)
(* The event of the pipe                                                   *)
(***************************************************************************)
\* A set() releases some of those that wait (sem.cpp:24-33).
LEMMA SetReleases ==
    ASSUME TypeOK, empty_ev!Set
    PROVE  empty_ev!Promise!Set
<1> DEFINE waiting  == {t \in Threads : wstate[t] # "out"}
           released == {t \in Threads : wstate[t] = "woken"}
           woken    == IF val_isset THEN {} ELSE {t \in Threads : wstate[t] = "parked"}
<1>1. woken \in SUBSET waiting
  OBVIOUS
<1>2. released' = released \cup woken /\ waiting' = waiting
  BY DEF TypeOK, empty_ev!TypeOK, empty_ev!WaitStates, empty_ev!Set
<1> QED
  BY <1>1, <1>2 DEF empty_ev!Set, empty_ev!Promise!Set

\* The end of a wait() is a true answer or a false one (sem.cpp:34-64).
LEMMA ReturnLeaves ==
    ASSUME TypeOK, NEW t \in Threads, empty_ev!Return(t)
    PROVE  empty_ev!Promise!LeaveTrue(t) \/ empty_ev!Promise!LeaveFalse(t)
<1> USE DEF TypeOK, empty_ev!TypeOK, empty_ev!WaitStates, empty_ev!Return
<1>1. CASE wstate[t] = "woken"
  BY <1>1 DEF empty_ev!Promise!LeaveTrue
<1>2. CASE wstate[t] = "expired"
  BY <1>2 DEF empty_ev!Promise!LeaveFalse
<1> QED
  BY <1>1, <1>2

\* Each section of the pipe is at most one step of its event (pipe.hpp:27-84).
LEMMA EventStep ==
    ASSUME TypeOK, [Next]_vars
    PROVE  [empty_ev!Promise!Next]_empty_ev!Promise!vars
<1> USE DEF TypeOK, empty_ev!TypeOK, empty_ev!WaitStates, empty_ev!Promise!vars
<1>0. ASSUME UNCHANGED event PROVE UNCHANGED empty_ev!Promise!vars
  BY <1>0 DEF event
<1>1. ASSUME NEW t \in Writers, Write(t)
      PROVE  empty_ev!Promise!Set \/ UNCHANGED empty_ev!Promise!vars
  BY <1>0, <1>1, SetReleases DEF Write
<1>2. ASSUME NEW t \in Readers, NEW lim \in BOOLEAN, StartRead(t, lim)
      PROVE  empty_ev!Promise!Clear \/ UNCHANGED empty_ev!Promise!vars
  <2>1. empty_ev!Clear \/ UNCHANGED event
    BY <1>2 DEF StartRead
  <2>2. empty_ev!Clear => empty_ev!Promise!Clear
    BY DEF empty_ev!Clear, empty_ev!Promise!Clear
  <2> QED
    BY <1>0, <2>1, <2>2
<1>3. ASSUME NEW t \in Readers, EnterWait(t)
      PROVE  \E lim \in BOOLEAN : empty_ev!Promise!Enter(t, lim)
  <2>1. PICK lim \in BOOLEAN : empty_ev!Wait(t, lim)
    BY <1>3 DEF EnterWait
  <2>2. empty_ev!Promise!Enter(t, lim)
    BY <2>1 DEF Threads, empty_ev!Wait, empty_ev!Promise!Enter
  <2> QED
    BY <2>2
<1>4. ASSUME NEW t \in Readers, WaitStep(t)
      PROVE  empty_ev!Promise!ReleaseForNothing(t) \/ UNCHANGED empty_ev!Promise!vars
  <2>1. empty_ev!Park(t) => UNCHANGED empty_ev!Promise!vars
    BY DEF empty_ev!Park
  <2>2. empty_ev!Expire(t) => UNCHANGED empty_ev!Promise!vars
    BY DEF empty_ev!Expire
  <2>3. empty_ev!SpuriousWake(t) => empty_ev!Promise!ReleaseForNothing(t)
    BY DEF Threads, empty_ev!SpuriousWake, empty_ev!Promise!ReleaseForNothing
  <2> QED
    BY <1>4, <2>1, <2>2, <2>3 DEF WaitStep
<1>5. ASSUME NEW t \in Readers, FinishRead(t) \/ GiveUp(t)
      PROVE  empty_ev!Promise!LeaveTrue(t) \/ empty_ev!Promise!LeaveFalse(t)
  <2>1. empty_ev!Return(t) /\ t \in Threads
    BY <1>5 DEF FinishRead, GiveUp, Threads
  <2> QED
    BY <2>1, ReturnLeaves
<1>6. ASSUME NEW t \in Readers, TryRead(t) PROVE UNCHANGED empty_ev!Promise!vars
  BY <1>0, <1>6 DEF TryRead
<1>7. CASE UNCHANGED vars
  BY <1>0, <1>7 DEF vars, event
<1>8. Readers \subseteq Threads
  BY DEF Threads
<1> HIDE DEF TypeOK, empty_ev!Promise!vars
<1> QED
  BY <1>1, <1>2, <1>3, <1>4, <1>5, <1>6, <1>7, <1>8 DEF Next, empty_ev!Promise!Next

(* Whatever readers and writers do, the pipe uses its event within the     *)
(* event's promise: a read() that goes on found the event set, or was      *)
(* released by a set() of a write() or for no reason, during its wait; one *)
(* that gives up had a limit (pipe.hpp:27-72, sem.cpp:24-64).              *)
THEOREM EventKeepsPromise == Spec => empty_ev!ImplementsPromise
<1>1. Init => empty_ev!Promise!Init
  BY DEF Init, empty_ev!Init, empty_ev!Promise!Init
<1>2. TypeOK /\ [Next]_vars => [empty_ev!Promise!Next]_empty_ev!Promise!vars
  BY EventStep
<1> QED
  BY <1>1, <1>2, TypeCorrect, PTL DEF Spec, empty_ev!ImplementsPromise, empty_ev!Promise!Spec
=============================================================================
