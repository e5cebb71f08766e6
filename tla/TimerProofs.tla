----------------------------- MODULE TimerProofs -----------------------------
(***************************************************************************)
(* For any delays, answers and number of timers: the state of the timer    *)
(* thread keeps its type, no timer is called after its removal, and the    *)
(* thread never sleeps past a timer.                                       *)
(*                                                                         *)
(* NeverCallsRemoved is not inductive: a removed timer must also be out of  *)
(* the list, for which two entries may not be the same timer.  That is     *)
(* Distinct.  NeverOversleeps needs that sleep_ms never leaves 0.          *)
(*                                                                         *)
(* The event of the timer keeps the promise of Event until the next Init().*)
(***************************************************************************)
EXTENDS Timer, SequenceTheorems, TLAPS

(* The list holds timers that were created, each once and none removed.    *)
Distinct ==
    /\ \A i \in DOMAIN timers : timers[i].serial \in (1 .. created) \ removed
    /\ \A i, j \in DOMAIN timers : timers[i].serial = timers[j].serial => i = j

IInv == TypeOK /\ Distinct /\ NeverCallsRemoved /\ sleep_ms = 0

-----------------------------------------------------------------------------
(* The list operations of timer.cpp: push_front, erase, and writing through *)
(* the iterator.                                                           *)

LEMMA PushFront ==
    ASSUME NEW S, NEW list \in Seq(S), NEW e \in S
    PROVE  /\ <<e>> \o list \in Seq(S)
           /\ Len(<<e>> \o list) = Len(list) + 1
           /\ (<<e>> \o list)[1] = e
           /\ \A i \in 1 .. Len(list) : (<<e>> \o list)[i + 1] = list[i]
<1>1. <<e>> \in Seq(S) /\ Len(<<e>>) = 1 /\ <<e>>[1] = e
  OBVIOUS
<1>2. Len(list) \in Nat
  BY LenProperties
<1>3. /\ <<e>> \o list \in Seq(S)
      /\ Len(<<e>> \o list) = Len(<<e>>) + Len(list)
      /\ \A i \in 1 .. Len(<<e>>) + Len(list) :
            (<<e>> \o list)[i] = IF i <= Len(<<e>>) THEN <<e>>[i] ELSE list[i - Len(<<e>>)]
  BY <1>1, ConcatProperties
<1> QED
  BY <1>1, <1>2, <1>3

LEMMA Erase ==
    ASSUME NEW S, NEW list \in Seq(S), NEW i \in 1 .. Len(list)
    PROVE  /\ Without(list, i) \in Seq(S)
           /\ Len(Without(list, i)) = Len(list) - 1
           /\ \A j \in 1 .. Len(list) - 1 :
                 Without(list, i)[j] = list[IF j < i THEN j ELSE j + 1]
<1> DEFINE front == SubSeq(list, 1, i - 1)
           back  == SubSeq(list, i + 1, Len(list))
<1>1. Len(list) \in Nat /\ \A j \in 1 .. Len(list) : list[j] \in S
  BY LenProperties, ElementOfSeq
<1>2. /\ front \in Seq(S) /\ Len(front) = i - 1
      /\ \A j \in 1 .. i - 1 : front[j] = list[j]
  BY <1>1, SubSeqProperties
<1>3. /\ back \in Seq(S) /\ Len(back) = Len(list) - i
      /\ \A j \in 1 .. Len(list) - i : back[j] = list[j + i]
  BY <1>1, SubSeqProperties
<1>4. Without(list, i) = front \o back
  BY DEF Without
<1> HIDE DEF front, back
<1>5. /\ front \o back \in Seq(S)
      /\ Len(front \o back) = Len(front) + Len(back)
      /\ \A j \in 1 .. Len(front) + Len(back) :
            (front \o back)[j] = IF j <= Len(front) THEN front[j] ELSE back[j - Len(front)]
  BY <1>2, <1>3, ConcatProperties
<1> QED
  BY <1>1, <1>2, <1>3, <1>4, <1>5

(* Changing the time of one timer leaves the others and their order alone. *)
LEMMA SetTime ==
    ASSUME timers \in Seq(TimerType), NEW i \in 1 .. Len(timers), NEW ms \in Nat,
           NEW list, list = [timers EXCEPT ![i].ms = ms]
    PROVE  /\ list \in Seq(TimerType)
           /\ Len(list) = Len(timers)
           /\ \A j \in 1 .. Len(timers) : list[j].serial = timers[j].serial
<1>1. /\ Len(timers) \in Nat /\ DOMAIN timers = 1 .. Len(timers)
      /\ \A j \in 1 .. Len(timers) : timers[j] \in TimerType
  BY LenProperties, ElementOfSeq
<1>2. [timers[i] EXCEPT !.ms = ms] \in TimerType
  BY <1>1 DEF TimerType
<1>3. list = [timers EXCEPT ![i] = [timers[i] EXCEPT !.ms = ms]]
  OBVIOUS
<1>4. /\ DOMAIN list = 1 .. Len(timers)
      /\ \A j \in 1 .. Len(timers) :
            list[j] = IF j = i THEN [timers[i] EXCEPT !.ms = ms] ELSE timers[j]
  BY <1>1, <1>3
<1>5. [timers[i] EXCEPT !.ms = ms].serial = timers[i].serial
  BY <1>1 DEF TimerType
<1>6. list = [j \in 1 .. Len(timers) |-> list[j]] /\ \A j \in 1 .. Len(timers) : list[j] \in TimerType
  BY <1>1, <1>2, <1>3, <1>4
<1>7. list \in Seq(TimerType) /\ Len(list) = Len(timers)
  BY <1>1, <1>6, IsASeq
<1> QED
  BY <1>4, <1>5, <1>7

-----------------------------------------------------------------------------
(* Each step that changes the list keeps the timers in it distinct, and none of *)
(* them removed.                                                           *)

Listed == timers \in Seq(TimerType) /\ created \in 0 .. MaxTimers /\ Distinct

LEMMA CreateListed ==
    ASSUME Listed, NEW node \in Nodes, NEW ms \in Delays, Create(node, ms),
           removed \subseteq 1 .. created
    PROVE  Listed'
<1> DEFINE e == [node |-> node, serial |-> created + 1, ms |-> ms]
<1>1. Len(timers) \in Nat /\ DOMAIN timers = 1 .. Len(timers) /\ created \in Nat /\ MaxTimers \in Nat
  BY TimesAssumption, LenProperties DEF Listed
<1>2. created' = created + 1 /\ created' \in 1 .. MaxTimers /\ removed' = removed
  BY <1>1 DEF Create
<1>3. e \in TimerType /\ e.serial = created'
  BY <1>1, <1>2, TimesAssumption DEF TimerType
<1>4. timers' = <<e>> \o timers
  BY DEF Create
<1> HIDE DEF e
<1>5. /\ timers' \in Seq(TimerType) /\ Len(timers') = Len(timers) + 1
      /\ timers'[1] = e
      /\ \A i \in 1 .. Len(timers) : timers'[i + 1] = timers[i]
  BY <1>3, <1>4, PushFront DEF Listed
<1>6. DOMAIN timers' = 1 .. Len(timers) + 1
  BY <1>5, LenProperties
<1>7. ASSUME NEW i \in 2 .. Len(timers) + 1
      PROVE  i - 1 \in DOMAIN timers /\ timers'[i] = timers[i - 1]
  BY <1>1, <1>5
<1>8. ASSUME NEW i \in DOMAIN timers'
      PROVE  timers'[i].serial \in (1 .. created') \ removed'
  <2>1. CASE i = 1
    BY <2>1, <1>1, <1>2, <1>3, <1>5
  <2>2. CASE i # 1
    <3>1. i \in 2 .. Len(timers) + 1
      BY <2>2, <1>1, <1>6
    <3>2. timers'[i].serial \in (1 .. created) \ removed
      BY <3>1, <1>7 DEF Listed, Distinct
    <3> QED
      BY <3>2, <1>1, <1>2
  <2> QED
    BY <2>1, <2>2
<1>9. ASSUME NEW i \in DOMAIN timers', NEW j \in DOMAIN timers',
             timers'[i].serial = timers'[j].serial
      PROVE  i = j
  <2>1. ASSUME NEW k \in DOMAIN timers', k # 1 PROVE timers'[k].serial # created'
    <3>1. k \in 2 .. Len(timers) + 1
      BY <2>1, <1>1, <1>6
    <3>2. timers'[k].serial \in 1 .. created
      BY <3>1, <1>7 DEF Listed, Distinct
    <3> QED
      BY <3>2, <1>1, <1>2
  <2>2. CASE i = 1 \/ j = 1
    BY <2>1, <2>2, <1>3, <1>5, <1>9
  <2>3. CASE i # 1 /\ j # 1
    <3>1. i \in 2 .. Len(timers) + 1 /\ j \in 2 .. Len(timers) + 1
      BY <2>3, <1>1, <1>6
    <3>2. i - 1 = j - 1
      BY <3>1, <1>7, <1>9 DEF Listed, Distinct
    <3> QED
      BY <3>1, <3>2
  <2> QED
    BY <2>2, <2>3
<1> QED
  BY <1>1, <1>2, <1>5, <1>8, <1>9 DEF Listed, Distinct

LEMMA RemoveListed ==
    ASSUME Listed, NEW i \in DOMAIN timers,
           timers' = Without(timers, i),
           removed' = removed \cup {timers[i].serial}, created' = created
    PROVE  Listed' /\ Len(timers') = Len(timers) - 1
<1>1. Len(timers) \in Nat /\ DOMAIN timers = 1 .. Len(timers)
  BY LenProperties DEF Listed
<1>2. /\ timers' \in Seq(TimerType) /\ Len(timers') = Len(timers) - 1
      /\ \A j \in 1 .. Len(timers) - 1 : timers'[j] = timers[IF j < i THEN j ELSE j + 1]
  BY <1>1, Erase DEF Listed
<1>3. DOMAIN timers' = 1 .. Len(timers) - 1
  BY <1>2, LenProperties
<1>4. \A j \in DOMAIN timers' :
         /\ (IF j < i THEN j ELSE j + 1) \in DOMAIN timers
         /\ (IF j < i THEN j ELSE j + 1) # i
         /\ timers'[j] = timers[IF j < i THEN j ELSE j + 1]
  BY <1>1, <1>2, <1>3
<1>5. \A j \in DOMAIN timers' : timers'[j].serial \in (1 .. created') \ removed'
  BY <1>4 DEF Listed, Distinct
<1>6. ASSUME NEW j \in DOMAIN timers', NEW k \in DOMAIN timers',
             timers'[j].serial = timers'[k].serial
      PROVE  j = k
  <2>1. (IF j < i THEN j ELSE j + 1) = (IF k < i THEN k ELSE k + 1)
    BY <1>4, <1>6 DEF Listed, Distinct
  <2> QED
    BY <2>1, <1>1, <1>3
<1> QED
  BY <1>2, <1>5, <1>6 DEF Listed, Distinct

LEMMA SetTimeListed ==
    ASSUME Listed, NEW i \in 1 .. Len(timers), NEW ms \in Nat,
           timers' = [timers EXCEPT ![i].ms = ms],
           removed' = removed, created' = created
    PROVE  Listed' /\ Len(timers') = Len(timers)
<1>1. /\ timers' \in Seq(TimerType) /\ Len(timers') = Len(timers)
      /\ \A j \in 1 .. Len(timers) : timers'[j].serial = timers[j].serial
  BY SetTime DEF Listed
<1>2. DOMAIN timers' = DOMAIN timers /\ DOMAIN timers = 1 .. Len(timers)
  BY <1>1, LenProperties DEF Listed
<1> QED
  BY <1>1, <1>2 DEF Listed, Distinct

-----------------------------------------------------------------------------
(* The invariant. *)

LEMMA InitInv == Init => IInv
<1> SUFFICES ASSUME Init PROVE IInv
  OBVIOUS
<1>1. <<>> \in Seq(TimerType) /\ Len(<<>>) = 0 /\ DOMAIN <<>> = {}
  BY EmptySeq
<1>2. ev!TypeOK /\ wstate[TimerThread] = "out"
  BY DEF Init, ev!Init, ev!TypeOK, ev!WaitStates
<1>3. /\ elapsed \in 0 .. MaxElapsed /\ created \in 0 .. MaxTimers
      /\ iter \in Nat \ {0} /\ dur_ms \in Nat /\ sleep_ms \in Nat
      /\ removed \subseteq 1 .. created /\ fired \subseteq 1 .. created
  BY TimesAssumption DEF Init
<1>5. TypeOK
  BY <1>1, <1>2, <1>3 DEF Init, TypeOK, ThreadStates, InWait
<1>4. Distinct
  BY <1>1 DEF Init, Distinct
<1> QED
  BY <1>4, <1>5 DEF Init, IInv, NeverCallsRemoved

(* The clients' steps. *)
LEMMA ClientInv ==
    ASSUME IInv,
           \/ InitTimer
           \/ \E node \in Nodes, ms \in Delays : Create(node, ms)
           \/ \E node \in Nodes : Delete(node)
           \/ Quit \/ QuitSet \/ QuitJoin
    PROVE  IInv'
<1> USE DEF IInv, NeverCallsRemoved, event, clock, history, ev!TypeOK, ev!WaitStates,
            ThreadStates, InWait, MtxFree
<1>1. <<>> \in Seq(TimerType) /\ DOMAIN <<>> = {}
  BY EmptySeq
<1>2. CASE InitTimer
  <2>1. elapsed' \in 0 .. MaxElapsed
    BY <1>2, TimesAssumption DEF InitTimer
  <2>2. ev!TypeOK' /\ wstate'[TimerThread] = "out"
    BY <1>2 DEF InitTimer
  <2>3. TypeOK'
    BY <1>1, <1>2, <2>1, <2>2 DEF InitTimer, TypeOK
  <2> QED
    BY <1>1, <1>2, <2>3 DEF InitTimer, Distinct
<1>3. ASSUME NEW node \in Nodes, NEW ms \in Delays, Create(node, ms) PROVE IInv'
  <2>1. Listed'
    BY <1>3, CreateListed DEF Listed, TypeOK
  <2>2. created' = created + 1 /\ created \in Nat
    BY <1>3, TimesAssumption DEF Create, TypeOK
  <2>3. removed' \subseteq 1 .. created' /\ fired' \subseteq 1 .. created'
    BY <1>3, <2>2 DEF Create, TypeOK
  <2>4. TypeOK'
    BY <1>3, <2>1, <2>3 DEF Create, TypeOK, Listed
  <2> QED
    BY <1>3, <2>1, <2>4 DEF Create, Listed
<1>4. ASSUME NEW node \in Nodes, Delete(node) PROVE IInv'
  <2>1. PICK i \in DOMAIN timers :
           timers' = Without(timers, i) /\ removed' = removed \cup {timers[i].serial}
    BY <1>4 DEF Delete
  <2>2. Listed'
    BY <1>4, <2>1, RemoveListed DEF Listed, TypeOK, Delete
  <2>3. timers[i].serial \in 1 .. created
    BY DEF Distinct
  <2>4. TypeOK'
    BY <1>4, <2>1, <2>2, <2>3 DEF Delete, TypeOK, Listed
  <2> QED
    BY <1>4, <2>2, <2>4 DEF Delete, Listed
<1>5. CASE Quit
  BY <1>5 DEF Quit, TypeOK, Distinct
<1>6. CASE QuitSet
  BY <1>6 DEF QuitSet, TypeOK, Distinct, ev!Set
<1>7. CASE QuitJoin
  BY <1>1, <1>7 DEF QuitJoin, TypeOK, Distinct
<1> QED
  BY <1>2, <1>3, <1>4, <1>5, <1>6, <1>7

(* The steps of a pass. *)
LEMMA PassInv ==
    ASSUME IInv,
           StartPass \/ Age \/ FireOnce \/ FireBlocks \/ EndPass \/ \E ms \in Answers : FireAgain(ms)
    PROVE  IInv'
<1> USE DEF IInv, NeverCallsRemoved, event, clock, history, ev!TypeOK, ev!WaitStates,
            ThreadStates, InWait
<1>1. /\ Len(timers) \in Nat /\ DOMAIN timers = 1 .. Len(timers)
      /\ \A i \in DOMAIN timers : timers[i].ms \in Nat
  <2>1. timers \in Seq(TimerType)
    BY DEF TypeOK
  <2>2. DOMAIN timers = 1 .. Len(timers) /\ Len(timers) \in Nat
    BY <2>1, LenProperties
  <2>3. \A i \in DOMAIN timers : timers[i] \in TimerType
    BY <2>1, <2>2, ElementOfSeq
  <2> QED
    BY <2>2, <2>3 DEF TimerType
<1>2. AtTimer => iter \in 1 .. Len(timers)
  BY <1>1 DEF AtTimer, TypeOK
<1>3. ASSUME AtTimer, Called(timers[iter])
      PROVE  /\ fired' \subseteq 1 .. created
             /\ misfired' = FALSE /\ misfired' \in BOOLEAN
             /\ timers[iter].serial \in 1 .. created
  BY <1>1, <1>2, <1>3 DEF Called, Distinct, TypeOK
<1>4. CASE StartPass
  <2>1. elapsed \in Nat /\ Scale \in Nat
    BY TimesAssumption DEF TypeOK
  <2>2. elapsed * Scale \in Nat
    BY <2>1
  <2> QED
    BY <1>1, <1>4, <2>2, TimesAssumption DEF StartPass, TypeOK, Distinct
<1>5. CASE Age
  <2>1. iter \in 1 .. Len(timers)
    BY <1>2, <1>5 DEF Age
  <2>2. timers[iter].ms - dur_ms \in Nat
    BY <1>1, <1>5, <2>1 DEF Age, IsDue, TypeOK
  <2>3. Listed' /\ Len(timers') = Len(timers)
    <3>1. timers' = [timers EXCEPT ![iter].ms = timers[iter].ms - dur_ms]
      BY <1>5, <2>1 DEF Age
    <3> QED
      BY <1>5, <2>1, <2>2, <3>1, SetTimeListed DEF Age, Listed, TypeOK
  <2>4. timers'[iter].ms \in Nat
    <3>1. timers'[iter] \in TimerType
      BY <2>1, <2>3, ElementOfSeq DEF Listed
    <3> QED
      BY <3>1 DEF TimerType
  <2>5. sleep_ms' = 0
    BY <1>5, <2>4 DEF Age
  <2>6. TypeOK'
    BY <1>1, <1>5, <2>1, <2>3, <2>5 DEF Age, AtTimer, TypeOK, Listed
  <2> QED
    BY <1>5, <2>3, <2>5, <2>6 DEF Age, Listed
<1>6. CASE FireOnce
  <2>1. iter \in DOMAIN timers
    BY <1>1, <1>2, <1>6 DEF FireOnce
  <2>2. Listed' /\ Len(timers') = Len(timers) - 1
    BY <1>6, <2>1, RemoveListed DEF FireOnce, Listed, TypeOK
  <2>3. fired' \subseteq 1 .. created /\ misfired' = FALSE /\ misfired' \in BOOLEAN /\ timers[iter].serial \in 1 .. created
    BY <1>3, <1>6 DEF FireOnce
  <2>4. iter <= Len(timers') + 1
    BY <1>1, <2>1, <2>2
  <2>5. removed' \subseteq 1 .. created
    BY <1>6, <2>3 DEF FireOnce, TypeOK
  <2>6. TypeOK'
    BY <1>6, <2>2, <2>3, <2>4, <2>5 DEF FireOnce, TypeOK, Listed
  <2> QED
    BY <1>6, <2>2, <2>3, <2>6 DEF FireOnce, Listed
<1>7. ASSUME NEW ms \in Answers, FireAgain(ms) PROVE IInv'
  <2>1. iter \in 1 .. Len(timers)
    BY <1>2, <1>7 DEF FireAgain
  <2>2. Listed' /\ Len(timers') = Len(timers)
    BY <1>7, <2>1, TimesAssumption, SetTimeListed DEF FireAgain, Listed, TypeOK
  <2>3. fired' \subseteq 1 .. created /\ misfired' = FALSE /\ misfired' \in BOOLEAN
    BY <1>3, <1>7 DEF FireAgain
  <2>4. iter' \in Nat \ {0} /\ iter' <= Len(timers') + 1
    BY <1>1, <1>7, <2>1, <2>2 DEF FireAgain
  <2>5. TypeOK'
    BY <1>7, <2>2, <2>3, <2>4 DEF FireAgain, TypeOK, Listed
  <2> QED
    BY <1>7, <2>2, <2>3, <2>5 DEF FireAgain, Listed
<1>8. CASE FireBlocks
  <2>1. fired' \subseteq 1 .. created /\ misfired' = FALSE /\ misfired' \in BOOLEAN
    BY <1>3, <1>8 DEF FireBlocks
  <2> QED
    BY <1>8, <2>1 DEF FireBlocks, AtTimer, TypeOK, Distinct
<1>9. CASE EndPass
  BY <1>9 DEF EndPass, TypeOK, Distinct
<1> QED
  BY <1>4, <1>5, <1>6, <1>7, <1>8, <1>9

(* The other steps of the thread, and time. *)
LEMMA WaitInv ==
    ASSUME IInv,
           \/ Top \/ FindEmpty \/ EnterWait \/ ClearEvent \/ Doze
           \/ WaitStep \/ WakeForNothing \/ WaitReturns \/ Tick
    PROVE  IInv'
<1> USE DEF IInv, NeverCallsRemoved, Distinct, event, clock, history, ev!TypeOK, ev!WaitStates,
            ThreadStates, InWait
<1>1. CASE Top
  BY <1>1 DEF Top, TypeOK
<1>2. CASE FindEmpty
  BY <1>2 DEF FindEmpty, TypeOK
<1>3. CASE EnterWait
  BY <1>3 DEF EnterWait, TypeOK, ev!Wait
<1>4. CASE ClearEvent
  BY <1>4 DEF ClearEvent, TypeOK, ev!Clear
<1>5. CASE Doze
  BY <1>5 DEF Doze, TypeOK, ev!Wait
<1>6. CASE WaitStep
  <2>1. CASE ev!Park(TimerThread)
    BY <1>6, <2>1 DEF WaitStep, TypeOK, ev!Park
  <2>2. CASE ev!Expire(TimerThread)
    BY <1>6, <2>2 DEF WaitStep, TypeOK, ev!Expire
  <2> QED
    BY <1>6, <2>1, <2>2 DEF WaitStep
<1>7. CASE WakeForNothing
  BY <1>7 DEF WakeForNothing, TypeOK, ev!SpuriousWake
<1>8. CASE WaitReturns
  BY <1>8 DEF WaitReturns, TypeOK, ev!Return
<1>9. CASE Tick
  BY <1>9, TimesAssumption DEF Tick, TypeOK
<1> QED
  BY <1>1, <1>2, <1>3, <1>4, <1>5, <1>6, <1>7, <1>8, <1>9

LEMMA NextInv == IInv /\ [Next]_vars => IInv'
<1> SUFFICES ASSUME IInv, [Next]_vars PROVE IInv'
  OBVIOUS
<1>1. CASE UNCHANGED vars
  BY <1>1 DEF vars, event, clock, history, IInv, TypeOK, Distinct, NeverCallsRemoved, InWait,
              ev!TypeOK
<1>2. CASE Next
  BY <1>2, ClientInv, PassInv, WaitInv DEF Next, ThreadStep
<1> QED
  BY <1>1, <1>2

(* The state of the timer keeps its type: a pass never leaves the list, and *)
(* the thread is in event.wait() exactly at the two waits of run()         *)
(* (timer.cpp:72-127).                                                     *)
THEOREM TypeCorrect == Spec => []TypeOK
<1>1. IInv => TypeOK
  BY DEF IInv
<1> QED
  BY <1>1, InitInv, NextInv, PTL DEF Spec

(* A timer that Delete() found, or that answered 0, is never called again,  *)
(* whatever the timers, the delays and the answers (timer.cpp:93-118,      *)
(* 171-181).                                                               *)
THEOREM RemovedNeverCalled == Spec => []NeverCallsRemoved
<1>1. IInv => NeverCallsRemoved
  BY DEF IInv
<1> QED
  BY <1>1, InitInv, NextInv, PTL DEF Spec

(* The thread never sleeps past a timer of the list (timer.cpp:110-121).   *)
THEOREM ThreadNeverOversleeps == Spec => []NeverOversleeps
<1>1. IInv => NeverOversleeps
  <2> SUFFICES ASSUME IInv, NEW i \in DOMAIN timers PROVE sleep_ms <= timers[i].ms
    BY DEF NeverOversleeps
  <2>1. timers \in Seq(TimerType) /\ sleep_ms = 0
    BY DEF IInv, TypeOK
  <2>2. timers[i] \in TimerType
    BY <2>1, LenProperties, ElementOfSeq
  <2> QED
    BY <2>1, <2>2 DEF TimerType
<1> QED
  BY <1>1, InitInv, NextInv, PTL DEF Spec

(***************************************************************************)
(* The event of the timer                                                  *)
(***************************************************************************)
\* A set() releases some of those that wait (sem.cpp:24-33).
LEMMA SetReleases ==
    ASSUME TypeOK, ev!Set
    PROVE  ev!Promise!Set
<1> DEFINE waiting  == {t \in {TimerThread} : wstate[t] # "out"}
           released == {t \in {TimerThread} : wstate[t] = "woken"}
           woken    == IF val_isset THEN {} ELSE {t \in {TimerThread} : wstate[t] = "parked"}
<1>1. woken \in SUBSET waiting
  OBVIOUS
<1>2. released' = released \cup woken /\ waiting' = waiting
  BY DEF TypeOK, ev!TypeOK, ev!WaitStates, ev!Set
<1> QED
  BY <1>1, <1>2 DEF ev!Set, ev!Promise!Set

\* A clear() is one of the promise (sem.cpp:65-68).
LEMMA ClearClears == ev!Clear => ev!Promise!Clear
  BY DEF ev!Clear, ev!Promise!Clear

\* The end of a wait() is a true answer or a false one (sem.cpp:34-64).
LEMMA ReturnLeaves ==
    ASSUME TypeOK, NEW t \in {TimerThread}, ev!Return(t)
    PROVE  ev!Promise!LeaveTrue(t) \/ ev!Promise!LeaveFalse(t)
<1> USE DEF TypeOK, ev!TypeOK, ev!WaitStates, ev!Return
<1>1. CASE wstate[t] = "woken"
  BY <1>1 DEF ev!Promise!LeaveTrue
<1>2. CASE wstate[t] = "expired"
  BY <1>2 DEF ev!Promise!LeaveFalse
<1> QED
  BY <1>1, <1>2

\* Each step of a client or of the thread is at most one step of the event,
\* but for Init(), which makes a new one (timer.cpp:47-136).
LEMMA EventStep ==
    ASSUME TypeOK, [Next]_vars
    PROVE  [ev!Promise!Next \/ InitTimer]_ev!Promise!vars
<1> USE DEF TypeOK, ev!TypeOK, ev!WaitStates, ev!Promise!vars
<1>0. ASSUME UNCHANGED event PROVE UNCHANGED ev!Promise!vars
  BY <1>0 DEF event
<1>1. ASSUME QuitSet PROVE ev!Promise!Set
  BY <1>1, SetReleases DEF QuitSet
<1>2. ASSUME ClearEvent PROVE ev!Promise!Clear
  BY <1>2, ClearClears DEF ClearEvent
<1>3. ASSUME EnterWait PROVE ev!Promise!Enter(TimerThread, FALSE)
  BY <1>3 DEF EnterWait, ev!Wait, ev!Promise!Enter
<1>4. ASSUME Doze PROVE ev!Promise!Enter(TimerThread, TRUE)
  BY <1>4 DEF Doze, ev!Wait, ev!Promise!Enter
<1>5. ASSUME WaitStep PROVE UNCHANGED ev!Promise!vars
  BY <1>5 DEF WaitStep, ev!Park, ev!Expire
<1>6. ASSUME WakeForNothing PROVE ev!Promise!ReleaseForNothing(TimerThread)
  BY <1>6 DEF WakeForNothing, ev!SpuriousWake, ev!Promise!ReleaseForNothing
<1>7. ASSUME WaitReturns
      PROVE  ev!Promise!LeaveTrue(TimerThread) \/ ev!Promise!LeaveFalse(TimerThread)
  BY <1>7, ReturnLeaves DEF WaitReturns
<1>8. ASSUME \/ \E node \in Nodes, ms \in Delays : Create(node, ms)
             \/ \E node \in Nodes : Delete(node)
             \/ Quit \/ QuitJoin \/ Tick
             \/ Top \/ FindEmpty \/ StartPass \/ Age \/ FireOnce \/ EndPass
             \/ \E ms \in Answers : FireAgain(ms)
             \/ FireBlocks
             \/ UNCHANGED vars
      PROVE  UNCHANGED ev!Promise!vars
  <2>1. UNCHANGED event
    BY <1>8 DEF Create, Delete, Quit, QuitJoin, Tick, Top, FindEmpty, StartPass, Age, FireOnce,
                EndPass, FireAgain, FireBlocks, vars
  <2> QED
    BY <1>0, <2>1
<1> HIDE DEF TypeOK, ev!Promise!vars
<1> QED
  BY <1>1, <1>2, <1>3, <1>4, <1>5, <1>6, <1>7, <1>8 DEF Next, ThreadStep, ev!Promise!Next

(* From one Init() to the next the timer uses its event within the event's *)
(* promise: the thread goes on from event.wait() only if it found the      *)
(* event set, or was released by a set() or for no reason, during it, and  *)
(* gives up only its timed wait (timer.cpp:47-51, 86, 120-124).  Init()    *)
(* makes a new event (timer.cpp:129-136).                                  *)
THEOREM EventKeepsPromise ==
    Spec => ev!Promise!Init /\ [][ev!Promise!Next \/ InitTimer]_ev!Promise!vars
<1>1. Init => ev!Promise!Init
  BY DEF Init, ev!Init, ev!Promise!Init
<1>2. TypeOK /\ [Next]_vars => [ev!Promise!Next \/ InitTimer]_ev!Promise!vars
  BY EventStep
<1> QED
  BY <1>1, <1>2, TypeCorrect, PTL DEF Spec
=============================================================================
