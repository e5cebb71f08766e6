--------------------------- MODULE ThreadPoolProofs ---------------------------
(***************************************************************************)
(* For any numbers of clients, workers and tasks, with resizing and with    *)
(* spurious wake-ups, the pool loses no task outside its destructor, calls  *)
(* none twice and takes them in the order they were added; workers stop     *)
(* when told, are deleted once, and are gone when the destructor ends.     *)
(* Its event keeps the promise of Event.                                   *)
(***************************************************************************)
EXTENDS ThreadPool, SequenceTheorems, TLAPS

(* Types of the list of tasks and of the list of workers after each way    *)
(* the code changes them.                                                  *)
LEMMA PushType ==
    ASSUME TypeOK, added < MaxTasks
    PROVE  /\ Append(tasks, added + 1) \in Seq(Tasks)
           /\ added + 1 \in 0 .. MaxTasks
BY SizesAssumption, AppendProperties DEF TypeOK, Tasks

LEMMA PopType ==
    ASSUME TypeOK, tasks # <<>>
    PROVE  Head(tasks) \in Tasks /\ Tail(tasks) \in Seq(Tasks)
BY HeadTailProperties DEF TypeOK

LEMMA ShrinkType ==
    ASSUME TypeOK, NEW n \in 0 .. MaxWorkers, Shrink(n)
    PROVE  workers' \in Seq(Workers)
<1>1. workers \in Seq(Workers) /\ Len(workers) \in Nat /\ n \in Nat /\ n < Len(workers)
  BY SizesAssumption, LenProperties DEF TypeOK, Shrink
<1>2. \A i \in Len(workers) - n + 1 .. Len(workers) : workers[i] \in Workers
  BY <1>1, ElementOfSeq
<1> QED
  BY <1>1, <1>2, SubSeqProperties DEF Shrink

LEMMA GrowType ==
    ASSUME TypeOK, NEW n \in 0 .. MaxWorkers, Grow(n)
    PROVE  /\ workers' \in Seq(Workers)
           /\ created' \in 0 .. MaxWorkers
           /\ created' >= created
<1> DEFINE more == n - Len(workers)
           new  == [i \in 1 .. more |-> created + i]
<1>1. workers \in Seq(Workers) /\ Len(workers) \in Nat /\ n \in Nat /\ created \in Nat
  BY SizesAssumption, LenProperties DEF TypeOK
<1>2. more \in Nat /\ created + more <= MaxWorkers /\ created' = created + more
  BY <1>1 DEF Grow
<1>3. new \in Seq(Workers)
  <2>1. \A i \in 1 .. more : created + i \in Workers
    BY <1>1, <1>2, SizesAssumption DEF Workers
  <2> QED
    BY <1>2, <2>1, IsASeq
<1>4. workers' = workers \o new
  BY DEF Grow
<1>5. workers \o new \in Seq(Workers)
  BY <1>1, <1>3, ConcatProperties
<1>6. created + more \in 0 .. MaxWorkers /\ created + more >= created
  BY <1>1, <1>2, SizesAssumption
<1> QED
  BY <1>2, <1>4, <1>5, <1>6

LEMMA InitType == Init => TypeOK
<1> SUFFICES ASSUME Init PROVE TypeOK
  OBVIOUS
<1>1. tasks \in Seq(Tasks)
  BY EmptySeq DEF Init
<1>2. workers \in Seq(Workers)
  <2>1. \A i \in 1 .. InitialWorkers : i \in Workers
    BY SizesAssumption DEF Workers
  <2> QED
    BY <2>1, SizesAssumption, IsASeq DEF Init
<1>3. empty_event!TypeOK
  BY DEF Init, empty_event!Init, empty_event!TypeOK, empty_event!WaitStates
<1>4. created \in 0 .. MaxWorkers /\ added \in 0 .. MaxTasks
  BY SizesAssumption DEF Init
<1>5. \A w \in Workers :
        /\ task[w] # NoTask <=> wpc[w] \in {"popped", "running", "counting"}
        /\ ~is_free[w] <=> wpc[w] \in {"running", "counting"}
        /\ wpc[w] = "absent" <=> w > created
  BY SizesAssumption DEF Init, Workers
<1>6. \A c \in Clients : wstate[c] # "out" <=> cpc[c] = "waiting"
  BY DEF Init, empty_event!Init
<1>7. wpc \in [Workers -> WorkerStates] /\ cpc \in [Clients -> ClientStates]
  BY DEF Init, WorkerStates, ClientStates
<1> QED
  BY <1>1, <1>2, <1>3, <1>4, <1>5, <1>6, <1>7 DEF Init, TypeOK

(* What add_task() does to the workers: at most a parked one goes to "top". *)
LEMMA NotifyOneType ==
    ASSUME TypeOK, NotifyOne
    PROVE  /\ wpc' \in [Workers -> WorkerStates]
           /\ \A w \in Workers : wpc'[w] = wpc[w] \/ (wpc[w] = "parked" /\ wpc'[w] = "top")
BY DEF NotifyOne, TypeOK, WorkerStates, Parked

LEMMA EnqueueType ==
    ASSUME TypeOK, Enqueue
    PROVE  TypeOK'
<1> USE DEF pool, history, event, empty_event!TypeOK, empty_event!WaitStates
<1>1. tasks' \in Seq(Tasks) /\ added' \in 0 .. MaxTasks
  BY PushType DEF Enqueue
<1>2. /\ wpc' \in [Workers -> WorkerStates]
      /\ \A w \in Workers : wpc'[w] = wpc[w] \/ (wpc[w] = "parked" /\ wpc'[w] = "top")
  BY NotifyOneType DEF Enqueue, TypeOK
<1>3. empty_event!TypeOK' /\ wstate' = wstate
  BY DEF Enqueue, TypeOK, empty_event!Clear
<1> QED
  BY <1>1, <1>2, <1>3 DEF Enqueue, TypeOK

LEMMA NextType ==
    ASSUME TypeOK, [Next]_vars
    PROVE  TypeOK'
<1> USE DEF pool, worker, history, event, empty_event!TypeOK, empty_event!WaitStates,
            WorkerStates, ClientStates
<1>1. ASSUME NEW w \in Workers, Top(w) PROVE TypeOK'
  BY <1>1 DEF Top, TypeOK
<1>2. ASSUME NEW w \in Workers, FindEmpty(w) PROVE TypeOK'
  BY <1>2 DEF FindEmpty, TypeOK
<1>3. ASSUME NEW w \in Workers, SignalEmpty(w) PROVE TypeOK'
  BY <1>3 DEF SignalEmpty, TypeOK, empty_event!Set
<1>4. ASSUME NEW w \in Workers, Sleep(w) PROVE TypeOK'
  BY <1>4 DEF Sleep, TypeOK
<1>5. ASSUME NEW w \in Workers, WakeForNothing(w) PROVE TypeOK'
  BY <1>5 DEF WakeForNothing, TypeOK
<1>6. ASSUME NEW w \in Workers, Take(w) PROVE TypeOK'
  <2>1. Head(tasks) \in Tasks /\ Head(tasks) # NoTask /\ tasks' \in Seq(Tasks)
    BY <1>6, PopType, NamesAssumption DEF Take
  <2>2. late' \in [Workers -> Nat]
    BY <1>6 DEF Take, TypeOK
  <2> QED
    BY <1>6, <2>1, <2>2 DEF Take, TypeOK
<1>7. ASSUME NEW w \in Workers, Begin(w) PROVE TypeOK'
  <2>1. runs' \in [Tasks -> Nat]
    BY <1>7 DEF Begin, TypeOK
  <2> QED
    BY <1>7, <2>1 DEF Begin, TypeOK
<1>8. ASSUME NEW w \in Workers, Finish(w) PROVE TypeOK'
  BY <1>8 DEF Finish, TypeOK
<1>9. ASSUME NEW w \in Workers, CallCount(w) PROVE TypeOK'
  BY <1>9 DEF CallCount, TypeOK
<1>22. ASSUME NEW w \in Workers, Count(w) PROVE TypeOK'
  BY <1>22 DEF Count, TypeOK
<1>10. ASSUME NEW w \in Workers, AddFromTask(w) PROVE TypeOK'
  BY <1>10, EnqueueType DEF AddFromTask
<1>11. ASSUME NEW c \in Clients, AddTask(c) PROVE TypeOK'
  BY <1>11, EnqueueType DEF AddTask
<1>12. ASSUME NEW c \in Clients, CallWait(c) PROVE TypeOK'
  BY <1>12 DEF CallWait, StartWait, TypeOK
<1>13. ASSUME NEW c \in Clients, EnterWait(c) PROVE TypeOK'
  BY <1>13 DEF EnterWait, TypeOK, empty_event!Wait
<1>14. ASSUME NEW c \in Clients, BlockInWait(c) PROVE TypeOK'
  BY <1>14 DEF BlockInWait, TypeOK, empty_event!Park
<1>23. ASSUME NEW c \in Clients, WakeFromWait(c) PROVE TypeOK'
  BY <1>23 DEF WakeFromWait, TypeOK, empty_event!SpuriousWake
<1>15. ASSUME NEW c \in Clients, ReturnFromWait(c) PROVE TypeOK'
  BY <1>15 DEF ReturnFromWait, AfterWait, TypeOK, empty_event!Return
<1>16. ASSUME NEW c \in Clients, NEW n \in Sizes, SetWorkers(c, n) PROVE TypeOK'
  <2>1. n \in 0 .. MaxWorkers
    BY SizesAssumption
  <2>2. CASE Shrink(n)
    <3>1. workers' \in Seq(Workers)
      BY <2>1, <2>2, ShrinkType
    <3>2. detached' \in [Workers -> BOOLEAN] /\ running' \in [Workers -> BOOLEAN]
      BY <2>2 DEF Shrink, TypeOK
    <3>3. wpc' \in [Workers -> WorkerStates]
          /\ \A w \in Workers : wpc'[w] = wpc[w] \/ (wpc[w] = "parked" /\ wpc'[w] = "top")
      BY <2>2 DEF Shrink, AfterNotifyAll, TypeOK
    <3> QED
      BY <1>16, <2>2, <3>1, <3>2, <3>3 DEF SetWorkers, Shrink, TypeOK
  <2>3. CASE Grow(n)
    <3>1. workers' \in Seq(Workers) /\ created' \in 0 .. MaxWorkers
      BY <2>1, <2>3, GrowType
    <3>2. created \in Nat /\ created' \in Nat /\ created' >= created
      BY <2>1, <2>3, GrowType, SizesAssumption DEF TypeOK
    <3>3. \A w \in Workers : wpc'[w] = IF w \in created + 1 .. created' THEN "top" ELSE wpc[w]
      BY <2>3 DEF Grow
    <3>4. wpc' \in [Workers -> WorkerStates]
      BY <2>3 DEF Grow, TypeOK
    <3>5. \A w \in Workers :
            /\ wpc'[w] = "absent" <=> w > created'
            /\ wpc'[w] = wpc[w] \/ (wpc[w] = "absent" /\ wpc'[w] = "top")
      BY <3>2, <3>3 DEF TypeOK, Workers
    <3> QED
      BY <1>16, <2>3, <3>1, <3>4, <3>5 DEF SetWorkers, Grow, TypeOK
  <2> QED
    BY <1>16, <2>2, <2>3 DEF SetWorkers
<1>17. CASE BeginClose
  BY <1>17, NamesAssumption DEF BeginClose, StartWait, TypeOK
<1>18. CASE StopAll
  <2>1. running' \in [Workers -> BOOLEAN]
    BY <1>18 DEF StopAll, TypeOK
  <2>2. wpc' \in [Workers -> WorkerStates]
        /\ \A w \in Workers : wpc'[w] = wpc[w] \/ (wpc[w] = "parked" /\ wpc'[w] = "top")
    BY <1>18 DEF StopAll, AfterNotifyAll, TypeOK
  <2> QED
    BY <1>18, <2>1, <2>2, NamesAssumption DEF StopAll, TypeOK
<1>19. CASE Join
  BY <1>19, HeadTailProperties DEF Join, TypeOK
<1>20. CASE EndClose
  <2>1. tasks' \in Seq(Tasks) /\ discarded' \subseteq Tasks
    BY <1>20, EmptySeq DEF EndClose, TypeOK
  <2> QED
    BY <1>20, <2>1, NamesAssumption DEF EndClose, TypeOK
<1>21. CASE UNCHANGED vars
  BY <1>21 DEF vars, TypeOK
<1> QED
  BY <1>1, <1>2, <1>3, <1>4, <1>5, <1>6, <1>7, <1>8, <1>9, <1>10, <1>11, <1>12, <1>13,
     <1>14, <1>15, <1>16, <1>17, <1>18, <1>19, <1>20, <1>21, <1>22, <1>23
  DEF Next, WorkerStep, ClientStep, CloseStep

(* A worker holds a task exactly within a turn of its loop, and a client is *)
(* inside empty_event.wait exactly in wait() (threadpool.cpp:48-81, 176).  *)
THEOREM TypeCorrect == Spec => []TypeOK
<1> QED
  BY InitType, NextType, PTL DEF Spec

-----------------------------------------------------------------------------
(* Order of the list, and where each task is. *)

(* Until it ends the destructor has dropped nothing. *)
DropsLast == discarded # {} => cpc[Owner] = "done"

IInv ==
    /\ TypeOK
    /\ FifoTasks
    /\ Len(tasks) <= added
    /\ DropsLast
    /\ Accounted

(* The numbers in a list that is in order are an interval. *)
LEMMA OrderedInterval ==
    ASSUME NEW q \in Seq(Tasks), NEW a \in Nat, Len(q) <= a,
           \A i \in DOMAIN q : q[i] = a - Len(q) + i
    PROVE  \A k \in Tasks : k \in {q[i] : i \in DOMAIN q} <=> k \in a - Len(q) + 1 .. a
<1>1. Len(q) \in Nat /\ DOMAIN q = 1 .. Len(q)
  BY LenProperties
<1>2. ASSUME NEW k \in Tasks, NEW i \in DOMAIN q, k = q[i] PROVE k \in a - Len(q) + 1 .. a
  BY <1>1, <1>2
<1>3. ASSUME NEW k \in Tasks, k \in a - Len(q) + 1 .. a PROVE \E i \in DOMAIN q : q[i] = k
  <2>0. k \in Nat
    BY DEF Tasks
  <2>1. k - (a - Len(q)) \in DOMAIN q
    BY <1>1, <1>3, <2>0
  <2>2. q[k - (a - Len(q))] = a - Len(q) + (k - (a - Len(q)))
    BY <2>1
  <2>3. a - Len(q) + (k - (a - Len(q))) = k
    BY <1>1, <2>0
  <2> QED
    BY <2>1, <2>2, <2>3
<1> QED
  BY <1>2, <1>3

LEMMA QueuedInterval ==
    ASSUME TypeOK, FifoTasks, Len(tasks) <= added
    PROVE  \A k \in Tasks : k \in Queued <=> k \in added - Len(tasks) + 1 .. added
<1>1. added \in Nat /\ tasks \in Seq(Tasks)
  BY SizesAssumption DEF TypeOK
<1>2. \A k \in Tasks : k \in {tasks[i] : i \in DOMAIN tasks} <=> k \in added - Len(tasks) + 1 .. added
  BY <1>1, OrderedInterval DEF FifoTasks
<1> QED
  BY <1>2 DEF Queued

(* Adding to the end, and taking from the front, keep the order. *)
LEMMA PushInOrder ==
    ASSUME TypeOK, FifoTasks, Len(tasks) <= added, Enqueue
    PROVE  /\ FifoTasks'
           /\ Len(tasks') = Len(tasks) + 1 /\ Len(tasks') <= added'
<1>1. Len(tasks) \in Nat /\ added \in Nat /\ DOMAIN tasks = 1 .. Len(tasks)
  BY SizesAssumption, LenProperties DEF TypeOK
<1>2. tasks' = Append(tasks, added + 1) /\ added' = added + 1 /\ added + 1 \in Tasks
  BY <1>1, SizesAssumption DEF Enqueue, Tasks, TypeOK
<1>3. /\ Len(tasks') = Len(tasks) + 1
      /\ \A i \in 1 .. Len(tasks) : tasks'[i] = tasks[i]
      /\ tasks'[Len(tasks) + 1] = added + 1
      /\ DOMAIN tasks' = 1 .. Len(tasks')
  BY <1>2, AppendProperties, LenProperties DEF TypeOK
<1>4. ASSUME NEW i \in DOMAIN tasks' PROVE tasks'[i] = added' - Len(tasks') + i
  <2>1. CASE i \in 1 .. Len(tasks)
    BY <1>1, <1>2, <1>3, <2>1 DEF FifoTasks
  <2>2. CASE i = Len(tasks) + 1
    BY <1>1, <1>2, <1>3, <2>2
  <2> QED
    BY <1>1, <1>3, <2>1, <2>2
<1> QED
  BY <1>1, <1>2, <1>3, <1>4 DEF FifoTasks

LEMMA TakeInOrder ==
    ASSUME TypeOK, FifoTasks, Len(tasks) <= added,
           tasks # <<>>, tasks' = Tail(tasks), added' = added
    PROVE  /\ FifoTasks'
           /\ Len(tasks') = Len(tasks) - 1 /\ Len(tasks') <= added'
           /\ Len(tasks) \in Nat \ {0}
           /\ Head(tasks) = added - Len(tasks) + 1
<1>1. Len(tasks) \in Nat \ {0} /\ added \in Nat /\ DOMAIN tasks = 1 .. Len(tasks)
  BY SizesAssumption, LenProperties, EmptySeq DEF TypeOK
<1>2. /\ tasks' \in Seq(Tasks)
      /\ Len(tasks') = Len(tasks) - 1
      /\ \A i \in 1 .. Len(tasks') : tasks'[i] = tasks[i + 1]
  BY HeadTailProperties DEF TypeOK
<1>3. DOMAIN tasks' = 1 .. Len(tasks')
  BY <1>2, LenProperties
<1>4. ASSUME NEW i \in DOMAIN tasks' PROVE tasks'[i] = added' - Len(tasks') + i
  <2>1. i \in Nat /\ i + 1 \in DOMAIN tasks /\ tasks'[i] = tasks[i + 1]
    BY <1>1, <1>2, <1>3
  <2>2. tasks[i + 1] = added - Len(tasks) + (i + 1)
    BY <2>1 DEF FifoTasks
  <2> QED
    BY <1>1, <1>2, <2>1, <2>2
<1>5. Head(tasks) = tasks[1]
  OBVIOUS
<1> QED
  BY <1>1, <1>2, <1>4, <1>5 DEF FifoTasks

LEMMA InitIInv == Init => IInv
<1> SUFFICES ASSUME Init PROVE IInv
  OBVIOUS
<1>1. TypeOK
  BY InitType
<1>2. FifoTasks /\ Len(tasks) <= added /\ Queued = {}
  BY DEF Init, FifoTasks, Queued
<1>3. DropsLast
  BY NamesAssumption DEF Init, DropsLast
<1>4. Popped = {}
  BY DEF Init, Popped
<1>5. \A k \in Tasks : runs[k] = 0 /\ k > added /\ k \notin discarded
  BY DEF Init, Tasks
<1>6. \A k \in Tasks : ~(k <= added)
  BY <1>5, SizesAssumption DEF Tasks, Init
<1>7. Accounted
  BY <1>2, <1>4, <1>5, <1>6 DEF Accounted
<1> QED
  BY <1>1, <1>2, <1>3, <1>7 DEF IInv

(* A step that touches neither the list nor a task that is not yet called  *)
(* leaves every task where it is.                                          *)
LEMMA SamePlaces ==
    ASSUME IInv, tasks' = tasks, added' = added, runs' = runs, discarded' = discarded,
           Popped' = Popped, \A w \in Popped : task'[w] = task[w]
    PROVE  FifoTasks' /\ (Len(tasks) <= added)' /\ Accounted'
<1>1. FifoTasks' /\ (Len(tasks) <= added)' /\ Queued' = Queued
  BY DEF IInv, FifoTasks, Queued
<1>2. Accounted'
  BY <1>1 DEF IInv, Accounted
<1> QED
  BY <1>1, <1>2

LEMMA EnqueueIInv ==
    ASSUME IInv, TypeOK', Enqueue
    PROVE  FifoTasks' /\ (Len(tasks) <= added)' /\ Accounted'
<1>1. /\ FifoTasks' /\ (Len(tasks) <= added)'
      /\ Len(tasks') = Len(tasks) + 1
  BY PushInOrder DEF IInv
<1>2. added' = added + 1 /\ Len(tasks) \in Nat /\ added \in Nat
  BY SizesAssumption, LenProperties DEF IInv, TypeOK, Enqueue
<1>3. \A k \in Tasks : k \in Queued' <=> (k \in Queued \/ k = added + 1)
  <2>1. \A k \in Tasks : k \in Queued <=> k \in added - Len(tasks) + 1 .. added
    BY QueuedInterval DEF IInv
  <2>2. \A k \in Tasks : k \in Queued' <=> k \in added' - Len(tasks') + 1 .. added'
    <3>1. /\ tasks' \in Seq(Tasks) /\ added' \in Nat /\ Len(tasks') <= added'
          /\ \A i \in DOMAIN tasks' : tasks'[i] = added' - Len(tasks') + i
      BY <1>1, <1>2 DEF TypeOK, FifoTasks
    <3>2. \A k \in Tasks : k \in {tasks'[i] : i \in DOMAIN tasks'}
                               <=> k \in added' - Len(tasks') + 1 .. added'
      BY <3>1, OrderedInterval
    <3> QED
      BY <3>2 DEF Queued
  <2> QED
    BY <1>1, <1>2, <2>1, <2>2 DEF Tasks
<1>4. UNCHANGED <<runs, discarded, task>>
  BY DEF Enqueue, history
<1>5. Popped' = Popped
  BY NotifyOneType DEF Enqueue, IInv, Popped
<1>6. Accounted'
  <2> SUFFICES ASSUME NEW k \in Tasks
               PROVE  /\ runs'[k] <= 1
                      /\ \A v, w \in Popped' : task'[v] = k /\ task'[w] = k => v = w
                      /\ (k <= added') <=> (k \in Queued' \/ (\E w \in Popped' : task'[w] = k)
                                              \/ runs'[k] > 0 \/ k \in discarded')
                      /\ ~(k \in Queued' /\ ((\E w \in Popped' : task'[w] = k)
                                              \/ runs'[k] > 0 \/ k \in discarded'))
                      /\ ~((\E w \in Popped' : task'[w] = k) /\ (runs'[k] > 0 \/ k \in discarded'))
                      /\ ~(runs'[k] > 0 /\ k \in discarded')
    BY DEF Accounted
  <2>1. k \in Queued' <=> (k \in Queued \/ k = added + 1)
    BY <1>3
  <2>2. k <= added' <=> (k <= added \/ k = added + 1)
    BY <1>2 DEF Tasks
  <2>3. ~(added + 1 <= added)
    BY <1>2
  <2> QED
    BY <1>4, <1>5, <2>1, <2>2, <2>3 DEF IInv, Accounted
<1> QED
  BY <1>1, <1>6

(* pop_front(): the first of the list goes to the worker. *)
LEMMA TakeIInv ==
    ASSUME IInv, NEW w \in Workers, Take(w)
    PROVE  FifoTasks' /\ (Len(tasks) <= added)' /\ Accounted'
<1> DEFINE h == Head(tasks)
<1>1. /\ FifoTasks' /\ (Len(tasks) <= added)'
      /\ Len(tasks') = Len(tasks) - 1
      /\ Len(tasks) \in Nat \ {0}
      /\ h = added - Len(tasks) + 1
  BY TakeInOrder DEF IInv, Take
<1>2. added' = added /\ added \in Nat /\ tasks' \in Seq(Tasks) /\ h \in Tasks
  BY PopType, SizesAssumption DEF IInv, TypeOK, Take
<1>3. \A k \in Tasks : k \in Queued' <=> (k \in Queued /\ k # h)
  <2>1. \A k \in Tasks : k \in Queued <=> k \in added - Len(tasks) + 1 .. added
    BY QueuedInterval DEF IInv
  <2>2. \A k \in Tasks : k \in Queued' <=> k \in added' - Len(tasks') + 1 .. added'
    <3>1. \A k \in Tasks : k \in {tasks'[i] : i \in DOMAIN tasks'}
                               <=> k \in added' - Len(tasks') + 1 .. added'
      BY <1>1, <1>2, OrderedInterval DEF FifoTasks
    <3> QED
      BY <3>1 DEF Queued
  <2> QED
    BY <1>1, <1>2, <2>1, <2>2 DEF Tasks
<1>4. h \in Queued
  BY <1>1, <1>2, QueuedInterval DEF IInv
<1>5. UNCHANGED <<runs, discarded>>
  BY DEF Take
<1>6. Popped' = Popped \cup {w} /\ w \notin Popped
  BY DEF Take, IInv, TypeOK, Popped
<1>7. task'[w] = h /\ \A v \in Popped : task'[v] = task[v]
  BY <1>6 DEF Take, IInv, TypeOK, Popped
<1>8. ~(\E v \in Popped : task[v] = h) /\ runs[h] = 0 /\ h \notin discarded /\ h <= added
  BY <1>2, <1>4 DEF IInv, Accounted, TypeOK
<1>9. ASSUME NEW k \in Tasks
      PROVE  /\ runs'[k] <= 1
             /\ \A u, v \in Popped' : task'[u] = k /\ task'[v] = k => u = v
             /\ (k <= added') <=> (k \in Queued' \/ (\E v \in Popped' : task'[v] = k)
                                     \/ runs'[k] > 0 \/ k \in discarded')
             /\ ~(k \in Queued' /\ ((\E v \in Popped' : task'[v] = k)
                                     \/ runs'[k] > 0 \/ k \in discarded'))
             /\ ~((\E v \in Popped' : task'[v] = k) /\ (runs'[k] > 0 \/ k \in discarded'))
             /\ ~(runs'[k] > 0 /\ k \in discarded')
  <2>1. CASE k = h
    <3>1. k \notin Queued' /\ (\E v \in Popped' : task'[v] = k) /\ runs'[k] = 0
          /\ k \notin discarded' /\ k <= added'
      BY <1>2, <1>3, <1>5, <1>6, <1>7, <1>8, <2>1
    <3>2. \A u \in Popped' : task'[u] = k => u = w
      BY <1>6, <1>7, <1>8, <2>1
    <3> QED
      BY <3>1, <3>2
  <2>2. CASE k # h
    <3>1. k \in Queued' <=> k \in Queued
      BY <1>3, <2>2
    <3>2. \A v \in Popped' : task'[v] = k <=> v \in Popped /\ task[v] = k
      BY <1>6, <1>7, <2>2
    <3> QED
      BY <1>2, <1>5, <1>6, <3>1, <3>2 DEF IInv, Accounted
  <2> QED
    BY <2>1, <2>2
<1> QED
  BY <1>1, <1>9 DEF Accounted

(* entry.entry(entry.param): the worker's task is called, for the first     *)
(* time.                                                                   *)
LEMMA BeginIInv ==
    ASSUME IInv, NEW w \in Workers, Begin(w)
    PROVE  FifoTasks' /\ (Len(tasks) <= added)' /\ Accounted'
<1> DEFINE h == task[w]
<1>1. FifoTasks' /\ (Len(tasks) <= added)' /\ Queued' = Queued /\ UNCHANGED <<added, discarded, task>>
  BY DEF IInv, Begin, FifoTasks, Queued
<1>2. w \in Popped /\ h \in Tasks /\ Popped' = Popped \ {w}
  BY DEF Begin, IInv, TypeOK, Popped
<1>3. h \notin Queued /\ runs[h] = 0 /\ h \notin discarded /\ h <= added
      /\ \A v \in Popped : task[v] = h => v = w
  BY <1>2 DEF IInv, Accounted, TypeOK
<1>4. runs'[h] = 1 /\ \A k \in Tasks \ {h} : runs'[k] = runs[k]
  BY <1>2, <1>3 DEF Begin, IInv, TypeOK
<1>5. ASSUME NEW k \in Tasks
      PROVE  /\ runs'[k] <= 1
             /\ \A u, v \in Popped' : task'[u] = k /\ task'[v] = k => u = v
             /\ (k <= added') <=> (k \in Queued' \/ (\E v \in Popped' : task'[v] = k)
                                     \/ runs'[k] > 0 \/ k \in discarded')
             /\ ~(k \in Queued' /\ ((\E v \in Popped' : task'[v] = k)
                                     \/ runs'[k] > 0 \/ k \in discarded'))
             /\ ~((\E v \in Popped' : task'[v] = k) /\ (runs'[k] > 0 \/ k \in discarded'))
             /\ ~(runs'[k] > 0 /\ k \in discarded')
  <2>1. CASE k = h
    BY <1>1, <1>2, <1>3, <1>4, <2>1
  <2>2. CASE k # h
    <3>1. \A v \in Workers : v \in Popped' /\ task'[v] = k <=> v \in Popped /\ task[v] = k
      BY <1>1, <1>2, <2>2
    <3>2. Popped \subseteq Workers /\ Popped' \subseteq Workers
      BY DEF Popped
    <3> QED
      BY <1>1, <1>4, <2>2, <3>1, <3>2 DEF IInv, Accounted
  <2> QED
    BY <2>1, <2>2
<1> QED
  BY <1>1, <1>5 DEF Accounted

(* tasks.clear(): what was queued is dropped. *)
LEMMA EndCloseIInv ==
    ASSUME IInv, EndClose
    PROVE  FifoTasks' /\ (Len(tasks) <= added)' /\ Accounted'
<1>1. tasks' = <<>> /\ UNCHANGED <<added, runs, task, wpc>> /\ discarded = {} /\ discarded' = Queued
  BY DEF EndClose, IInv, DropsLast, Queued, worker
<1>2. FifoTasks' /\ (Len(tasks) <= added)' /\ Queued' = {}
  <2>1. added \in Nat
    BY SizesAssumption DEF IInv, TypeOK
  <2> QED
    BY <1>1, <2>1 DEF FifoTasks, Queued
<1>3. Popped' = Popped
  BY <1>1 DEF Popped
<1>4. Accounted'
  BY <1>1, <1>2, <1>3 DEF IInv, Accounted
<1> QED
  BY <1>2, <1>4

LEMMA NextPlaces ==
    ASSUME IInv, TypeOK', [Next]_vars
    PROVE  FifoTasks' /\ (Len(tasks) <= added)' /\ Accounted'
<1> DEFINE Places == FifoTasks /\ Len(tasks) <= added /\ Accounted
<1> USE DEF pool, worker, history
<1>1. ASSUME NEW w \in Workers, Top(w) PROVE Places'
  <2>1. /\ UNCHANGED <<tasks, added, runs, discarded>> /\ Popped' = Popped
        /\ \A v \in Popped : task'[v] = task[v]
    BY <1>1 DEF Top, IInv, TypeOK, Popped
  <2> QED
    BY <2>1, SamePlaces
<1>2. ASSUME NEW w \in Workers, FindEmpty(w) PROVE Places'
  <2>1. /\ UNCHANGED <<tasks, added, runs, discarded>> /\ Popped' = Popped
        /\ \A v \in Popped : task'[v] = task[v]
    BY <1>2 DEF FindEmpty, IInv, TypeOK, Popped
  <2> QED
    BY <2>1, SamePlaces
<1>3. ASSUME NEW w \in Workers, SignalEmpty(w) PROVE Places'
  <2>1. /\ UNCHANGED <<tasks, added, runs, discarded>> /\ Popped' = Popped
        /\ \A v \in Popped : task'[v] = task[v]
    BY <1>3 DEF SignalEmpty, IInv, TypeOK, Popped
  <2> QED
    BY <2>1, SamePlaces
<1>4. ASSUME NEW w \in Workers, Sleep(w) PROVE Places'
  <2>1. /\ UNCHANGED <<tasks, added, runs, discarded>> /\ Popped' = Popped
        /\ \A v \in Popped : task'[v] = task[v]
    BY <1>4 DEF Sleep, IInv, TypeOK, Popped
  <2> QED
    BY <2>1, SamePlaces
<1>5. ASSUME NEW w \in Workers, WakeForNothing(w) PROVE Places'
  <2>1. /\ UNCHANGED <<tasks, added, runs, discarded>> /\ Popped' = Popped
        /\ \A v \in Popped : task'[v] = task[v]
    BY <1>5 DEF WakeForNothing, IInv, TypeOK, Popped
  <2> QED
    BY <2>1, SamePlaces
<1>6. ASSUME NEW w \in Workers, Finish(w) PROVE Places'
  <2>1. /\ UNCHANGED <<tasks, added, runs, discarded>> /\ Popped' = Popped
        /\ \A v \in Popped : task'[v] = task[v]
    BY <1>6 DEF Finish, IInv, TypeOK, Popped
  <2> QED
    BY <2>1, SamePlaces
<1>7. ASSUME NEW w \in Workers, CallCount(w) PROVE Places'
  <2>1. /\ UNCHANGED <<tasks, added, runs, discarded>> /\ Popped' = Popped
        /\ \A v \in Popped : task'[v] = task[v]
    BY <1>7 DEF CallCount, IInv, TypeOK, Popped
  <2> QED
    BY <2>1, SamePlaces
<1>8. ASSUME NEW w \in Workers, Count(w) PROVE Places'
  <2>1. /\ UNCHANGED <<tasks, added, runs, discarded>> /\ Popped' = Popped
        /\ \A v \in Popped : task'[v] = task[v]
    BY <1>8 DEF Count, IInv, TypeOK, Popped
  <2> QED
    BY <2>1, SamePlaces
<1>9. ASSUME NEW c \in Clients, CallWait(c) PROVE Places'
  <2>1. /\ UNCHANGED <<tasks, added, runs, discarded>> /\ Popped' = Popped
        /\ \A v \in Popped : task'[v] = task[v]
    BY <1>9 DEF CallWait, StartWait, IInv, TypeOK, Popped
  <2> QED
    BY <2>1, SamePlaces
<1>10. ASSUME NEW c \in Clients, EnterWait(c) PROVE Places'
  <2>1. /\ UNCHANGED <<tasks, added, runs, discarded>> /\ Popped' = Popped
        /\ \A v \in Popped : task'[v] = task[v]
    BY <1>10 DEF EnterWait, IInv, TypeOK, Popped
  <2> QED
    BY <2>1, SamePlaces
<1>11. ASSUME NEW c \in Clients, BlockInWait(c) PROVE Places'
  <2>1. /\ UNCHANGED <<tasks, added, runs, discarded>> /\ Popped' = Popped
        /\ \A v \in Popped : task'[v] = task[v]
    BY <1>11 DEF BlockInWait, IInv, TypeOK, Popped
  <2> QED
    BY <2>1, SamePlaces
<1>12. ASSUME NEW c \in Clients, WakeFromWait(c) PROVE Places'
  <2>1. /\ UNCHANGED <<tasks, added, runs, discarded>> /\ Popped' = Popped
        /\ \A v \in Popped : task'[v] = task[v]
    BY <1>12 DEF WakeFromWait, IInv, TypeOK, Popped
  <2> QED
    BY <2>1, SamePlaces
<1>13. ASSUME NEW c \in Clients, ReturnFromWait(c) PROVE Places'
  <2>1. /\ UNCHANGED <<tasks, added, runs, discarded>> /\ Popped' = Popped
        /\ \A v \in Popped : task'[v] = task[v]
    BY <1>13 DEF ReturnFromWait, IInv, TypeOK, Popped
  <2> QED
    BY <2>1, SamePlaces
<1>14. ASSUME BeginClose PROVE Places'
  <2>1. /\ UNCHANGED <<tasks, added, runs, discarded>> /\ Popped' = Popped
        /\ \A v \in Popped : task'[v] = task[v]
    BY <1>14 DEF BeginClose, StartWait, IInv, TypeOK, Popped
  <2> QED
    BY <2>1, SamePlaces
<1>15. ASSUME StopAll PROVE Places'
  <2>1. /\ UNCHANGED <<tasks, added, runs, discarded>> /\ Popped' = Popped
        /\ \A v \in Popped : task'[v] = task[v]
    BY <1>15 DEF StopAll, AfterNotifyAll, IInv, TypeOK, Popped
  <2> QED
    BY <2>1, SamePlaces
<1>16. ASSUME Join PROVE Places'
  <2>1. /\ UNCHANGED <<tasks, added, runs, discarded>> /\ Popped' = Popped
        /\ \A v \in Popped : task'[v] = task[v]
    BY <1>16 DEF Join, IInv, TypeOK, Popped
  <2> QED
    BY <2>1, SamePlaces
<1>17. ASSUME UNCHANGED vars PROVE Places'
  <2>1. /\ UNCHANGED <<tasks, added, runs, discarded>> /\ Popped' = Popped
        /\ \A v \in Popped : task'[v] = task[v]
    BY <1>17 DEF vars, IInv, TypeOK, Popped
  <2> QED
    BY <2>1, SamePlaces
<1>18. ASSUME NEW w \in Workers, Take(w) PROVE Places'
  BY <1>18, TakeIInv
<1>19. ASSUME NEW w \in Workers, Begin(w) PROVE Places'
  BY <1>19, BeginIInv
<1>20. ASSUME NEW w \in Workers, AddFromTask(w) PROVE Places'
  BY <1>20, EnqueueIInv DEF AddFromTask
<1>21. ASSUME NEW c \in Clients, AddTask(c) PROVE Places'
  BY <1>21, EnqueueIInv DEF AddTask
<1>22. ASSUME NEW c \in Clients, NEW n \in Sizes, SetWorkers(c, n) PROVE Places'
  <2>1. UNCHANGED <<tasks, added, runs, discarded, task>>
    BY <1>22 DEF SetWorkers
  <2>2. CASE Shrink(n)
    <3>1. Popped' = Popped
      BY <2>2 DEF Shrink, AfterNotifyAll, IInv, TypeOK, Popped
    <3> QED
      BY <2>1, <3>1, SamePlaces
  <2>3. CASE Grow(n)
    <3>1. \A w \in created + 1 .. created + (n - Len(workers)) : w \in Workers => wpc[w] = "absent"
      <4>1. created \in Nat
        BY SizesAssumption DEF IInv, TypeOK
      <4>2. \A w \in Workers : wpc[w] = "absent" <=> w > created
        BY DEF IInv, TypeOK
      <4>3. n \in Int /\ Len(workers) \in Int
        BY SizesAssumption, LenProperties DEF IInv, TypeOK
      <4> QED
        BY <4>1, <4>2, <4>3
    <3>2. Popped' = Popped
      BY <2>3, <3>1 DEF Grow, IInv, TypeOK, Popped
    <3> QED
      BY <2>1, <3>2, SamePlaces
  <2> QED
    BY <1>22, <2>2, <2>3 DEF SetWorkers
<1>23. ASSUME EndClose PROVE Places'
  BY <1>23, EndCloseIInv
<1> QED
  BY <1>1, <1>2, <1>3, <1>4, <1>5, <1>6, <1>7, <1>8, <1>9,
     <1>10, <1>11, <1>12, <1>13, <1>14, <1>15, <1>16, <1>17, <1>18, <1>19, <1>20, <1>21, <1>22, <1>23
  DEF Next, WorkerStep, ClientStep, CloseStep

(* The only step that drops tasks is the last one of the destructor, which  *)
(* no other step of the owner follows.                                     *)
LEMMA NextDrops ==
    ASSUME IInv, [Next]_vars
    PROVE  DropsLast'
<1> USE NamesAssumption DEF pool, worker, history, DropsLast
<1>1. CASE UNCHANGED <<discarded, cpc>>
  BY <1>1 DEF IInv
<1>2. ASSUME NEW c \in Clients, CallWait(c) \/ EnterWait(c) PROVE DropsLast'
  BY <1>2 DEF CallWait, StartWait, EnterWait, IInv, TypeOK
<1>3. ASSUME NEW c \in Clients, ReturnFromWait(c) PROVE DropsLast'
  <2>1. cpc[c] = "waiting" /\ UNCHANGED discarded /\ cpc' = [cpc EXCEPT ![c] = AfterWait]
    BY <1>3 DEF ReturnFromWait, IInv, TypeOK, empty_event!Return
  <2> QED
    BY <2>1 DEF IInv, TypeOK
<1>4. CASE BeginClose \/ StopAll
  BY <1>4 DEF BeginClose, StartWait, StopAll, IInv, TypeOK
<1>5. CASE EndClose
  BY <1>5 DEF EndClose, IInv, TypeOK
<1>6. [Next]_vars => \/ UNCHANGED <<discarded, cpc>>
                    \/ \E c \in Clients : CallWait(c) \/ EnterWait(c) \/ ReturnFromWait(c)
                    \/ BeginClose \/ StopAll \/ EndClose
  BY DEF Next, WorkerStep, ClientStep, CloseStep, vars, Top, FindEmpty, SignalEmpty, Sleep, Take,
         Begin, Finish, Count, CallCount, WakeForNothing, AddFromTask, AddTask, Enqueue,
         BlockInWait, WakeFromWait, SetWorkers, Join
<1> QED
  BY <1>1, <1>2, <1>3, <1>4, <1>5, <1>6

LEMMA NextIInv ==
    ASSUME IInv, [Next]_vars
    PROVE  IInv'
<1>1. TypeOK'
  BY NextType DEF IInv
<1> QED
  BY <1>1, NextPlaces, NextDrops DEF IInv

(* No task is lost before the destructor's last step and none is called     *)
(* twice, whatever the clients, the workers, the resizing and the wake-ups *)
(* (threadpool.cpp:46, 65-73, 98-132).                                     *)
THEOREM EveryTaskAccounted == Spec => []Accounted
<1>1. IInv => Accounted
  BY DEF IInv
<1> QED
  BY <1>1, InitIInv, NextIInv, PTL DEF Spec

(* Tasks are taken in the order they were added (threadpool.cpp:67, 125).  *)
THEOREM TasksInOrder == Spec => []FifoTasks
<1>1. IInv => FifoTasks
  BY DEF IInv
<1> QED
  BY <1>1, InitIInv, NextIInv, PTL DEF Spec
-----------------------------------------------------------------------------
(* The workers. *)

(* The list of workers is the consecutive last of those made: the ones     *)
(* before it were detached, or the destructor has joined them.             *)
Before == created - Len(workers)

InLine ==
    /\ Len(workers) <= created
    /\ \A i \in 1 .. Len(workers) : workers[i] = Before + i

Left ==
    /\ \A w \in Workers : detached[w] => w <= Before
    /\ \A w \in Workers : w <= Before => detached[w] \/ wpc[w] = "gone"
    /\ destroyed => closing /\ workers = <<>>

(* A worker told to stop that has taken a task since is past its last look *)
(* at the list.                                                            *)
Stopping == \A w \in Workers : late[w] = 0 \/ (late[w] = 1 /\ ~running[w] /\ wpc[w] # "take")

(* The destructor is past its wait only once it has begun. *)
Ending == \A c \in Clients : cpc[c] \in {"stopping", "joining", "done"} => closing

WInv == TypeOK /\ InLine /\ Left /\ Stopping /\ Ending

LEMMA InitWInv == Init => WInv
<1> SUFFICES ASSUME Init PROVE WInv
  OBVIOUS
<1>1. TypeOK
  BY InitType
<1>2. Len(workers) = InitialWorkers /\ Before = 0
  BY SizesAssumption DEF Init, Before
<1>3. InLine
  BY <1>2, SizesAssumption DEF Init, InLine
<1>4. Left
  BY <1>2, SizesAssumption DEF Init, Left, Workers
<1>5. Stopping
  BY DEF Init, Stopping
<1>6. Ending
  BY DEF Init, Ending
<1> QED
  BY <1>1, <1>3, <1>4, <1>5, <1>6 DEF WInv

(* Steps that leave the list of workers, and what they were told, alone.   *)
Quiet ==
    /\ UNCHANGED <<workers, created, detached, late>>
    /\ destroyed' => destroyed \/ (closing /\ workers = <<>>)
    /\ closing => closing'
    /\ \A w \in Workers : /\ running'[w] => running[w]
                          /\ wpc[w] = "gone" => wpc'[w] = "gone"
                          /\ wpc'[w] = "take" => wpc[w] = "take" \/ running[w]

LEMMA QuietWInv == ASSUME WInv, Quiet PROVE InLine' /\ Left' /\ Stopping'
<1>1. UNCHANGED Before
  BY DEF Quiet, Before
<1>2. InLine'
  BY <1>1 DEF Quiet, WInv, InLine
<1>3. Left'
  BY <1>1 DEF Quiet, WInv, Left
<1>4. Stopping'
  BY DEF Quiet, WInv, Stopping
<1> QED
  BY <1>2, <1>3, <1>4

LEMMA Woken ==
    ASSUME TypeOK, wpc' = AfterNotifyAll
    PROVE  \A w \in Workers : wpc'[w] = wpc[w] \/ (wpc[w] = "parked" /\ wpc'[w] = "top")
BY DEF AfterNotifyAll, TypeOK

LEMMA WpcKept ==
    ASSUME UNCHANGED <<workers, created, detached, late, running, destroyed>>, closing => closing',
           \A w \in Workers : wpc'[w] = wpc[w] \/ (wpc[w] = "parked" /\ wpc'[w] = "top")
    PROVE  Quiet
BY DEF Quiet

LEMMA ShrinkWInv ==
    ASSUME WInv, NEW n \in 0 .. MaxWorkers, Shrink(n), UNCHANGED <<closing, destroyed, late>>, ~closing
    PROVE  InLine' /\ Left' /\ Stopping'
<1> DEFINE len == Len(workers)
<1>1. len \in Nat /\ n \in Nat /\ n < len /\ len <= created /\ created \in Nat /\ workers \in Seq(Workers)
  BY SizesAssumption, LenProperties DEF WInv, TypeOK, Shrink, InLine
<1>2. /\ workers' = SubSeq(workers, len - n + 1, len) /\ created' = created
      /\ \A w \in Workers : detached'[w] <=> detached[w] \/ w \in Front(len - n)
      /\ \A w \in Workers : running'[w] => running[w]
      /\ wpc' = AfterNotifyAll
  BY DEF Shrink, WInv, TypeOK
<1>3. \A i \in len - n + 1 .. len : workers[i] \in Workers
  BY <1>1, ElementOfSeq
<1>4. Len(workers') = n /\ \A i \in 1 .. n : workers'[i] = workers[len - n + i]
  <2>1. len - n + 1 \in Int /\ len \in Int /\ len - n + 1 <= len + 1 /\ len - (len - n + 1) + 1 = n
    BY <1>1
  <2>2. /\ Len(SubSeq(workers, len - n + 1, len)) = IF len - n + 1 <= len THEN len - (len - n + 1) + 1 ELSE 0
        /\ \A i \in 1 .. len - (len - n + 1) + 1 :
              SubSeq(workers, len - n + 1, len)[i] = workers[len - n + 1 + i - 1]
    BY <1>3, <2>1, SubSeqProperties
  <2>3. Len(workers') = n
    BY <1>1, <1>2, <2>2
  <2>4. ASSUME NEW i \in 1 .. n PROVE workers'[i] = workers[len - n + i]
    <3>1. len - n + 1 + i - 1 = len - n + i
      BY <1>1
    <3> QED
      BY <1>2, <2>1, <2>2, <3>1
  <2> QED
    BY <2>3, <2>4
<1>5. Before \in Nat /\ Before = created - len /\ Before' = created - n
  BY <1>1, <1>2, <1>4 DEF Before
<1>6. \A i \in 1 .. len : workers[i] = Before + i
  BY DEF WInv, InLine
<1>7. InLine'
  BY <1>1, <1>2, <1>4, <1>5, <1>6 DEF InLine
<1>8. ASSUME NEW w \in Workers PROVE w \in Front(len - n) <=> w \in Before + 1 .. Before + (len - n)
  <2>1. w \in Nat
    BY DEF Workers
  <2>2. ASSUME w \in Before + 1 .. Before + (len - n) PROVE w \in Front(len - n)
    <3>1. w - Before \in 1 .. len - n /\ workers[w - Before] = w
      BY <1>1, <1>5, <1>6, <2>1, <2>2
    <3> QED
      BY <3>1 DEF Front
  <2>3. ASSUME w \in Front(len - n) PROVE w \in Before + 1 .. Before + (len - n)
    BY <1>1, <1>5, <1>6, <2>3 DEF Front
  <2> QED
    BY <2>2, <2>3
<1>9. \A w \in Workers : wpc'[w] = wpc[w] \/ (wpc[w] = "parked" /\ wpc'[w] = "top")
  BY <1>2, Woken DEF WInv
<1>10. Left'
  <2>1. \A w \in Workers : detached'[w] => w <= Before'
    BY <1>1, <1>2, <1>5, <1>8 DEF WInv, Left, Workers
  <2>2. \A w \in Workers : w <= Before' => detached'[w] \/ wpc'[w] = "gone"
    BY <1>1, <1>2, <1>5, <1>8, <1>9 DEF WInv, Left, Workers
  <2>3. ~destroyed'
    BY DEF WInv, Left
  <2> QED
    BY <2>1, <2>2, <2>3 DEF Left
<1>11. Stopping'
  BY <1>2, <1>9 DEF WInv, Stopping
<1> QED
  BY <1>7, <1>10, <1>11

LEMMA GrowWInv ==
    ASSUME WInv, NEW n \in 0 .. MaxWorkers, Grow(n), UNCHANGED <<closing, destroyed, late>>, ~closing
    PROVE  InLine' /\ Left' /\ Stopping'
<1> DEFINE len == Len(workers)
           more == n - len
           new == [i \in 1 .. more |-> created + i]
<1>1. len \in Nat /\ n \in Nat /\ more \in Nat \ {0} /\ len <= created /\ created \in Nat /\ workers \in Seq(Workers)
  BY SizesAssumption, LenProperties DEF WInv, TypeOK, Grow, InLine
<1>2. /\ workers' = workers \o new /\ created' = created + more /\ created + more <= MaxWorkers
      /\ UNCHANGED <<detached, running>>
      /\ \A w \in Workers : wpc'[w] = IF w \in created + 1 .. created + more THEN "top" ELSE wpc[w]
  BY DEF Grow
<1>3. new \in Seq(Workers) /\ Len(new) = more
  <2>1. \A i \in 1 .. more : created + i \in Workers
    BY <1>1, <1>2, SizesAssumption DEF Workers
  <2>2. new \in Seq(Workers)
    BY <1>1, <2>1, IsASeq
  <2> QED
    BY <1>1, <2>2
<1>4. /\ Len(workers') = len + more
      /\ \A i \in 1 .. len + more : i <= len => workers'[i] = workers[i]
      /\ \A i \in 1 .. len + more : ~(i <= len) => workers'[i] = new[i - len]
  BY <1>1, <1>2, <1>3, ConcatProperties
<1>5. Before \in Nat /\ Before = created - len /\ Before' = Before
  BY <1>1, <1>2, <1>4 DEF Before
<1>6. InLine'
  <2>1. ASSUME NEW i \in 1 .. len + more PROVE workers'[i] = Before + i
    <3>1. CASE i <= len
      <4>1. workers'[i] = workers[i] /\ i \in 1 .. len
        BY <1>1, <1>4, <3>1
      <4> QED
        BY <4>1 DEF WInv, InLine
    <3>2. CASE ~(i <= len)
      <4>1. i - len \in 1 .. more /\ new[i - len] = created + (i - len)
        BY <1>1, <3>2
      <4> QED
        <5>1. workers'[i] = new[i - len]
          BY <1>4, <3>2
        <5> QED
          BY <1>1, <1>5, <4>1, <5>1
    <3> QED
      BY <3>1, <3>2
  <2> QED
    BY <1>1, <1>2, <1>4, <1>5, <2>1 DEF InLine
<1>7. Left'
  BY <1>1, <1>2, <1>5 DEF WInv, Left, Workers
<1>8. Stopping'
  BY <1>1, <1>2 DEF WInv, Stopping
<1> QED
  BY <1>6, <1>7, <1>8

LEMMA JoinWInv == ASSUME WInv, Join PROVE InLine' /\ Left' /\ Stopping'
<1> DEFINE len == Len(workers)
<1>1. len \in Nat \ {0} /\ len <= created /\ created \in Nat /\ workers \in Seq(Workers) /\ workers # <<>>
  BY SizesAssumption, LenProperties, EmptySeq DEF WInv, TypeOK, Join, InLine
<1>2. /\ workers' = Tail(workers) /\ wpc[Head(workers)] = "gone"
      /\ UNCHANGED <<created, detached, running, wpc, late, closing, destroyed>>
  BY DEF Join, worker, history
<1>3. Head(workers) = Before + 1
  BY <1>1 DEF WInv, InLine
<1>4. Len(workers') = len - 1 /\ \A i \in 1 .. len - 1 : workers'[i] = workers[i + 1]
  BY <1>1, <1>2
<1>5. Before \in Nat /\ Before = created - len /\ Before' = Before + 1
  BY <1>1, <1>2, <1>4 DEF Before
<1>6. InLine'
  BY <1>1, <1>2, <1>4, <1>5 DEF WInv, InLine
<1>7. Left'
  BY <1>1, <1>2, <1>3, <1>5 DEF WInv, Left, Workers
<1>8. Stopping'
  BY <1>2 DEF WInv, Stopping
<1> QED
  BY <1>6, <1>7, <1>8

LEMMA TakeWInv ==
    ASSUME WInv, NEW v \in Workers, Take(v)
    PROVE  InLine' /\ Left' /\ Stopping'
<1>1. /\ wpc[v] = "take" /\ UNCHANGED <<workers, created, detached, running, closing, destroyed>>
      /\ \A w \in Workers \ {v} : wpc'[w] = wpc[w] /\ late'[w] = late[w]
      /\ wpc'[v] = "popped" /\ late'[v] = IF running[v] THEN late[v] ELSE late[v] + 1
  BY DEF Take, pool, WInv, TypeOK
<1>2. UNCHANGED Before
  BY <1>1 DEF Before
<1>3. InLine'
  BY <1>1, <1>2 DEF WInv, InLine
<1>4. Left'
  BY <1>1, <1>2 DEF WInv, Left
<1>5. Stopping'
  BY <1>1 DEF WInv, Stopping
<1> QED
  BY <1>3, <1>4, <1>5

LEMMA NextWInv == ASSUME WInv, [Next]_vars PROVE WInv'
<1> USE NamesAssumption DEF pool, worker, history, event
<1>1. TypeOK'
  BY NextType DEF WInv
<1>2. ASSUME NEW w \in Workers, Top(w) PROVE Quiet
  BY <1>2 DEF Top, Quiet, WInv, TypeOK
<1>3. ASSUME NEW w \in Workers, FindEmpty(w) \/ SignalEmpty(w) \/ Sleep(w) \/ WakeForNothing(w) PROVE Quiet
  BY <1>3 DEF FindEmpty, SignalEmpty, Sleep, WakeForNothing, Quiet, WInv, TypeOK
<1>4. ASSUME NEW w \in Workers, Begin(w) \/ Finish(w) \/ CallCount(w) \/ Count(w) PROVE Quiet
  BY <1>4 DEF Begin, Finish, CallCount, Count, Quiet, WInv, TypeOK
<1>5. ASSUME Enqueue PROVE Quiet
  <2>1. \A w \in Workers : wpc'[w] = wpc[w] \/ (wpc[w] = "parked" /\ wpc'[w] = "top")
    BY <1>5, NotifyOneType DEF Enqueue, WInv
  <2> QED
    BY <1>5, <2>1, WpcKept DEF Enqueue
<1>6. ASSUME NEW c \in Clients, ClientStep(c) \/ WakeFromWait(c) \/ CallWait(c) PROVE Quiet
  <2>1. UNCHANGED <<workers, created, detached, late, running, destroyed, closing, wpc>>
    BY <1>6 DEF ClientStep, EnterWait, BlockInWait, ReturnFromWait, WakeFromWait, CallWait, StartWait
  <2> QED
    BY <2>1, WpcKept
<1>7. ASSUME BeginClose PROVE Quiet
  BY <1>7, WpcKept DEF BeginClose, StartWait
<1>8. ASSUME StopAll PROVE Quiet
  <2>1. /\ UNCHANGED <<workers, created, detached, late, closing, destroyed>> /\ wpc' = AfterNotifyAll
        /\ \A w \in Workers : running'[w] => running[w]
    BY <1>8 DEF StopAll, WInv, TypeOK
  <2> QED
    <3>1. \A w \in Workers : wpc'[w] = wpc[w] \/ (wpc[w] = "parked" /\ wpc'[w] = "top")
      BY <2>1, Woken DEF WInv
    <3> QED
      BY <2>1, <3>1 DEF Quiet, WInv, TypeOK
<1>9. ASSUME EndClose PROVE Quiet
  <2>1. closing /\ workers = <<>>
    BY <1>9 DEF EndClose, WInv, Ending
  <2> QED
    BY <1>9, <2>1 DEF EndClose, Quiet, WInv, TypeOK
<1>10. ASSUME UNCHANGED vars PROVE Quiet
  BY <1>10, WpcKept DEF vars
<1>11. ASSUME NEW c \in Clients, NEW n \in Sizes, SetWorkers(c, n) PROVE InLine' /\ Left' /\ Stopping'
  <2>1. n \in 0 .. MaxWorkers /\ ~closing /\ (Shrink(n) \/ Grow(n)) /\ UNCHANGED <<closing, destroyed, late>>
    BY <1>11, SizesAssumption DEF SetWorkers
  <2> QED
    BY <2>1, ShrinkWInv, GrowWInv
<1>12. Ending'
  <2>1. CASE UNCHANGED <<cpc, closing>>
    BY <2>1 DEF WInv, Ending
  <2>2. ASSUME NEW c \in Clients, CallWait(c) \/ EnterWait(c) PROVE Ending'
    BY <2>2 DEF CallWait, StartWait, EnterWait, WInv, TypeOK, Ending
  <2>3. ASSUME NEW c \in Clients, ReturnFromWait(c) PROVE Ending'
    BY <2>3 DEF ReturnFromWait, AfterWait, WInv, TypeOK, Ending
  <2>4. CASE BeginClose
    BY <2>4 DEF BeginClose, StartWait, Ending
  <2>5. CASE StopAll \/ EndClose
    BY <2>5 DEF StopAll, EndClose, WInv, TypeOK, Ending
  <2>6. [Next]_vars => \/ UNCHANGED <<cpc, closing>>
                      \/ \E c \in Clients : CallWait(c) \/ EnterWait(c) \/ ReturnFromWait(c)
                      \/ BeginClose \/ StopAll \/ EndClose
    BY DEF Next, WorkerStep, ClientStep, CloseStep, vars, Top, FindEmpty, SignalEmpty, Sleep, Take,
           Begin, Finish, Count, CallCount, WakeForNothing, AddFromTask, AddTask, Enqueue,
           BlockInWait, WakeFromWait, SetWorkers, Join
  <2> QED
    BY <2>1, <2>2, <2>3, <2>4, <2>5, <2>6
<1>13. Quiet \/ Join \/ (\E w \in Workers : Take(w)) \/ \E c \in Clients, n \in Sizes : SetWorkers(c, n)
  <2>1. \/ \E w \in Workers : WorkerStep(w) \/ WakeForNothing(w) \/ CallCount(w)
        \/ \E c \in Clients : ClientStep(c) \/ WakeFromWait(c) \/ CallWait(c) \/ \E n \in Sizes : SetWorkers(c, n)
        \/ Enqueue \/ BeginClose \/ StopAll \/ Join \/ EndClose \/ UNCHANGED vars
    BY DEF Next, CloseStep, AddTask, AddFromTask
  <2>2. \A w \in Workers : WorkerStep(w) \/ WakeForNothing(w) \/ CallCount(w) => Quiet \/ Take(w)
    BY <1>2, <1>3, <1>4 DEF WorkerStep
  <2> QED
    BY <1>5, <1>6, <1>7, <1>8, <1>9, <1>10, <2>1, <2>2
<1>14. InLine' /\ Left' /\ Stopping'
  BY <1>11, <1>13, QuietWInv, JoinWInv, TakeWInv
<1> QED
  BY <1>1, <1>12, <1>14 DEF WInv

LEMMA WorkersInv == Spec => []WInv
<1> QED
  BY InitWInv, NextWInv, PTL DEF Spec

(* A worker told to stop takes at most the one task it was about to take   *)
(* (threadpool.cpp:53).                                                    *)
THEOREM StoppedWorkersStop == Spec => []StopsSoon
<1>1. WInv => StopsSoon
  <2> SUFFICES ASSUME WInv, NEW w \in Workers PROVE late[w] <= 1
    BY DEF StopsSoon
  <2>1. late[w] = 0 \/ late[w] = 1
    BY DEF WInv, Stopping
  <2> QED
    BY <2>1
<1> QED
  BY <1>1, WorkersInv, PTL

(* The destructor deletes the workers of the list, each once, and none of  *)
(* them is detached and deletes itself (threadpool.cpp:42-44, 76-80).      *)
THEOREM WorkersDeletedOnce == Spec => []DeletedOnce
<1>1. WInv => DeletedOnce
  <2> SUFFICES ASSUME WInv PROVE DeletedOnce
    OBVIOUS
  <2>1. Len(workers) \in Nat /\ DOMAIN workers = 1 .. Len(workers) /\ created \in Nat /\ Len(workers) <= created
    BY SizesAssumption, LenProperties DEF WInv, TypeOK, InLine
  <2>2. Before \in Nat /\ \A i \in 1 .. Len(workers) : workers[i] = Before + i /\ workers[i] \in Workers
    BY <2>1, ElementOfSeq DEF Before, WInv, TypeOK, InLine
  <2>3. \A w \in Listed : ~detached[w]
    BY <2>1, <2>2 DEF Listed, WInv, Left
  <2> QED
    BY <2>1, <2>2, <2>3 DEF DeletedOnce
<1> QED
  BY <1>1, WorkersInv, PTL

(* When the destructor has ended, every worker it was to join has ended    *)
(* (threadpool.cpp:42-44).                                                 *)
THEOREM NoWorkerOutlivesPool == Spec => []NoUseAfterDestroy
<1>1. WInv => NoUseAfterDestroy
  <2> SUFFICES ASSUME WInv, destroyed, NEW w \in Workers, wpc[w] \in UsesPool
              PROVE  detached[w]
    BY DEF NoUseAfterDestroy
  <2>1. w <= created
    BY DEF WInv, TypeOK, UsesPool, Workers
  <2>2. Before = created
    BY SizesAssumption DEF WInv, Left, Before, TypeOK
  <2> QED
    BY <2>1, <2>2 DEF WInv, Left, UsesPool
<1> QED
  BY <1>1, WorkersInv, PTL

(***************************************************************************)
(* The event of the pool                                                   *)
(***************************************************************************)
\* A set() releases some of those that wait (sem.cpp:24-33).
LEMMA SetReleases ==
    ASSUME TypeOK, empty_event!Set
    PROVE  empty_event!Promise!Set
<1> DEFINE waiting  == {t \in Clients : wstate[t] # "out"}
           released == {t \in Clients : wstate[t] = "woken"}
           woken    == IF val_isset THEN {} ELSE {t \in Clients : wstate[t] = "parked"}
<1>1. woken \in SUBSET waiting
  OBVIOUS
<1>2. released' = released \cup woken /\ waiting' = waiting
  BY DEF TypeOK, empty_event!TypeOK, empty_event!WaitStates, empty_event!Set
<1> QED
  BY <1>1, <1>2 DEF empty_event!Set, empty_event!Promise!Set

\* A clear() is one of the promise (sem.cpp:65-68).
LEMMA ClearClears == empty_event!Clear => empty_event!Promise!Clear
  BY DEF empty_event!Clear, empty_event!Promise!Clear

\* The end of a wait() is a true answer or a false one (sem.cpp:34-64).
LEMMA ReturnLeaves ==
    ASSUME TypeOK, NEW t \in Clients, empty_event!Return(t)
    PROVE  empty_event!Promise!LeaveTrue(t) \/ empty_event!Promise!LeaveFalse(t)
<1> USE DEF TypeOK, empty_event!TypeOK, empty_event!WaitStates, empty_event!Return
<1>1. CASE wstate[t] = "woken"
  BY <1>1 DEF empty_event!Promise!LeaveTrue
<1>2. CASE wstate[t] = "expired"
  BY <1>2 DEF empty_event!Promise!LeaveFalse
<1> QED
  BY <1>1, <1>2

\* Each step of the pool is at most one step of empty_event
\* (threadpool.cpp:34-182).
LEMMA EventStep ==
    ASSUME TypeOK, [Next]_vars
    PROVE  [empty_event!Promise!Next]_empty_event!Promise!vars
<1> USE DEF TypeOK, empty_event!TypeOK, empty_event!WaitStates, empty_event!Promise!vars
<1>0. ASSUME UNCHANGED event PROVE UNCHANGED empty_event!Promise!vars
  BY <1>0 DEF event
<1>1. ASSUME NEW w \in Workers, WorkerStep(w)
      PROVE  empty_event!Promise!Set \/ UNCHANGED empty_event!Promise!vars
  <2>1. empty_event!Set \/ UNCHANGED event
    BY <1>1 DEF WorkerStep, Top, FindEmpty, SignalEmpty, Sleep, Take, Begin, Finish, Count
  <2> QED
    BY <1>0, <2>1, SetReleases
<1>2. ASSUME Enqueue
      PROVE  empty_event!Promise!Clear \/ UNCHANGED empty_event!Promise!vars
  <2>1. empty_event!Clear \/ UNCHANGED event
    BY <1>2 DEF Enqueue
  <2> QED
    BY <1>0, <2>1, ClearClears
<1>3. ASSUME NEW c \in Clients, EnterWait(c)
      PROVE  empty_event!Promise!Enter(c, FALSE)
  BY <1>3 DEF EnterWait, empty_event!Wait, empty_event!Promise!Enter
<1>4. ASSUME NEW c \in Clients, BlockInWait(c) PROVE UNCHANGED empty_event!Promise!vars
  BY <1>4 DEF BlockInWait, empty_event!Park
<1>5. ASSUME NEW c \in Clients, WakeFromWait(c)
      PROVE  empty_event!Promise!ReleaseForNothing(c)
  BY <1>5 DEF WakeFromWait, empty_event!SpuriousWake, empty_event!Promise!ReleaseForNothing
<1>6. ASSUME NEW c \in Clients, ReturnFromWait(c)
      PROVE  empty_event!Promise!LeaveTrue(c) \/ empty_event!Promise!LeaveFalse(c)
  BY <1>6, ReturnLeaves DEF ReturnFromWait
<1>7. ASSUME \/ \E w \in Workers : WakeForNothing(w) \/ CallCount(w)
             \/ \E c \in Clients : CallWait(c) \/ \E n \in Sizes : SetWorkers(c, n)
             \/ BeginClose \/ CloseStep
             \/ UNCHANGED vars
      PROVE  UNCHANGED empty_event!Promise!vars
  <2>1. UNCHANGED event
    BY <1>7 DEF WakeForNothing, CallCount, CallWait, StartWait, SetWorkers, BeginClose,
                CloseStep, StopAll, Join, EndClose, vars
  <2> QED
    BY <1>0, <2>1
<1> HIDE DEF TypeOK, empty_event!Promise!vars
<1> QED
  BY <1>1, <1>2, <1>3, <1>4, <1>5, <1>6, <1>7
     DEF Next, ClientStep, AddTask, AddFromTask, empty_event!Promise!Next

(* Whatever clients, workers and resizing do, the pool uses empty_event    *)
(* within the event's promise: a client goes on from empty_event.wait()    *)
(* only if it found the event set, or was released by a set() of a worker  *)
(* or for no reason, during its wait() or destructor (threadpool.cpp:35,   *)
(* 57-62, 113-117, 176-182).                                               *)
THEOREM EventKeepsPromise == Spec => empty_event!ImplementsPromise
<1>1. Init => empty_event!Promise!Init
  BY DEF Init, empty_event!Init, empty_event!Promise!Init
<1>2. TypeOK /\ [Next]_vars => [empty_event!Promise!Next]_empty_event!Promise!vars
  BY EventStep
<1> QED
  BY <1>1, <1>2, TypeCorrect, PTL
     DEF Spec, empty_event!ImplementsPromise, empty_event!Promise!Spec
=============================================================================
