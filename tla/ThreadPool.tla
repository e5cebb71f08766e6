------------------------------ MODULE ThreadPool ------------------------------
(***************************************************************************)
(* ThreadPool of src/src/threadpool.cpp: workers that take tasks from a    *)
(* list, clients that add tasks, wait, resize the pool, and the owner that *)
(* destroys it.                                                            *)
(*                                                                         *)
(* mtx guards the list of tasks, and each section under it is one step.    *)
(* self_mtx guards the list of workers; the destructor holds it while it   *)
(* joins, so it is a variable.  cond_var is the set of parked workers; a    *)
(* worker blocks on it with a mutex of its own, after it has released mtx   *)
(* and set empty_event, and these are three steps.                         *)
(***************************************************************************)
EXTENDS Naturals, Sequences

CONSTANTS
    Clients,        \* the threads that use the pool from outside
    Owner,          \* the one that constructs and destroys it
    InitialWorkers, \* the argument of the constructor
    Sizes,          \* the arguments set_workers() may be called with
    MaxWorkers,     \* bound: how many Worker objects are ever made
    MaxTasks,       \* bound: how many tasks are ever added
    TasksAdd,       \* whether a task may call add_task()
    TasksCount,     \* whether a task may call count_freeworkers() or busy()
    Spurious,       \* whether a condition variable may wake for no reason
    NoThread,       \* the owner of a mutex that is free
    NoTask          \* what a worker holds between tasks

Workers == 1 .. MaxWorkers
Tasks == 1 .. MaxTasks

ASSUME SizesAssumption ==
    /\ MaxWorkers \in Nat /\ InitialWorkers \in 0 .. MaxWorkers
    /\ Sizes \subseteq 0 .. MaxWorkers
    /\ MaxTasks \in Nat
ASSUME NamesAssumption ==
    /\ Owner \in Clients
    /\ NoThread \notin Clients
    /\ NoTask \notin Tasks
ASSUME FlagsAssumption == {TasksAdd, TasksCount, Spurious} \subseteq BOOLEAN

VARIABLES
    tasks,          \* the list of tasks
    workers,        \* the list of workers
    self_mtx,       \* the owner of self_mtx between steps
    val_isset, wstate, limited,     \* empty_event
    wpc,            \* where each worker is in worker_main()
    running, detached, is_free,     \* the fields of each Worker
    task,           \* the entry each worker holds
    cpc,            \* where each client is in wait() or ~ThreadPool()
    closing,        \* ~ThreadPool() has begun
    destroyed,      \* ~ThreadPool() has ended
    created,        \* history: the Worker objects made so far are 1 .. created
    added,          \* history: the tasks added so far are 1 .. added
    runs,           \* history: how often each task has been called
    discarded,      \* history: the tasks dropped by ~ThreadPool()
    late            \* history: tasks a worker took after it was told to stop

event == <<val_isset, wstate, limited>>
worker == <<wpc, running, detached, is_free, task>>
pool == <<workers, self_mtx, cpc, closing, destroyed, created>>
history == <<runs, discarded, late>>
vars == <<tasks, workers, self_mtx, event, worker, cpc, closing, destroyed,
          created, added, history>>

empty_event == INSTANCE Event WITH
    Threads <- Clients,
    Spurious <- IF Spurious THEN Clients ELSE {}

(* worker_main(): "top", before the test of running; "take", before mtx;    *)
(* "empty", saw no task; "sleepy", has set empty_event; "parked", blocked;  *)
(* "popped", holds a task; "running", in the task; "counting", the task is  *)
(* in count_freeworkers() or busy(); "gone", the thread has ended.         *)
WorkerStates ==
    {"absent", "top", "take", "empty", "sleepy", "parked", "popped", "running", "counting", "gone"}

(* Clients: "entering", wait() saw a task; "waiting", in empty_event.wait;  *)
(* the owner in the destructor: "stopping", then "joining", then "done".   *)
ClientStates == {"idle", "entering", "waiting", "stopping", "joining", "done"}

Parked == {w \in Workers : wpc[w] = "parked"}

Init ==
    /\ tasks = <<>>
    /\ workers = [i \in 1 .. InitialWorkers |-> i]
    /\ self_mtx = NoThread
    /\ empty_event!Init
    /\ wpc = [w \in Workers |-> IF w <= InitialWorkers THEN "top" ELSE "absent"]
    /\ running = [w \in Workers |-> TRUE]
    /\ detached = [w \in Workers |-> FALSE]
    /\ is_free = [w \in Workers |-> TRUE]
    /\ task = [w \in Workers |-> NoTask]
    /\ cpc = [c \in Clients |-> "idle"]
    /\ closing = FALSE
    /\ destroyed = FALSE
    /\ created = InitialWorkers
    /\ added = 0
    /\ runs = [k \in Tasks |-> 0]
    /\ discarded = {}
    /\ late = [w \in Workers |-> 0]

-----------------------------------------------------------------------------
(* add_task() *)

(* cond_var.notify_one() and notify_all(). *)
NotifyOne ==
    \/ /\ Parked = {}
       /\ UNCHANGED wpc
    \/ \E w \in Parked : wpc' = [wpc EXCEPT ![w] = "top"]

AfterNotifyAll == [w \in Workers |-> IF wpc[w] = "parked" THEN "top" ELSE wpc[w]]

(* Deviation: a list that is filled at the end it is taken from. *)
EnqueueInFront ==
    /\ added < MaxTasks
    /\ added' = added + 1
    /\ tasks' = <<added + 1>> \o tasks
    /\ IF tasks = <<>> THEN NotifyOne /\ empty_event!Clear
                       ELSE UNCHANGED <<wpc, event>>
    /\ UNCHANGED <<pool, running, detached, is_free, task, history>>

(* add_task(): only a task added to the empty list notifies a worker.      *)
Enqueue ==
    /\ added < MaxTasks
    /\ added' = added + 1
    /\ tasks' = Append(tasks, added + 1)
    /\ IF tasks = <<>> THEN NotifyOne /\ empty_event!Clear
                       ELSE UNCHANGED <<wpc, event>>
    /\ UNCHANGED <<pool, running, detached, is_free, task, history>>

AddTask(c) ==
    /\ cpc[c] = "idle"
    /\ ~closing
    /\ Enqueue

(* A task that adds a task (swpan, async) from inside a worker. *)
AddFromTask(w) ==
    /\ TasksAdd
    /\ wpc[w] = "running"
    /\ Enqueue

-----------------------------------------------------------------------------
(* worker_main() *)

(* Deviations: a loop that does not look at running, and one that takes     *)
(* the last task for no task.                                              *)
TopForEver(w) ==
    /\ wpc[w] = "top"
    /\ wpc' = [wpc EXCEPT ![w] = "take"]
    /\ UNCHANGED <<tasks, pool, event, running, detached, is_free, task, added, history>>

FindEmptyTooSoon(w) ==
    /\ wpc[w] = "take"
    /\ Len(tasks) <= 1
    /\ wpc' = [wpc EXCEPT ![w] = "empty"]
    /\ UNCHANGED <<tasks, pool, event, running, detached, is_free, task, added, history>>

(* The test of the loop; a detached worker deletes itself at the end.      *)
Top(w) ==
    /\ wpc[w] = "top"
    /\ wpc' = [wpc EXCEPT ![w] = IF running[w] THEN "take" ELSE "gone"]
    /\ UNCHANGED <<tasks, pool, event, running, detached, is_free, task, added, history>>

FindEmpty(w) ==
    /\ wpc[w] = "take"
    /\ tasks = <<>>
    /\ wpc' = [wpc EXCEPT ![w] = "empty"]
    /\ UNCHANGED <<tasks, pool, event, running, detached, is_free, task, added, history>>

SignalEmpty(w) ==
    /\ wpc[w] = "empty"
    /\ empty_event!Set
    /\ wpc' = [wpc EXCEPT ![w] = "sleepy"]
    /\ UNCHANGED <<tasks, pool, running, detached, is_free, task, added, history>>

Sleep(w) ==
    /\ wpc[w] = "sleepy"
    /\ wpc' = [wpc EXCEPT ![w] = "parked"]
    /\ UNCHANGED <<tasks, pool, event, running, detached, is_free, task, added, history>>

WakeForNothing(w) ==
    /\ Spurious
    /\ wpc[w] = "parked"
    /\ wpc' = [wpc EXCEPT ![w] = "top"]
    /\ UNCHANGED <<tasks, pool, event, running, detached, is_free, task, added, history>>

(* Deviation: front() without pop_front(). *)
TakeKeepsEntry(w) ==
    /\ wpc[w] = "take"
    /\ tasks # <<>>
    /\ task' = [task EXCEPT ![w] = Head(tasks)]
    /\ wpc' = [wpc EXCEPT ![w] = "popped"]
    /\ late' = [late EXCEPT ![w] = IF running[w] THEN @ ELSE @ + 1]
    /\ UNCHANGED <<tasks, pool, event, running, detached, is_free, added, runs, discarded>>

Take(w) ==
    /\ wpc[w] = "take"
    /\ tasks # <<>>
    /\ task' = [task EXCEPT ![w] = Head(tasks)]
    /\ tasks' = Tail(tasks)
    /\ wpc' = [wpc EXCEPT ![w] = "popped"]
    /\ late' = [late EXCEPT ![w] = IF running[w] THEN @ ELSE @ + 1]
    /\ UNCHANGED <<pool, event, running, detached, is_free, added, runs, discarded>>

Begin(w) ==
    /\ wpc[w] = "popped"
    /\ is_free' = [is_free EXCEPT ![w] = FALSE]
    /\ runs' = [runs EXCEPT ![task[w]] = @ + 1]
    /\ wpc' = [wpc EXCEPT ![w] = "running"]
    /\ UNCHANGED <<tasks, pool, event, running, detached, task, added, discarded, late>>

(* Deviation: a worker that is not marked free again. *)
FinishStaysBusy(w) ==
    /\ wpc[w] = "running"
    /\ task' = [task EXCEPT ![w] = NoTask]
    /\ wpc' = [wpc EXCEPT ![w] = "top"]
    /\ UNCHANGED <<tasks, pool, event, running, detached, is_free, added, history>>

Finish(w) ==
    /\ wpc[w] = "running"
    /\ is_free' = [is_free EXCEPT ![w] = TRUE]
    /\ task' = [task EXCEPT ![w] = NoTask]
    /\ wpc' = [wpc EXCEPT ![w] = "top"]
    /\ UNCHANGED <<tasks, pool, event, running, detached, added, history>>

(* A task calls count_freeworkers(), count_workers() or busy(): it needs    *)
(* self_mtx, and holds it for no longer than the call.                     *)
CallCount(w) ==
    /\ TasksCount
    /\ wpc[w] = "running"
    /\ wpc' = [wpc EXCEPT ![w] = "counting"]
    /\ UNCHANGED <<tasks, pool, event, running, detached, is_free, task, added, history>>

Count(w) ==
    /\ wpc[w] = "counting"
    /\ self_mtx = NoThread
    /\ wpc' = [wpc EXCEPT ![w] = "running"]
    /\ UNCHANGED <<tasks, pool, event, running, detached, is_free, task, added, history>>

-----------------------------------------------------------------------------
(* wait() *)

AfterWait == IF closing THEN "stopping" ELSE "idle"

(* no_tasks(): with an empty list wait() returns at once. *)
StartWait(c, next) ==
    /\ cpc' = [cpc EXCEPT ![c] = IF tasks = <<>> THEN next ELSE "entering"]
    /\ UNCHANGED <<tasks, workers, self_mtx, event, worker, destroyed, created, added, history>>

CallWait(c) ==
    /\ cpc[c] = "idle"
    /\ ~closing
    /\ StartWait(c, "idle")
    /\ UNCHANGED closing

EnterWait(c) ==
    /\ cpc[c] = "entering"
    /\ empty_event!Wait(c, FALSE)
    /\ cpc' = [cpc EXCEPT ![c] = "waiting"]
    /\ UNCHANGED <<tasks, workers, self_mtx, worker, closing, destroyed, created, added, history>>

BlockInWait(c) ==
    /\ empty_event!Park(c)
    /\ UNCHANGED <<tasks, pool, worker, added, history>>

WakeFromWait(c) ==
    /\ empty_event!SpuriousWake(c)
    /\ UNCHANGED <<tasks, pool, worker, added, history>>

ReturnFromWait(c) ==
    /\ empty_event!Return(c)
    /\ cpc' = [cpc EXCEPT ![c] = AfterWait]
    /\ UNCHANGED <<tasks, workers, self_mtx, worker, closing, destroyed, created, added, history>>

-----------------------------------------------------------------------------
(* set_workers() *)

Front(n) == {workers[i] : i \in 1 .. n}

(* Deviation: the workers that are detached stay in the list. *)
ShrinkKeepsThem(n) ==
    LET gone == Front(Len(workers) - n) IN
    /\ n < Len(workers)
    /\ detached' = [w \in Workers |-> detached[w] \/ w \in gone]
    /\ running' = [w \in Workers |-> running[w] /\ w \notin gone]
    /\ wpc' = AfterNotifyAll
    /\ UNCHANGED <<workers, created>>

(* Shrinking detaches the workers at the front of the list. *)
Shrink(n) ==
    LET gone == Front(Len(workers) - n) IN
    /\ n < Len(workers)
    /\ workers' = SubSeq(workers, Len(workers) - n + 1, Len(workers))
    /\ detached' = [w \in Workers |-> detached[w] \/ w \in gone]
    /\ running' = [w \in Workers |-> running[w] /\ w \notin gone]
    /\ wpc' = AfterNotifyAll
    /\ UNCHANGED created

Grow(n) ==
    LET more == n - Len(workers) IN
    /\ n > Len(workers)
    /\ created + more <= MaxWorkers
    /\ created' = created + more
    /\ workers' = workers \o [i \in 1 .. more |-> created + i]
    /\ wpc' = [w \in Workers |-> IF w \in created + 1 .. created + more THEN "top" ELSE wpc[w]]
    /\ UNCHANGED <<detached, running>>

SetWorkers(c, n) ==
    /\ cpc[c] = "idle"
    /\ ~closing
    /\ self_mtx = NoThread
    /\ Shrink(n) \/ Grow(n)
    /\ UNCHANGED <<tasks, self_mtx, event, is_free, task, cpc, closing, destroyed, added, history>>

-----------------------------------------------------------------------------
(* ~ThreadPool(): no other client may be inside the pool. *)

BeginClose ==
    /\ ~closing
    /\ \A c \in Clients : cpc[c] = "idle"
    /\ closing' = TRUE
    /\ StartWait(Owner, "stopping")

StopAll ==
    /\ cpc[Owner] = "stopping"
    /\ self_mtx = NoThread
    /\ self_mtx' = Owner
    /\ running' = [w \in Workers |-> running[w] /\ w \notin Front(Len(workers))]
    /\ wpc' = AfterNotifyAll
    /\ cpc' = [cpc EXCEPT ![Owner] = "joining"]
    /\ UNCHANGED <<tasks, workers, event, detached, is_free, task, closing, destroyed,
                   created, added, history>>

(* Deviation: a destructor that does not join. *)
DeleteWithoutJoin ==
    /\ cpc[Owner] = "joining"
    /\ workers # <<>>
    /\ workers' = Tail(workers)
    /\ UNCHANGED <<tasks, self_mtx, event, worker, cpc, closing, destroyed, created, added, history>>

(* delete worker joins its thread; workers is what is left to delete.      *)
Join ==
    /\ cpc[Owner] = "joining"
    /\ workers # <<>>
    /\ wpc[Head(workers)] = "gone"
    /\ workers' = Tail(workers)
    /\ UNCHANGED <<tasks, self_mtx, event, worker, cpc, closing, destroyed, created, added, history>>

(* tasks.clear(), and the end of the members' lives. *)
EndClose ==
    /\ cpc[Owner] = "joining"
    /\ workers = <<>>
    /\ discarded' = {tasks[i] : i \in DOMAIN tasks}
    /\ tasks' = <<>>
    /\ self_mtx' = NoThread
    /\ destroyed' = TRUE
    /\ cpc' = [cpc EXCEPT ![Owner] = "done"]
    /\ UNCHANGED <<workers, event, worker, closing, created, added, runs, late>>

-----------------------------------------------------------------------------

(* What a worker, or a client inside a call, does by itself. *)
WorkerStep(w) ==
    \/ Top(w) \/ FindEmpty(w) \/ SignalEmpty(w) \/ Sleep(w)
    \/ Take(w) \/ Begin(w) \/ Finish(w) \/ Count(w)

ClientStep(c) == EnterWait(c) \/ BlockInWait(c) \/ ReturnFromWait(c)

CloseStep == StopAll \/ Join \/ EndClose

Next ==
    \/ \E w \in Workers :
          \/ WorkerStep(w)
          \/ WakeForNothing(w)
          \/ CallCount(w)
          \/ AddFromTask(w)
    \/ \E c \in Clients :
          \/ ClientStep(c)
          \/ WakeFromWait(c)
          \/ AddTask(c)
          \/ CallWait(c)
          \/ \E n \in Sizes : SetWorkers(c, n)
    \/ BeginClose
    \/ CloseStep

Spec == Init /\ [][Next]_vars

(* Threads are scheduled, and a task ends however often it asks the pool    *)
(* for its workers; nobody is obliged to call anything, and no spurious     *)
(* wake-up is owed.                                                        *)
FairSpec ==
    /\ Spec
    /\ \A w \in Workers : WF_vars(WorkerStep(w)) /\ SF_vars(Finish(w))
    /\ \A c \in Clients : WF_vars(ClientStep(c))
    /\ WF_vars(CloseStep)

-----------------------------------------------------------------------------
(* Properties. *)

Queued == {tasks[i] : i \in DOMAIN tasks}

Popped == {w \in Workers : wpc[w] = "popped"}

Listed == {workers[i] : i \in DOMAIN workers}

(* Types, and what ties them: a worker holds a task exactly between the two *)
(* ends of a turn of its loop (threadpool.cpp:65-74), is marked busy only   *)
(* then; a client is inside empty_event.wait exactly in wait() (176-182).  *)
TypeOK ==
    /\ tasks \in Seq(Tasks)
    /\ workers \in Seq(Workers)
    /\ self_mtx \in Clients \cup {NoThread}
    /\ empty_event!TypeOK
    /\ wpc \in [Workers -> WorkerStates]
    /\ running \in [Workers -> BOOLEAN]
    /\ detached \in [Workers -> BOOLEAN]
    /\ is_free \in [Workers -> BOOLEAN]
    /\ task \in [Workers -> Tasks \cup {NoTask}]
    /\ cpc \in [Clients -> ClientStates]
    /\ closing \in BOOLEAN
    /\ destroyed \in BOOLEAN
    /\ created \in 0 .. MaxWorkers
    /\ added \in 0 .. MaxTasks
    /\ runs \in [Tasks -> Nat]
    /\ discarded \subseteq Tasks
    /\ late \in [Workers -> Nat]
    /\ \A w \in Workers :
          /\ task[w] # NoTask <=> wpc[w] \in {"popped", "running", "counting"}
          /\ ~is_free[w] <=> wpc[w] \in {"running", "counting"}
          /\ wpc[w] = "absent" <=> w > created
    /\ \A c \in Clients : wstate[c] # "out" <=> cpc[c] = "waiting"

(* Every task that was added is in exactly one place: in the list, with one *)
(* worker that has not called it yet, called once, or dropped by the        *)
(* destructor.  So none is lost and none is called twice (threadpool.cpp:   *)
(* 65-73, 98-132, 46).                                                     *)
Accounted ==
    \A k \in Tasks :
        LET queued == k \in Queued
            popped == \E w \in Popped : task[w] = k
            called == runs[k] > 0
            lost   == k \in discarded
        IN  /\ runs[k] <= 1
            /\ \A v, w \in Popped : task[v] = k /\ task[w] = k => v = w
            /\ (k <= added) <=> (queued \/ popped \/ called \/ lost)
            /\ ~(queued /\ (popped \/ called \/ lost))
            /\ ~(popped /\ (called \/ lost))
            /\ ~(called /\ lost)

(* Tasks leave the list in the order they were added (threadpool.cpp:67,   *)
(* 125): what is queued is the last of what was added.                     *)
FifoTasks == \A i \in DOMAIN tasks : tasks[i] = added - Len(tasks) + i

(* A worker told to stop, by set_workers() or by the destructor, takes at   *)
(* most the one task it was about to take (threadpool.cpp:53).             *)
StopsSoon == \A w \in Workers : late[w] <= 1

(* No worker is deleted twice: the destructor deletes those of the list,   *)
(* and only a detached one deletes itself (threadpool.cpp:42-44, 76-80).   *)
DeletedOnce ==
    /\ \A w \in Listed : ~detached[w]
    /\ \A i, j \in DOMAIN workers : workers[i] = workers[j] => i = j

UsesPool == {"take", "empty", "sleepy", "parked", "counting"}

(* When the destructor has ended no worker it was to join uses the pool any *)
(* more (threadpool.cpp:42-44).  A detached one may: nobody waits for it.  *)
NoUseAfterDestroy ==
    destroyed => \A w \in Workers : wpc[w] \in UsesPool => detached[w]

(* A worker that is awake and not told to stop empties the list: it does   *)
(* not go to sleep on a task it can see (threadpool.cpp:53-75).            *)
AwakeWorkerDrains ==
    \A w \in Workers :
        (tasks # <<>> /\ running[w] /\ wpc[w] \in {"top", "take", "popped", "running"})
            ~> (tasks = <<>> \/ ~running[w])
=============================================================================
