-------------------------------- MODULE Timer --------------------------------
(***************************************************************************)
(* The timers of src/src/timer.cpp: one thread that goes through a list of *)
(* timers and calls those whose time is up, clients that create and delete *)
(* timers under the same mutex, and Init() and Quit().                     *)
(*                                                                         *)
(* The thread holds mtx from the test for an empty list to the end of its   *)
(* pass, so clients act only between passes; a pass visits one timer per    *)
(* step, because a callback is foreign code and Quit() may come meanwhile.  *)
(* Time is what steady_clock shows the thread: the ticks since timep.       *)
(***************************************************************************)
EXTENDS Integers, Sequences

CONSTANTS
    Nodes,          \* the addresses a list node may have, that is the IDs
    Delays,         \* the times a timer may be created with
    Answers,        \* what a callback may return; 0 removes the timer
    Scale,          \* the count of nanoseconds in a microsecond, 1000
    MaxElapsed,     \* bound: ticks after which the clock is not followed
    MaxTimers,      \* bound: how many timers are ever created
    Reentrant,      \* whether a callback may call Create() or Delete()
    Spurious,       \* whether event may wake the thread for no reason
    TimerThread     \* the thread of TimerImpl

ASSUME TimesAssumption ==
    /\ Delays \subseteq Nat /\ Answers \subseteq Nat
    /\ Scale \in Nat \ {0} /\ MaxElapsed \in Nat /\ MaxTimers \in Nat
ASSUME FlagsAssumption == {Reentrant, Spurious} \subseteq BOOLEAN

VARIABLES
    impl,           \* timer_impl: "none", "up", or "quitting" in ~TimerImpl
    running,
    timers,         \* the list of TimerData: node, serial (history) and ms
    val_isset, wstate, limited,     \* event
    tpc,            \* where the thread is in run()
    iter,           \* the position of the pass in the list
    dur_ms, sleep_ms,
    elapsed,        \* ticks between timep and now
    created,        \* history: timers 1 .. created have been created
    removed,        \* history: those deleted, or ended by their callback
    fired,          \* history: those that have been called
    misfired        \* history: a removed timer was called

event == <<val_isset, wstate, limited>>
clock == <<dur_ms, sleep_ms, elapsed>>
history == <<created, removed, fired, misfired>>
vars == <<impl, running, timers, event, tpc, iter, clock, history>>

ev == INSTANCE Event WITH
          Threads  <- {TimerThread},
          Spurious <- IF Spurious THEN {TimerThread} ELSE {}

(* run(): "top", before the test of running; "lock", before mtx; "enter",   *)
(* the list was empty; "waiting", in event.wait(); "scan", in a pass, with *)
(* mtx; "stuck", a callback waits for mtx; "clear", before event.clear();   *)
(* "doze", before event.wait(sleep_ms); "dozing", inside; "reset", woken;  *)
(* "ended".                                                                *)
ThreadStates ==
    {"none", "top", "lock", "enter", "waiting", "scan", "stuck", "clear", "doze", "dozing",
     "reset", "ended"}

MtxFree == tpc \notin {"scan", "stuck"}

Init ==
    /\ impl = "none"
    /\ running = FALSE
    /\ timers = <<>>
    /\ ev!Init
    /\ tpc = "none"
    /\ iter = 1
    /\ dur_ms = 0 /\ sleep_ms = 0
    /\ elapsed = MaxElapsed
    /\ created = 0
    /\ removed = {}
    /\ fired = {}
    /\ misfired = FALSE

-----------------------------------------------------------------------------
(* The clients. *)

(* Init(): a new TimerImpl, whose run() starts with timep at the epoch.    *)
InitTimer ==
    /\ impl = "none"
    /\ impl' = "up"
    /\ running' = TRUE
    /\ timers' = <<>>
    /\ val_isset' = FALSE /\ wstate' = [t \in {TimerThread} |-> "out"] /\ limited' = {}
    /\ tpc' = "top"
    /\ iter' = 1
    /\ dur_ms' = 0 /\ sleep_ms' = 0 /\ elapsed' = MaxElapsed
    /\ UNCHANGED history

(* Create(): the new node gets an address no node has now.  The thread is   *)
(* not told.                                                               *)
Create(node, ms) ==
    /\ impl = "up"
    /\ MtxFree
    /\ created < MaxTimers
    /\ \A i \in DOMAIN timers : timers[i].node # node
    /\ created' = created + 1
    /\ timers' = <<[node |-> node, serial |-> created + 1, ms |-> ms]>> \o timers
    /\ UNCHANGED <<impl, running, event, tpc, iter, clock, removed, fired, misfired>>

Without(list, i) == SubSeq(list, 1, i - 1) \o SubSeq(list, i + 1, Len(list))

(* Deviation: a timer that is found but stays in the list. *)
DeleteKeepsNode(node) ==
    /\ impl = "up"
    /\ MtxFree
    /\ \E i \in DOMAIN timers :
          timers[i].node = node /\ removed' = removed \cup {timers[i].serial}
    /\ UNCHANGED <<impl, running, timers, event, tpc, iter, clock, created, fired, misfired>>

(* Delete() of an ID the list knows.  delete_fn, read from the node after   *)
(* it was erased, is nullptr: the allocator has not given the node away    *)
(* while mtx is held.  For an unknown ID nothing changes.                  *)
Delete(node) ==
    /\ impl = "up"
    /\ MtxFree
    /\ \E i \in DOMAIN timers :
          /\ timers[i].node = node
          /\ timers' = Without(timers, i)
          /\ removed' = removed \cup {timers[i].serial}
    /\ UNCHANGED <<impl, running, event, tpc, iter, clock, created, fired, misfired>>

(* Quit(): ~TimerImpl clears running, sets event and joins the thread; the *)
(* list goes with the object.                                              *)
Quit ==
    /\ impl = "up"
    /\ impl' = "stopping"
    /\ running' = FALSE
    /\ UNCHANGED <<timers, event, tpc, iter, clock, history>>

QuitSet ==
    /\ impl = "stopping"
    /\ impl' = "joining"
    /\ ev!Set
    /\ UNCHANGED <<running, timers, tpc, iter, clock, history>>

QuitJoin ==
    /\ impl = "joining"
    /\ tpc = "ended"
    /\ impl' = "none"
    /\ tpc' = "none"
    /\ timers' = <<>>
    /\ UNCHANGED <<running, event, iter, clock, history>>

-----------------------------------------------------------------------------
(* The thread. *)

(* Deviation: the thread does not look at running. *)
TopForEver ==
    /\ tpc = "top"
    /\ tpc' = "lock"
    /\ UNCHANGED <<impl, running, timers, event, iter, clock, history>>

Top ==
    /\ tpc = "top"
    /\ tpc' = IF running THEN "lock" ELSE "ended"
    /\ UNCHANGED <<impl, running, timers, event, iter, clock, history>>

(* The list is empty: mtx is released and event awaited without a limit.   *)
FindEmpty ==
    /\ tpc = "lock"
    /\ timers = <<>>
    /\ tpc' = "enter"
    /\ UNCHANGED <<impl, running, timers, event, iter, clock, history>>

EnterWait ==
    /\ tpc = "enter"
    /\ ev!Wait(TimerThread, FALSE)
    /\ tpc' = "waiting"
    /\ UNCHANGED <<impl, running, timers, iter, clock, history>>

(* A pass starts.  The nanoseconds since timep are counted as microseconds. *)
StartPass ==
    /\ tpc = "lock"
    /\ timers # <<>>
    /\ tpc' = "scan"
    /\ iter' = 1
    /\ dur_ms' = elapsed * Scale
    /\ elapsed' = 0
    /\ UNCHANGED <<impl, running, timers, event, sleep_ms, history>>

AtTimer == tpc = "scan" /\ iter <= Len(timers)

IsDue(timer) == timer.ms - dur_ms <= 0

(* Deviation: the sleep is that of the last timer of the pass. *)
AgeSleepsForLast ==
    /\ AtTimer
    /\ ~IsDue(timers[iter])
    /\ timers' = [timers EXCEPT ![iter].ms = @ - dur_ms]
    /\ sleep_ms' = timers'[iter].ms
    /\ iter' = iter + 1
    /\ UNCHANGED <<impl, running, event, tpc, dur_ms, elapsed, history>>

(* Deviation: the time that has passed is not charged to the timer.        *)
AgeKeepsTime ==
    /\ AtTimer
    /\ ~IsDue(timers[iter])
    /\ iter' = iter + 1
    /\ UNCHANGED <<impl, running, timers, event, tpc, clock, history>>

(* A timer that still has time.  sleep_ms starts at 0 and the test lets it  *)
(* change only once it is not 0.                                           *)
Age ==
    /\ AtTimer
    /\ ~IsDue(timers[iter])
    /\ timers' = [timers EXCEPT ![iter].ms = @ - dur_ms]
    /\ sleep_ms' = IF timers'[iter].ms < sleep_ms \/ sleep_ms # 0
                   THEN timers'[iter].ms ELSE sleep_ms
    /\ iter' = iter + 1
    /\ UNCHANGED <<impl, running, event, tpc, dur_ms, elapsed, history>>

(* What a call of the timer at iter adds to the history. *)
Called(timer) ==
    /\ fired' = fired \cup {timer.serial}
    /\ misfired' = (misfired \/ timer.serial \in removed)

(* Deviation: the pass goes past the timer that follows an ended one. *)
FireOnceSkips ==
    /\ AtTimer
    /\ IsDue(timers[iter])
    /\ Called(timers[iter])
    /\ removed' = removed \cup {timers[iter].serial}
    /\ timers' = Without(timers, iter)
    /\ iter' = iter + 1
    /\ UNCHANGED <<impl, running, event, tpc, clock, created>>

(* A timer that is due is called; an answer of 0 takes it out of the list. *)
FireOnce ==
    /\ AtTimer
    /\ IsDue(timers[iter])
    /\ 0 \in Answers
    /\ Called(timers[iter])
    /\ removed' = removed \cup {timers[iter].serial}
    /\ timers' = Without(timers, iter)
    /\ UNCHANGED <<impl, running, event, tpc, iter, clock, created>>

(* Any other answer is its new time. *)
FireAgain(ms) ==
    /\ AtTimer
    /\ IsDue(timers[iter])
    /\ ms # 0
    /\ Called(timers[iter])
    /\ timers' = [timers EXCEPT ![iter].ms = ms]
    /\ iter' = iter + 1
    /\ UNCHANGED <<impl, running, event, tpc, clock, created, removed>>

(* A callback that calls Create() or Delete() locks mtx a second time.     *)
FireBlocks ==
    /\ Reentrant
    /\ AtTimer
    /\ IsDue(timers[iter])
    /\ Called(timers[iter])
    /\ tpc' = "stuck"
    /\ UNCHANGED <<impl, running, timers, event, iter, clock, created, removed>>

EndPass ==
    /\ tpc = "scan"
    /\ iter > Len(timers)
    /\ tpc' = "clear"
    /\ UNCHANGED <<impl, running, timers, event, iter, clock, history>>

(* The two event.clear() of run(): before the timed wait, and after a wait *)
(* that did not time out.                                                  *)
ClearEvent ==
    /\ tpc \in {"clear", "reset"}
    /\ ev!Clear
    /\ tpc' = IF tpc = "clear" THEN "doze" ELSE "top"
    /\ UNCHANGED <<impl, running, timers, iter, clock, history>>

Doze ==
    /\ tpc = "doze"
    /\ ev!Wait(TimerThread, TRUE)
    /\ tpc' = "dozing"
    /\ UNCHANGED <<impl, running, timers, iter, clock, history>>

InWait == tpc \in {"waiting", "dozing"}

(* event.wait() goes on; only SpuriousWake may fail to come.               *)
WaitStep ==
    /\ InWait
    /\ ev!Park(TimerThread) \/ ev!Expire(TimerThread)
    /\ UNCHANGED <<impl, running, timers, tpc, iter, clock, history>>

WakeForNothing ==
    /\ InWait
    /\ ev!SpuriousWake(TimerThread)
    /\ UNCHANGED <<impl, running, timers, tpc, iter, clock, history>>

(* event.wait() returns; only the timed one tells why.                     *)
WaitReturns ==
    /\ InWait
    /\ ev!Return(TimerThread)
    /\ tpc' = IF tpc = "dozing" /\ wstate[TimerThread] = "woken" THEN "reset" ELSE "top"
    /\ UNCHANGED <<impl, running, timers, iter, clock, history>>

-----------------------------------------------------------------------------
(* Time passes; past MaxElapsed ticks the clock is not followed.           *)
Tick ==
    /\ elapsed < MaxElapsed
    /\ elapsed' = elapsed + 1
    /\ UNCHANGED <<impl, running, timers, event, tpc, iter, dur_ms, sleep_ms, history>>

ThreadStep ==
    \/ Top
    \/ FindEmpty \/ EnterWait
    \/ StartPass \/ Age \/ FireOnce \/ EndPass
    \/ \E ms \in Answers : FireAgain(ms)
    \/ FireBlocks
    \/ ClearEvent \/ Doze
    \/ WaitStep \/ WaitReturns

Next ==
    \/ InitTimer
    \/ \E node \in Nodes, ms \in Delays : Create(node, ms)
    \/ \E node \in Nodes : Delete(node)
    \/ Quit \/ QuitSet \/ QuitJoin
    \/ ThreadStep
    \/ WakeForNothing
    \/ Tick

Spec == Init /\ [][Next]_vars

(* The thread runs on, time passes, and a Quit() that was called goes on;  *)
(* no client has to call anything.                                         *)
Fairness ==
    /\ WF_vars(ThreadStep)
    /\ WF_vars(Tick)
    /\ WF_vars(QuitSet \/ QuitJoin)

FairSpec == Spec /\ Fairness

-----------------------------------------------------------------------------
(* Properties. *)

IsListed(serial) == \E i \in DOMAIN timers : timers[i].serial = serial

TimerType ==
    [node : Nodes, serial : 1 .. MaxTimers, ms : Nat]

(* The type of the state; the thread is in event.wait() exactly at the two *)
(* waits of run() (timer.cpp:86, 121), and a pass never leaves the list.   *)
TypeOK ==
    /\ impl \in {"none", "up", "stopping", "joining"}
    /\ running \in BOOLEAN
    /\ timers \in Seq(TimerType)
    /\ ev!TypeOK
    /\ tpc \in ThreadStates
    /\ impl = "none" <=> tpc = "none"
    /\ wstate[TimerThread] # "out" <=> InWait
    /\ iter \in Nat \ {0}
    /\ tpc \in {"scan", "stuck"} => iter <= Len(timers) + 1
    /\ dur_ms \in Nat /\ sleep_ms \in Nat /\ elapsed \in 0 .. MaxElapsed
    /\ created \in 0 .. MaxTimers
    /\ removed \subseteq 1 .. created /\ fired \subseteq 1 .. created
    /\ misfired \in BOOLEAN

(* A timer that Delete() has found, or whose callback answered 0, is never *)
(* called again (timer.cpp:93-118, 171-181).                               *)
NeverCallsRemoved == ~misfired

(* run() never sleeps past the time of a timer in the list, one created     *)
(* during the sleep included (timer.cpp:110-121).  It holds because         *)
(* sleep_ms never leaves 0: the thread polls.                              *)
NeverOversleeps ==
    tpc = "dozing" => \A i \in DOMAIN timers : sleep_ms <= timers[i].ms

(* While the thread is not blocked on a list that was empty, every timer of *)
(* the list is called, unless it is removed or the thread ends first, or a  *)
(* callback has locked itself out (timer.cpp:81-125).                      *)
ListedTimerServed ==
    \A serial \in 1 .. MaxTimers :
        IsListed(serial) /\ tpc \notin {"enter", "waiting"} ~>
            serial \in fired \cup removed \/ impl # "up" \/ tpc = "stuck"

(* Quit() ends: unless the set() of the destructor came when the thread had *)
(* looked at the event but was not yet blocked on it (timer.cpp:47-51).    *)
QuitEnds ==
    impl = "joining" /\ (InWait => wstate[TimerThread] \notin {"checked", "parked"} \/ tpc = "dozing")
        ~> impl = "none" \/ tpc = "stuck"
=============================================================================
