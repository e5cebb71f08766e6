# BoxUtils in TLA+

BoxUtils is a C++ library of utilities: thread primitives (event, semaphore,
pipe, thread pool, timers), wrappers of libcurl, cJSON, libxml2 and of POSIX
(sockets, files, subprocesses), and some text and memory helpers. It is a
library and not a server: its own logic is in how its objects behave under
several threads, in who owns what, and in the documents it reads and writes.
These modules model it from the source. Paths below are relative to the
repository; `sem.cpp:41` is a line of the file of that name.

## 1. Inventory

| Component | State | Operations | Correct when | Modules |
|---|---|---|---|---|
| `Sync::Event` (`src/sync/sem.cpp`) | `val_isset`, `val_mutex`, `cond_var` | `set`, `clear`, `wait`, timed `wait`; `Setter`, `Cleaner` | a wait that answers true was given a reason; a timed wait ends; a set releases who waits | `Event`, `EventPromise` |
| `Sync::Semaphore` (same file) | `sem_value`, `val_mutex`, `cond_var` | `post`, `wait`, `trywait`, timed `trywait` | the count is what was given and posted less what was taken | `Semaphore` |
| `Sync::Pipe<T>` (`sync/pipe.hpp`) | `data_queue`, `mtx`, `empty_ev` | `write`, `<<`, `read`, `poll`, timed `read`, `try_read` | messages leave once and in order; nobody pops an empty queue; a reader is woken by a write | `Pipe` |
| `ThreadPool` (`src/threadpool.cpp`) | lists of tasks and workers, `mtx`, `self_mtx`, `cond_var`, `empty_event`; per worker `running`, `detached`, `is_free` | `add_task`, `swpan`, `async`, `wait`, `set_workers`, `count_*`, `busy`, destructor, `worker_main` | each task is called once, in order; workers stop when told, are deleted once, and do not use a dead pool | `ThreadPool` |
| `Timer` (`src/timer.cpp`) | `timer_impl`, list of timers, `event`, `running`, `mtx`, the thread's clock and sleep | `Init`, `Quit`, `Create`, `Delete`, `run` | a timer is called when its time is up and never after its removal; `Quit` ends | `Timer` |
| `RefPtr` (`refptr.hpp`) | a pointer and a shared count | copy, move, both assignments, both `reset`, destructor | the count is the number of holders; the object dies once, with the last | `RefPtr` |
| `Socket`, `Logger`, `File`, `SubProcess` | descriptors of the process; the child, its error pipe and streams; the disposition of SIGPIPE | open, adopt, move, detach, close; `set_output`; `run`, `wait`, `poll`, `kill` | every descriptor has one owner, who closes it; `run` answers, and says the truth; SIGPIPE is put back | `Descriptors` |
| `cJSON` (`src/cJSON.c`) | a document, a text, a buffer | print into a growing or a fixed buffer, parse, minify, compare | a text reads back; nothing is written past its buffer | `JsonString`, `JsonText`, `JsonPatch`, `JsonDocument` |
| `cJSON_Utils` (`src/cJSON_Utils.c`) | documents, pointers, patches | find, apply, generate, sort, merge | what is generated does what it is for | `JsonPatch`, `JsonDocument` |
| `Json` (`src/json.cpp`) over cJSON's lists | nodes with `next`, `prev`, `child`; holders with `ref` | create, copy, index, `add_*`, `pop`, `merge`, delete, iterate | each node is owned and freed once; lists are whole | `JsonTree` |
| `Net::Easy`, `EasyPackage`, `EasyFactory`, `Multi`, `Share` (`src/net/`) | handles of libcurl, what they point to, messages | copy, clone, move, reset, `add_handle`, `get_msg`, `content` | a message reaches its live owner; a transfer touches live objects only | `NetHandles` |
| `LXml::Xml`, `Node`, `XPath` (`src/xml.cpp`, `xpath.cpp`) | documents and nodes of libxml2, holders, results | parse, root, child, `add_child`, `set_root`, `set_text`, copy, evaluate | each node is freed once; a result keeps its document | `XmlTree` |
| `libc/atexit` (`src/libc/atexit.c`) | a list of functions with a `nice` | enter, enter once, exit | each function entered is called | `AtExit` |

How they interact: `Pipe`, `ThreadPool` and `Timer` each own an `Event` and
inherit what it does badly; callbacks of the timer and tasks of the pool are
foreign code that may call back into the object that runs them. `SubProcess`,
`File`, `Socket` and `Logger` share the kernel's table of descriptors, where the
lowest free number is used next, and `fork()` copies it; the program holds the
first two by `RefPtr`. A curl handle keeps raw pointers into the objects of
`Net`, which `Multi` reads back. `Json`, `Xml` and `Node` hold their trees by a
counted holder. `Timer::Init`, `Net::Init` and `LXml::Init` enter functions in
the list of `atexit`.

What is hard here: windows between an unlock and a block; state tested once and
used later; a lock held while waiting for a thread that needs it; pointers kept
across moves and copies; ownership that goes from one object to another; errors
half way through; two threads that fork; buffers sized by an estimate.
`PROJECT.json` lists the places under `hazards`, each at its line.

### Not modelled

| Component | Why |
|---|---|
| `RefData`, `DataGuard` (`dataguard.hpp`) | `RefData` counts as `RefPtr` does; where it differs (`reset()` of a shared pointer keeps the pointer, line 103) is told by reading; `DataGuard` has no shared state |
| `Net::Headers`, `SListDup` | a list of strings; `NetHandles` models what other objects see of it, that `remove()` frees the list a handle was given |
| `Buffer`, `TBuffer`, `Base64`, `String`, `libc/mem` | a block of memory used by one caller, or pure functions of their input |
| `SAX`, parsing and text of `Xml` | libxml2 does it |
| transfers, options, addresses, `SockSet`, `dns`, `url`, `iconv`, `dylib`, `random`, `os`, `Atomic` | one call of a library each, with no state beyond one handle |
| `fmt`, `exception`, `assert`, `debug`, `backtrace` | formatting and output |
| `co/context` | a wrapper of ucontext with no scheduler above it |
| `channal.hpp`, `crypto/` | declarations that no source file uses |
| `spider/`, `pixiv.hpp`, tests | examples |

Inside the modelled parts: a task or a timer callback that throws; allocation
failures; calls on an object that is being destroyed, except from the threads it
owns; the widths of `microseconds`; printing and reading of fractions (numbers
are integers); buffers of more than `INT_MAX` bytes; a second `run()` of one
`SubProcess`; the mutexes of `Share`, which libcurl locks and unlocks; the plain
options of `Easy`; the text of a log line.

## 2. Modules

| Module | Models | Used by |
|---|---|---|
| `Event` | `Sync::Event` | `MCEvent`, `SyncProofs`; instantiated by `Pipe`, `ThreadPool`, `Timer` |
| `EventPromise` | what a user of an event may rely on (abstract) | instantiated by `Event` |
| `Semaphore` | `Sync::Semaphore` | `MCSemaphore`, `SyncProofs` |
| `Pipe` | `Sync::Pipe` over `Event` | `MCPipe`, `PipeProofs` |
| `ThreadPool` | `ThreadPool` over `Event` | `MCThreadPool`, `ThreadPoolProofs` |
| `Timer` | `Timer` and its thread over `Event` | `MCTimer`, `TimerProofs` |
| `RefPtr` | `RefPtr` alone | extended by `Descriptors`; its theorem is in `DescriptorsProofs` |
| `Descriptors` | `Socket`, `Logger`, `File` and `SubProcess` over one table of descriptors and `fork()`, held by `RefPtr` | `MCDescriptors`, `DescriptorsProofs` |
| `NetHandles` | `Easy`, `EasyPackage`, `EasyFactory`, `Multi`, `Share` over curl handles | `MCNetHandles`, `NetHandlesProofs` |
| `JsonTree` | `Json` over the linked lists of cJSON | `MCJsonTree`, `JsonProofs` |
| `JsonString` | the bytes of cJSON: reading, printing and minifying one string; the buffer of the printers | extended by `JsonText`; `JsonProofs` |
| `JsonText` | cJSON: parsing, printing, minifying documents, as operators | extended by `JsonPatch` |
| `JsonPatch` | cJSON and cJSON_Utils: comparing, sorting, pointers, patches, as operators | extended by `JsonDocument` |
| `JsonDocument` | a program that puts those operations in sequence | `MCJsonDocument` |
| `XmlTree` | `Xml`, `Node` and XPath results over the trees of libxml2 | `MCXmlTree`, `XmlTreeProofs` |
| `AtExit` | the list of functions to call at exit | `MCAtExit` |

A module `MC...` gives the constants of a component values for a run and holds
nothing else; `...Proofs` holds theorems and their lemmas.

**What is one step.** A section that holds a mutex, blocks on nothing inside and
touches only what that mutex guards is one action. Every point where the code
lets go of the mutex is a boundary: in `Event::wait()` between the unlock of
`val_mutex` and the block on `cond_var` (sem.cpp:41-45), in `Pipe::read()`
between the two locked sections, in `worker_main` between the look at the list,
`empty_event.set()` and the block. Those windows are where this code goes wrong,
so they are kept everywhere. A mutex is a variable only where its owner matters
between steps: `Pipe::mtx` (a timed read returns without releasing it),
`ThreadPool::self_mtx` (the destructor joins under it), `Semaphore::val_mutex`
(a blocked call unlocks it without having locked it). In `Semaphore` even the
load and the store of the count are apart, because a blocked call counts down
without the mutex. In the components that one thread uses (`Json`, `Xml`, `Net`,
`RefPtr`, cJSON) a step is a whole call, and what is explored is their order.

**Condition variables** are sets of parked threads: notify_all moves them all,
notify_one one of them. A spurious wake-up is an action of its own; which
threads may have one is the constant `Spurious` (`SpuriousCallers` in
`Semaphore`), and it is never fair.

**Names.** Variables and actions carry the names of the source where there is
one. History variables, which no action reads in a guard except to bound a run,
are marked `history`. An operator that stands just before the action whose name
its own extends (`MovePackage`, `DetachForgetsPrev`, `ExecKeepsPipes`), or under
a comment that begins with *Deviation*, is not the code but a changed copy of
it. Neither `Next` nor a property refers to it; it is there to show that a
property would notice the change.

### Event and EventPromise

`wstate[t]` is where a thread is in `wait()`: `checked` has seen the flag clear
and released `val_mutex`, `parked` is blocked. `Set` on a flag that is already
set returns early, as in the code, which is why a lost wake-up stays lost.
`EventPromise` hides all of that: it has the flag, who waits, who has been
released and who has a limit, and says that a call answers true only if during
it the flag was set, or the thread was woken for no reason. `Event` refines it with `waiting <- {t : wstate[t] # "out"}`,
`released <- {t : wstate[t] = "woken"}`. The promise deliberately does not say
that a `set()` releases everyone, because that is false. `Pipe`, `ThreadPool` and
`Timer` take the operations of `Event` for their own event, at most one in a
step, so that the promise holds inside them too (section 4).

### Semaphore

`reg[t]` is the count as the thread last read it. A call that finds 0 releases
`val_mutex` and blocks under a mutex of its own; when woken it does not test
again, counts down with no mutex (`SlowLoad`, `SlowStore`), and unlocks
`val_mutex` all the same (`Unlock`). Unlocking a `std::mutex` one does not hold
is undefined; the model does what a default POSIX mutex does, which is to free
it whoever holds it. The history flag `slow` says that this path has been taken.

### Pipe

Messages are numbered as they are written, so that order is a statement about
numbers. `pop()` of an empty queue is undefined: the model records `overrun`
and stops. The reader passes through `read` or `timed_read` (queue seen empty,
`mtx` released), `waiting` (the steps of its event) and `FinishRead`, which does
not look at the queue again. The history flag `shared` says that two readers
have been inside at the same time, or that a wake-up was spurious: the two ways
to an overrun.

### ThreadPool

Tasks are numbered as they are added. A task is foreign code: while it runs it
may add tasks (`AddFromTask`, which is `swpan` and `async`) and ask for counts
(`CallCount`), it takes any time and it ends. Workers are numbered as they are
made, `set_workers` detaches those at the front of the list or appends new ones.
The destructor is three steps (wait for the list to be empty; stop all under
`self_mtx`; join one after the other and drop the rest). A client does not call
the pool once the destructor has begun.

### Timer

`tpc` follows `run()`. The thread holds `mtx` for a whole pass, so clients are
excluded then (`MtxFree`), but a pass is one step per timer, because callbacks
are foreign code and `Quit` needs no `mtx`. Time is `elapsed`, the ticks since
`timep`; `StartPass` multiplies it by `Scale`, since line 89 stores a count of
nanoseconds as microseconds (`Scale` is 1000 in the code). At the start
`elapsed` is the largest the model knows, because `timep` is the epoch. An ID is
the address of a node and an address is used again after an erase; `serial`
tells the timers apart. A callback that locks `mtx` again leaves the thread in
`stuck`. Calling `Create` before `Init` dereferences a null pointer and is
excluded by a guard; so is a callback that calls `Quit`.

### RefPtr and Descriptors

`ptr[v]` is what the variable `v` points to, `count[o]` the counter that the
constructors, assignments and resets keep, `state[o]` whether the object is
there. Nothing in the module derives one from the other two.

`Descriptors` extends `RefPtr`: its actions on holders are those of `RefPtr`
with what the destructors of `File` and `SubProcess` close (`CloseDeleted`).
`table[n]` is who has to close the descriptor `n`; the kernel gives the lowest
free number: `Rank(n)` counts the free numbers below `n`, `Lowest(i)` is the free
number of rank `i`, and `Opened` gives those of rank 0 and up to the owners that
ask. `Init` leaves open whether 0 is free. `pc[p]` follows
`run()`: the pipes are made, the child is forked with a copy of all ends then
open (`held`), the parent closes the child's ends, ignores SIGPIPE and reads the
error pipe, and goes on when it is told an error or nobody holds the other end.
Between any two of these another `run()`, in another thread, may do its own. The
child execs, which closes what is `O_CLOEXEC`, fails and says so, or ends. Three
marks keep known faults apart from new ones: an entry `Lost` is a descriptor the
code forgets (logger.cpp:171, inet.h:33), `crossed` says that a socket has
closed again, after its `close()`, a number that was somebody else's, and
`overlap` that two `run()` had SIGPIPE ignored at the same time.

### NetHandles

`curl[c]` is the handle `c` of libcurl: what its raw pointers name (`private`,
`head`, `list`, `write`), whether it is in the Multi and what `add_handle()` was
given. `easy[e]` and `pack[p]` are the C++ objects at addresses, which are used
again after a delete. A pointer to what is gone is `Gone`, or an address where no
package stands. The actions are the constructors, assignments, moves and
destructors, `reset`, the setters that store a pointer, and the calls of `Multi`
and `Share`. A package gives out its `Easy` by `->` and `*`, so every call on an
`Easy` may be one on the `Easy` of a package; an `Easy` that was moved from is
destroyed and not used otherwise.

Two history fields of a handle bound what the code does wrong, and no guard reads
them. `left` names the pointers that a step has left behind, until they are set
again: `MovePackage` (the response headers), `CopyEasy` and `MoveEasy` of a
package's `Easy` (both headers, which stay the package's), `Content`,
`RemoveHeader` and `DeleteShare`. `dropped` names what the program took back from
a handle that a package or a Multi had set up: `reset()` drops the headers of a
package and the userdata of a message, `set_headers()` and `set_oheaders()`
through `->` one of the headers. `TransfersLand` and `MessagesFindOwner` name
both; they are about all other pointers.

### JsonTree

`heap` is the memory of cJSON: nodes with `next`, `prev` and `child`, on which
`AddItemToArray`, `DetachItem`, `InsertItem`, `ReplaceItem`, `Delete`,
`Duplicate` and `MergePatch` are operators from heap to heap. What a function
that walks the links comes to (`Children`, `Below`, what `Delete` frees) is the
least set that the links do not leave (`Reach`); no order of the walk shows in
what is left behind. A copy is an injection of the nodes into fresh ones. An
insertion at an index no item has appends, as in the code. `json[v]` is the
holder of the variable `v`: its node, its `ref`, and the variables that share
the holder. The program keeps three rules the interface asks for, each a guard:
it uses no reference whose node is gone, puts no node below itself, and hands a
node of cJSON's own over once. It does not call `add_item(item)` on an array it
owns either, unless `OwningArrays` says so, because that call is wrong.

### JsonString, JsonText, JsonPatch and JsonDocument

A document is a record (type, bytes or number, children with their keys), a text
is a sequence of bytes. Each function of `cJSON.c` and `cJSON_Utils.c` is one
operator: parsers go from a position to a position, printers give the chunks
(what is asked of `ensure()`, what is written) that `Fill` writes into a buffer,
`CreatePatches`, `ApplyPatches`, `GenerateMergePatch` and `MergePatch` go from
documents to documents. `Junk` stands for the byte that `malloc()` left where
the escape of `/` writes none. What handles bytes and no documents is in `JsonString`, where each
loop of the code is a function on the positions of the text (`ClosingQuote`,
`Unescape`, `MinifiedString`) or of the string (`EscapedBytes`,
`ExtraCharacters`), so that it can be reasoned about; documents are walked by
`RECURSIVE` operators. `JsonDocument` keeps a document and a text; its steps print, annotate, cut, minify, parse, sort, patch one into the other, so
that what one function leaves behind (members sorted, keys escaped) is what the
next one meets.

### XmlTree

`doc` and `node` are libxml2's: a node is `in` a document as its root, `below`
another, or free. `xml[x]` is the document the variable `x` holds, `holder` the
`NodeHolder` objects (a node and its `ref`), `var[v]` the holder of the variable
`v`, `result[r]` a result of XPath with its document and nodes. `lost` collects
the roots that `set_root()` forgets to free (xml.cpp:146). The history variable
`replaced` has the nodes that `set_root()` of a reference or `set_text()` freed in
a document that is still there: a result may go on naming them, which is the
exception of `ResultsKeepDocument`. The program uses no reference, of a `Node`
or of a result, whose node is gone; such a `Node` is made empty (`Kept`), since
a freed pointer has nothing more to tell. What stands below a
node is `Below(t, S)`, the least set that holds `S` and, with a node, what is
below it: no recursion over the tree, so that there are no bounds on its depth
and the module can be reasoned about. A copy of a tree is an injection of its
nodes into nodes not used yet. `AddChild` leaves open what the last child of the
target is, since the order of siblings is not kept: a text that follows a text is
merged into it and freed, anything else is hung. `SetText` is libxml2's
`xmlNodeSetContent()`, with at most one text for the new content. The owners of a node are the
document it is the root of, the `NodeHolder` that will free it, and `lost`.

### AtExit

`node` is the memory of the list, `exit_handlers` its head, `current` the node
that `call_handlers()` has reached. Functions are entered while the program runs
and from inside a function that is called.

## 3. Runs

Each run asks one question of one component. A run that ends in a violation
checks one statement taken from a comment of the source, which the code does not
keep.

| Run | Shows | Instance |
|---|---|---|
| `EventSafety` | `ImplementsPromise`, `TimedWaitEnds` | 3 threads, so that one set finds two waiters at different points; one thread may wake for no reason |
| `EventLostWakeup` | *violation* of `SetWakesWaiters` (sem.hpp:66): set between unlock and block | 2 threads that never clear |
| `SemaphoreSafety` | `Conserved`, `CallEnds` | 3 threads, 4 calls of any kind, from 1: two can block and one post |
| `PipeSafety` | `FifoOrder`, `NeverPopsEmpty`, `ParkedReaderServed` | 3 readers, one of them woken at will, 2 writers, 4 messages, all read operations mixed |
| `ThreadPoolSafety` | `Accounted`, `FifoTasks`, `StopsSoon`, `DeletedOnce`, `NoUseAfterDestroy`, `AwakeWorkerDrains` | 2 clients, resizing to 0, 1, 2, at most 2 workers ever, 3 tasks that add and count, spurious wake-ups |
| `TimerSafety` | `NeverCallsRemoved`, `NeverOversleeps`, `ListedTimerServed`, `QuitEnds` | 2 addresses, 3 timers, delays below and above one pass, answers 0 and 3, `Scale` 2, 2 ticks, callbacks that lock themselves out, spurious wake-ups |
| `Descriptors` | `NumbersOwned`, `RunAnswers`, `SigpipeRestored`, `CountsExact` | 2 processes, 1 file, 2 RefPtr, 2 sockets and a logger, of which 2 are there at once; 12 numbers, with 0 taken or free; redirecting nothing or stdin and stdout |
| `NetHandles` | `MessagesFindOwner`, `TransfersLand` | 3 Easy, 2 packages, 2 handles, 1 userdata; one handle at a time attached to the Share (`MaxAttached`) |
| `JsonTree` | `OwnedOnce`, `WellLinked` | 3 variables, 4 nodes, 1 key |
| `JsonDocument` | `RoundTrip`, `BuffersHold`, `MinifyKeeps`, `CompareAgrees`, `PointerLeadsBack`, `PatchesLead`, `MergeLeads`, `FailedPatchKeeps` | 11 documents of all types, 20 patches, 3 remarks, 2 steps from any document |
| `XmlTree` | `NodesOwnedOnce`, `ResultsKeepDocument` | 2 documents, 4 nodes, 2 Xml, 2 Node variables, 1 result |
| `AtExitCalled` | *violation* of `EnteredAreCalled` (atexit.h:8): of two functions the first only is called | 3 functions, 3 nodes, 2 priorities |

The runs of the five thread modules check their `TypeOK` (`SemTypeOK`) as well.

**Why the bounds are enough.** Each property of the thread modules relates at
most two threads, tasks or timers and one more that disturbs them, and each
instance has that many. The counts of calls, messages, tasks, workers and timers
are bounded by guards with the constants `MaxCalls`, `MaxWrites`, `MaxTasks`,
`MaxWorkers`, `MaxTimers`; `MaxElapsed` is where the timer's clock stops being
followed (a pass after a longer time does what it does after that one). `Width`
in `SemaphoreSafety` is 8 for 2^32: larger than any count reached from below, and
small enough that a wrap from 0 is seen.

In `Descriptors` an owner loses a number to one other, so two objects at a time
(`MaxActors`) suffice, and two processes for one to inherit the other's pipes;
12 numbers are what two `run()` hold that have both made all their pipes. In
`NetHandles` and `JsonTree` three objects are a source, a copy or target, and a
bystander that still points to one of them or has been moved from; two handles
are the one a call is about and one that it should leave alone; four nodes make
a list of three below a root, so that there is a first, a middle and a last. In
`XmlTree` nodes
are never used again, two documents let a node go from one to the other, and four
nodes are a root with a text in one of them and two copies. What two steps of
`JsonDocument` reach is a document or a text changed by one operation and read by
a second; the properties themselves apply one more to every document and patch.
`NestingLimit` is 3, with one document deeper than that. The lengths of buffers
are around the lengths of the texts. Symmetry is used for variables and objects
that are interchangeable, and in no run that checks liveness.

What the bounds could hide in a safety property is excluded where there is a
proof, for every value.

**Deadlock** is checked in `NetHandles`, where the program can always go on. In
the other runs it is not: users may all stop calling, bounds are used up, and
the thread components have states in which the code itself blocks for ever (a
lost wake-up, a lock left behind), which are what their properties are about.

**Fairness.** A thread that is inside an operation and can go on does (`WF` on
its own steps); callbacks end; time passes, so a timed wait expires and the
timer's clock advances. A task ends however often it asks the pool for
something in between (`SF` on `Finish`, as the task is not running while it
waits for a lock). A thread may wait for a mutex for ever only if others take it
for ever, which the bounds on calls exclude. Nobody is obliged to call anything,
no spurious wake-up is owed, and no fairness is assumed that would let a parked
thread wake by itself.

`QuitEnds` leaves out the window that `EventLostWakeup` exhibits, and
`ParkedReaderServed` starts after it, with a reader that is parked;
`ListedTimerServed` leaves out the thread blocked on the empty list
(timer.cpp:86), and `AwakeWorkerDrains` the worker on its way to sleep
(threadpool.cpp:59-62): together they say that there is no other way for these
operations not to end.

## 4. Proofs

Checked by TLAPS for every value of the constants that satisfies the named
assumptions.

| Theorem | States | Argument |
|---|---|---|
| `SyncProofs!TypeCorrect`, `KeepsPromise` | types; `Event` implements `EventPromise` | `TypeOK` is inductive; each step maps to a step of the promise or to a stutter (a park, and a notified thread that joins `released`) |
| `PipeProofs!TypeCorrect`, `DeliversInOrder` | types; `FifoOrder` | inductive together: what was read and what is queued are consecutive numbers |
| `EventKeepsPromise` of `PipeProofs`, `ThreadPoolProofs` and `TimerProofs` | the event inside the component still implements `EventPromise`; in the timer from each `Init()`, which makes a new one, to the next | `EventStep`: each step of the component is one operation of its event or leaves the event alone, and each operation is a step of the promise or a stutter, given the types |
| `PipeProofs!ReaderNeverPopsEmpty` | `NeverPopsEmpty` for any number of readers | while no two have been inside at once and no wake-up was spurious (`~shared`): once the one reader has cleared `empty_ev` under `mtx`, a flag that is set, or being woken, means a message that nobody else can take |
| `ThreadPoolProofs!TypeCorrect`, `EveryTaskAccounted`, `TasksInOrder` | types; each task in one place and called at most once; order | the queue is the consecutive last of what was added, so a task in it is nowhere else; one lemma for the steps that move a task and one for those that move none |
| `ThreadPoolProofs!StoppedWorkersStop`, `WorkersDeletedOnce`, `NoWorkerOutlivesPool` | `StopsSoon`, `DeletedOnce`, `NoUseAfterDestroy` | `WInv`: the list of workers is the consecutive last of those made; the earlier ones are detached, or joined and gone; a stopped worker is at most one task from its end |
| `SyncProofs!SemTypeCorrect`, `ConservesCount` | types; `Conserved` | until a blocked call counts down only the holder of `val_mutex` unlocks it, so what it has read is the count; the count does not wrap because posts and calls still to post are no more than calls |
| `TimerProofs!TypeCorrect`, `RemovedNeverCalled`, `ThreadNeverOversleeps` | types; `NeverCallsRemoved`; `NeverOversleeps` | no two entries of the list are the same timer and none is removed; `sleep_ms` never leaves 0 |
| `DescriptorsProofs!RefCountsExact` | `CountsExact` of `RefPtr` alone | every operation gives one variable a value or moves a value between two; two lemmas say what that does to the number of holders, the rest is the arithmetic of the counter |
| `DescriptorsProofs!CountsExactHere` | `CountsExact` of the composition | each step of `Descriptors` is a step of `RefPtr` or leaves its state alone |
| `DescriptorsProofs!SigpipePutBack` | `SigpipeRestored` | without an overlap at most one `run()` is asking, and it has saved what the program asked for |
| `DescriptorsProofs!OwnersClose` | `NumbersOwned` | `OwnInv`: until a socket has closed a number of another (`~crossed`), each number of the table is named by its owner and by nobody else, and what a socket, a logger, a file, the ends of a `run()` and the parent's streams name is in the table; opening gives numbers that are free and differ, as two of the same rank are the same number |
| `DescriptorsProofs!RunTellsTheTruth` | `RunAnswers` | `RunInv` adds how far the child is at each point of `run()`, and that a child holds the writing end of an error pipe, its own or one that it inherited, only between its fork and its exec: what `run()` waits for has yet to exec, and an error is told only by a child that has ended |
| `NetHandlesProofs!MessagesReachOwner`, `TransfersUseLiveObjects` | `MessagesFindOwner`, `TransfersLand` | `Inv`: live handles and the Easies that hold one belong together one by one, each package has an Easy of its own, a handle in the Multi has the userdata of its Easy unless it was reset, a pointer that is not `left` names the package of its handle, and a package has its own headers set unless they are `left` or `dropped`; most calls change one handle (`HandleStep`) or make one (`MadeAlone`, `MadePackage`) |
| `JsonProofs!EachOwnedOnce` | `OwnedOnce`, if `~OwningArrays` | `JsonInv`, below: the nodes that a Json will delete are the tops of a forest of all live nodes, and each has one holder |
| `JsonProofs!ListsAreWhole` | `WellLinked`, if `~OwningArrays` | the part of `JsonInv` on links (`Linked`) is stronger: no two links lead to one node, and none leads to or from a node that is not live |
| `JsonProofs!ParsedStringFits` | what `parse_string()` writes fits its allocation, for every text | backwards from the closing quote: from each byte on no more is written than the estimate has steps, and from the byte before, if it is a backslash, neither |
| `JsonProofs!StringReserved` | `print_string_ptr()` asks for exactly what it writes, for every string | the two passes agree on each byte |
| `JsonProofs!StringRoundTrip` | `parse_string()` reads back what `print_string_ptr()` wrote, wherever it stands | the escapes of the bytes are the units of the text, and the walk to the closing quote steps over each |
| `JsonProofs!BuffersSuffice` | the buffer, for any chunks that are `Reserved` and any size at the start | along the chunks: the text is apart from the buffer, the offset is its length and lies in the buffer |
| `JsonProofs!MinifyCopiesString` | when `minify_string()` stops behind the string | each escape is copied whole but `\\`, of which the second backslash is looked at again |
| `XmlTreeProofs!OneOwnerEach` | `NodesOwnedOnce` | `XmlInv`, below: the nodes are a forest whose tops are what the owners own |
| `XmlTreeProofs!ResultsOutliveXml` | `ResultsKeepDocument` | the part of `XmlInv` on results: their document lives, and their nodes are below its root, below what `set_root()` has forgotten, or `replaced` |

**The inductive invariants.** `CountsExact` and the types are inductive almost as
they stand. The others are not, and each needs what the code keeps without
saying so:

- `OwnInv` needs the table read in both directions. That a descriptor has one
  owner is kept by a close only if the number closed is the closer's own, and by
  an opening only if no object names a number that is free. The flag `crossed`
  stands before it as a condition, because `Socket::close()` breaks it.
- `XmlInv` replaces "every live node is owned by one" by a statement on edges
  and one on reach (`Forest`): owners have nothing above them, what is below a
  live node is live, every live node is below an owner. Each call of libxml2 is
  one of a few changes of a forest (a tree freed, hung, planted, copied, cut), each
  with a lemma, and these rest on lemmas about `Below`: it is closed, the least,
  grows with its argument, the same after a change elsewhere, and apart for
  owners that are apart.
- `JsonInv` (`Sound`) is `Forest` for the lists of cJSON, with what `Json` adds:
  the variables that share a holder agree on it, a node to be deleted has one
  holder, a variable points to a live node or to none. Each function of cJSON
  has lemmas on what it does to a forest whose tops are in no list: it makes a
  top, deletes one, cuts a node off, puts a top into a list, takes the place of
  an item, copies a tree. The calls of `Json` are made of these. Induction along
  a list is that `Reach` is the least closed set, and that what reaches a node by
  `prev` ends at a first child. `MergeMembers` is a recursive function along a
  list: that it exists is proved by a largest set of members, closed
  under `prev`, on which it does (subsets of a finite set are well-founded), and
  each member keeps that the patch is still as it was and
  that the places of its later members are still unused.
- `ParsedStringFits` is not true of the walk position by position: the estimate
  (cJSON.c:727-752) skips the byte behind each backslash, the loop that writes
  takes six or twelve bytes for `\uXXXX`, four of which may be anything, also a
  backslash; the two then disagree on where escapes begin. The lemma that holds
  (`Bounded`) is on two positions, and `\uXXXX` pays for the difference: it
  writes at most half as many bytes as it takes.
- `RunInv`, `Inv` of `NetHandles` and `WInv` of `ThreadPool` tie a state that one
  step reads to the step that wrote it, across the steps of others between.

A recursive function `f[i \in S] == ...` is a `CHOOSE`, of which nothing is known
until one is shown to exist. `JsonProofs!Recursion` shows it for every function
whose value at `i` depends on its values at places of a smaller rank (by the
largest rank up to which there is one, and unlike the theorems of the
library without an operator as parameter), and `Recursions` that there is no
other. Both are used once for each loop of `JsonString`; induction along a text is
that a set of bad positions has a least or a greatest.

Each part was checked with TLC on the instance of its run before it was proved.

Assumptions: what is counted is finite or a natural number (`BoundAssumption`,
`SizesAssumption`, `TimesAssumption`, `CountAssumption`, `VarsFinite`), the names
for "nobody" and "nothing" are not those of threads or objects
(`NamesAssumption`, `CallersAssumption`, `NoThreadAssumption`, `NoNames`), the objects counted are
files and processes (`ObjsAre`), descriptors are natural numbers and there are
finitely many (`NumbersAre`), what `run()` can redirect are the two streams of
its interface (`RedirectsAre`), documents and holders have names that are not
those of "none" (`NullIsNone`, `NoVarIsNone`), there are finitely many nodes of cJSON and a null
pointer is none of them (`NodesAre`), flags are Boolean, the count of a semaphore does
not reach its width by the calls made. The two theorems on `JsonTree` assume
besides, as a hypothesis of their own, that `add_item(item)` is called on
references to arrays only, without which `OwnedOnce` is false (finding 8).

Only model-checked:

- every liveness property (`TimedWaitEnds`, `CallEnds`, `ParkedReaderServed`,
  `AwakeWorkerDrains`, `ListedTimerServed`, `QuitEnds`), because the prover does
  no `ENABLED`;
- the properties of `JsonDocument`: they say what `RECURSIVE` operators over
  documents compute, which takes induction over data and a prover that knows such
  operators. For every string and every buffer their parts on bytes are proved:
  of `RoundTrip`, that strings and keys read back (`StringRoundTrip`); of
  `BuffersHold`, the allocation of `parse_string()` (`ParsedStringFits`), and the
  buffer, given that the chunks are `Reserved` (`BuffersSuffice`), which
  `StringReserved` proves for strings and keys and the run checks for whole
  documents; of `MinifyKeeps`, that its exception is the right one and not a
  wider one (`MinifyCopiesString`). `BuffersSuffice` also says that two spare
  bytes are enough for `cJSON_PrintPreallocated()`, where cJSON.h:160 advises
  five.

## 5. What the code does not keep

Each of these is a finding in `PROJECT.json`, with its lines, and most are an
exception that a property names, so that the run shows that there is no other:

1. `Event::wait()` loses a wake-up between sem.cpp:41 and 45, for ever. `Pipe`,
   `ThreadPool` (which repeats the pattern) and `Timer` inherit it.
2. `Semaphore`: a blocked call takes without looking again (sem.cpp:104); with
   two of them the count wraps to 2^32-1.
3. `ThreadPool::add_task` notifies nobody if the worker is between its look at
   the list and its sleep (threadpool.cpp:59-62), and the task stays queued.
4. `~ThreadPool` and a task that asks for the number of free workers, as
   `tests/thpool_test.cpp` does, wait for each other.
5. `Timer::Create` does not wake the thread that waits on an empty list.
6. cJSON's minifier takes the second of two backslashes before a closing quote
   for an escape (cJSON.c:2690): it runs over the closing quote of every string
   that ends in a backslash and has text behind it, and of no other.
7. cJSON_Utils writes wrong escapes in JSON pointers (cJSON_Utils.c:168), and
   walks lists sorted without regard to case with regard to it (1399).
8. `Json::add_item(item)` changes the `ref` of the array, not of the item
   (json.cpp:543): one node with two owners.
9. A moved `EasyPackage` keeps the address of the old response headers
   (factory.cpp:13), `content()` leaves the handle a pointer to a local
   string (factory.cpp:41), and an `Easy` copied, cloned or moved out of a
   package keeps writing into the package's headers (factory.hpp:19).
10. `Xml::set_root` leaks the old root (xml.cpp:146), or, of a reference, frees
    it under the results that name its nodes (153), as `Node::set_text` frees
    children (293); `Node::add_child` keeps a text node that libxml2 has merged
    and freed (311); `collect_to` stores copies that share one holder, which ends
    null (xpath.hpp:73).
11. `Logger::set_output` catches the wrong exception and loses a socket
    (logger.cpp:171).
12. Descriptor 0 counts as a failure (libc/inet.h:33).
13. `Socket::close()` keeps the number, which `~Socket()` closes again
    (socket.cpp:46).
14. Two `run()` in two threads can leave SIGPIPE ignored (subprocess.cpp:124).
15. A function entered at exit in front of the first, or second of two, is never
    called (atexit.c:85).

Listed under `hazards`, and modelled, without a property: the timed
`Pipe::read()` that succeeds keeps `mtx` locked (pipe.hpp:71);
`ThreadPool::wait()` returns while tasks run, and may return with one queued,
which the destructor then drops. Kept by the models and told here only: the
timer counts nanoseconds as microseconds (timer.cpp:89), calls far too early and
sleeps for 0; `RefPtr::reset(ptr)` of an empty pointer forgets the object
(refptr.hpp:96); the ends of redirected streams are not `O_CLOEXEC`, so a child
of another `run()` keeps them open and a stream may see no end of file;
`merge()` frees nodes that other `Json` still refer to (json.cpp:250).

Met while reading, in code that is not modelled:

- a second `run()` of one `SubProcess` overwrites its streams, and children
  nobody waits for stay zombies; the `pipe2()` calls stand inside `assert` and
  go away under `NDEBUG`;
- `set_nonblock(false)` toggles the flag (socket.cpp:82); `File::close()` keeps
  its pointer (filesystem.cpp:126), one print function hands a `va_list` to
  `fprintf` (156), and `readline` tests with `or` where both must hold (187);
- `RefData::reset()` keeps the pointer it has given up (dataguard.hpp:103);
- `check_is_bool` is inverted (json.cpp:498); `unescape_url` is wrong
  (easy.cpp:271, it escapes); Base64 of one last byte reads the
  byte after it (base64.cpp:52); two constructors of `Headers` leave their list
  uninitialised (headers.cpp:23, 29) and `SListDup` never advances (net.cpp:43);
- `call_handlers` leaves `exit_handlers` pointing to what it has freed
  (atexit.c:38), and the list has no lock (63).

## 6. What is left

Every part that keeps state across calls has a module. What could still be added:
a second `run()` of one `SubProcess`; `pipe()` that fails for lack of numbers;
the conversions of `Json` and its reverse iterators; `Multi` from several
threads with the mutexes of `Share`; `Headers` as a sequence of lines. The parts under "Not modelled" above are
functions of their input or wrappers of a library, for which tests do better.
