---------------------------- MODULE Descriptors ----------------------------
(***************************************************************************)
(* The descriptors of the process and who closes them: sockets             *)
(* (src/src/socket.cpp), the output of a Logger (src/src/logger.cpp),      *)
(* files (src/src/filesystem.cpp) and the pipes of SubProcess              *)
(* (src/src/subprocess.cpp), whose objects the program holds by RefPtr.    *)
(* They meet in the kernel's table, where the lowest free number is used   *)
(* next, and in fork(), which hands the table to the child.                *)
(*                                                                         *)
(* An entry of the table is who has to close it.  The program starts each  *)
(* SubProcess once, in a thread of its own; the streams of stdout and      *)
(* stderr are alike and one stands for both.                               *)
(***************************************************************************)
EXTENDS RefPtr, Sequences

CONSTANTS Procs, Files,     \* the objects that RefPtr count
          Socks,            \* variables and new objects of type Socket
          Numbers,          \* bound: 0..n
          Redirects,        \* the sets of streams a run() may redirect
          MaxActors         \* bound: sockets, objects, outputs and stray numbers at once
ASSUME ObjsAre    == Objs = Procs \union Files
ASSUME NumbersAre == Numbers \subseteq Nat /\ IsFiniteSet(Numbers)
Redirectable == {"in", "out"}
ASSUME RedirectsAre == Redirects \subseteq SUBSET Redirectable

Free  == <<"free">>
Log   == <<"log">>
Mine  == <<"program">>      \* given to the program, by detach_fd() or at its start
Lost  == <<"lost">>         \* nobody will close it
Sock(s)      == <<"sock", s>>
File(f)      == <<"file", f>>
End(p, k, e) == <<k, p, e>> \* end e, "r" or "w", of pipe k of p: "comm", "in", "out"
Comm(p)      == End(p, "comm", "w")
\* The end the program uses, and the end the child uses.
Near(p, k) == End(p, k, IF k = "in" THEN "w" ELSE "r")
Far(p, k)  == End(p, k, IF k = "in" THEN "r" ELSE "w")
NoNumber   == -1
NoSock     == -2          \* outside its lifetime

VARIABLES table,    \* number -> who has to close it
          sock,     \* socket -> its fd, or NoSock
          closed,   \* sockets that were closed by close() and keep their fd
          crossed,  \* such a socket has closed what somebody else opened
          log,      \* the fd of the Logger's FileImpl or NetImpl, or NoNumber for StderrImpl
          pc,       \* SubProcess -> how far its run() is
          want,     \* SubProcess -> the streams it redirects
          child,    \* SubProcess -> "none", "forked", "running", "zombie", "reaped"
          held,     \* SubProcess -> the ends of pipes its child has open
          told,     \* SubProcess -> an errno is in its error pipe
          sigpipe,  \* the disposition of SIGPIPE: "program" or "ignored"
          saved,    \* SubProcess -> what its run() will restore
          overlap   \* two run() have overlapped in the part that ignores SIGPIPE
sockvars == <<sock, closed, crossed>>
runvars  == <<pc, want, child, held, told, sigpipe, saved, overlap>>
vars     == <<refs, table, sockvars, log, runvars>>

Init ==
  /\ RefInit
  /\ \E zero \in {Free, Mine} : table = [n \in Numbers |-> IF n = 0 THEN zero ELSE Free]
  /\ sock = [s \in Socks |-> NoSock] /\ closed = {} /\ crossed = FALSE
  /\ log = NoNumber
  /\ pc = [p \in Procs |-> "new"] /\ want = [p \in Procs |-> {}]
  /\ child = [p \in Procs |-> "none"] /\ held = [p \in Procs |-> {}] /\ told = [p \in Procs |-> FALSE]
  /\ sigpipe = "program" /\ saved = [p \in Procs |-> "program"] /\ overlap = FALSE

(***************************************************************************)
(* The kernel                                                              *)
(***************************************************************************)
FreeNumbers == {n \in Numbers : table[n] = Free}
\* The i-th lowest free number, and its place in that order.
Rank(n)     == Cardinality({m \in FreeNumbers : m <= n})
Lowest(i)   == CHOOSE n \in FreeNumbers : Rank(n) = i
CanOpen(k)  == \A i \in 1..k : \E n \in FreeNumbers : Rank(n) = i
\* The table with whos at the lowest free numbers.
Opened(whos) == [n \in Numbers |-> IF table[n] = Free /\ Rank(n) <= Len(whos) THEN whos[Rank(n)] ELSE table[n]]
Room == Cardinality({s \in Socks : sock[s] # NoSock}) + Cardinality({o \in Objs : state[o] # "new"})
        + Cardinality({n \in Numbers \ {0} : table[n] \in {Mine, Lost, Log}}) < MaxActors
Closed(t, who) == [n \in DOMAIN t |-> IF t[n] \in who THEN Free ELSE t[n]]
\* BOX_SOCKET_INVAID
Invalid(n) == n <= 0

(***************************************************************************)
(* Socket                                                                  *)
(***************************************************************************)
\* Create() and the constructors, accept(): number 0 counts as a failure.
OpenSocket(s) ==
  /\ sock[s] = NoSock /\ CanOpen(1) /\ Room
  /\ LET n == Lowest(1)
     IN /\ table' = Opened(<<IF Invalid(n) THEN Lost ELSE Sock(s)>>)
        /\ sock' = IF Invalid(n) THEN sock ELSE [sock EXCEPT ![s] = n]
  /\ UNCHANGED <<refs, closed, crossed, log, runvars>>
\* Pair(), which asks nothing.
Pair(s, t) ==
  /\ s # t /\ sock[s] = NoSock /\ sock[t] = NoSock /\ CanOpen(2) /\ Room
  /\ table' = Opened(<<IF Invalid(Lowest(1)) THEN Lost ELSE Sock(s), Sock(t)>>)
  /\ sock' = [sock EXCEPT ![s] = Lowest(1), ![t] = Lowest(2)]
  /\ UNCHANGED <<refs, closed, crossed, log, runvars>>
\* Socket(NativeSocket) of a number the program has.
AdoptSocket(s) ==
  /\ sock[s] = NoSock
  /\ \E n \in Numbers : /\ table[n] = Mine
                        /\ sock' = [sock EXCEPT ![s] = n]
                        /\ table' = [table EXCEPT ![n] = IF Invalid(n) THEN Lost ELSE Sock(s)]
  /\ UNCHANGED <<refs, closed, crossed, log, runvars>>
\* Socket(Socket &&)
MoveSocketKeeps(s, t) ==
  /\ sock[s] # NoSock /\ sock[t] = NoSock /\ s \notin closed
  /\ sock' = [sock EXCEPT ![t] = sock[s]]
  /\ table' = [n \in Numbers |-> IF table[n] = Sock(s) THEN Sock(t) ELSE table[n]]
  /\ UNCHANGED <<refs, closed, crossed, log, runvars>>
MoveSocket(s, t) ==
  /\ sock[s] # NoSock /\ sock[t] = NoSock
  /\ sock' = [sock EXCEPT ![t] = sock[s], ![s] = NoNumber]
  /\ closed' = IF s \in closed THEN (closed \ {s}) \union {t} ELSE closed
  /\ table' = [n \in Numbers |-> IF table[n] = Sock(s) THEN Sock(t) ELSE table[n]]
  /\ UNCHANGED <<refs, crossed, log, runvars>>
\* detach_fd()
DetachSocket(s) ==
  /\ sock[s] # NoSock /\ s \notin closed
  /\ sock' = [sock EXCEPT ![s] = NoNumber]
  /\ table' = [n \in Numbers |-> IF table[n] = Sock(s) THEN Mine ELSE table[n]]
  /\ UNCHANGED <<refs, closed, crossed, log, runvars>>
\* close(2) of whatever has the number now
CloseNumber(s) ==
  IF Invalid(sock[s]) THEN UNCHANGED <<table, crossed>>
  ELSE /\ table' = [table EXCEPT ![sock[s]] = Free]
       /\ crossed' = (crossed \/ table[sock[s]] \notin {Free, Sock(s)})
\* close() leaves fd as it is.
CloseSocket(s) ==
  /\ sock[s] # NoSock
  /\ CloseNumber(s)
  /\ closed' = IF Invalid(sock[s]) THEN closed ELSE closed \union {s}
  /\ UNCHANGED <<refs, sock, log, runvars>>
\* ~Socket()
DestroySocket(s) ==
  /\ sock[s] # NoSock
  /\ CloseNumber(s)
  /\ sock' = [sock EXCEPT ![s] = NoSock] /\ closed' = closed \ {s}
  /\ UNCHANGED <<refs, log, runvars>>
CloseMine ==
  /\ table' = Closed(table, {Mine}) /\ table' # table
  /\ UNCHANGED <<refs, sockvars, log, runvars>>

(***************************************************************************)
(* Logger::set_output()                                                    *)
(***************************************************************************)
LogToStderr ==
  /\ log # NoNumber /\ log' = NoNumber
  /\ table' = Closed(table, {Log})
  /\ UNCHANGED <<refs, sockvars, runvars>>
\* A new file, or a socket that connects; the old implementation goes after.
LogTo(net) ==
  /\ CanOpen(1) /\ Room
  /\ LET n == Lowest(1)
     IN IF net /\ Invalid(n) THEN table' = Opened(<<Lost>>) /\ UNCHANGED log
        ELSE /\ table' = [Closed(table, {Log}) EXCEPT ![n] = Log]
             /\ log' = n
  /\ UNCHANGED <<refs, sockvars, runvars>>
\* connect() throws SocketError, which the handler for OSError does not catch:
\* the TCP object is forgotten.
LogFails ==
  /\ CanOpen(1) /\ Room /\ table' = Opened(<<Lost>>)
  /\ UNCHANGED <<refs, sockvars, log, runvars>>

(***************************************************************************)
(* File and SubProcess objects, and the RefPtr to them                     *)
(***************************************************************************)
\* File::Open()
OpenFile(v, f) ==
  /\ Construct(v, f) /\ CanOpen(1) /\ Room
  /\ table' = Opened(<<File(f)>>)
  /\ UNCHANGED <<sockvars, log, runvars>>
\* File::detach()
DetachFile(f) ==
  /\ state[f] = "live" /\ table' = [n \in Numbers |-> IF table[n] = File(f) THEN Mine ELSE table[n]]
  /\ table' # table
  /\ UNCHANGED <<refs, sockvars, log, runvars>>
\* new SubProcess()
NewProc(v, p) ==
  /\ Construct(v, p) /\ Room
  /\ UNCHANGED <<table, sockvars, log, runvars>>
\* ~File() and ~SubProcess() close what is left open.  A run() has a holder.
Streams(p) == {Near(p, k) : k \in Redirectable}
CloseDeleted == LET gone == {o \in Objs : state[o] = "live" /\ state'[o] = "deleted"}
                IN table' = Closed(table, {File(f) : f \in gone \intersect Files}
                                          \union UNION {Streams(p) : p \in gone \intersect Procs})
Handles ==
  /\ RefStep /\ CloseDeleted
  /\ \A p \in Procs : state'[p] = "deleted" /\ state[p] = "live" => pc[p] \in {"new", "ran", "failed"}
  /\ UNCHANGED <<sockvars, log, runvars>>

(***************************************************************************)
(* SubProcess::run()                                                       *)
(***************************************************************************)
PipesOf(p, w) == <<End(p, "comm", "r"), Comm(p)>>
                 \o (IF "in" \in w THEN <<Far(p, "in"), Near(p, "in")>> ELSE <<>>)
                 \o (IF "out" \in w THEN <<Near(p, "out"), Far(p, "out")>> ELSE <<>>)
PipeEnds == {Comm(q) : q \in Procs} \union UNION {Streams(q) : q \in Procs}
AllOf(p) == {End(p, k, e) : k \in {"comm", "in", "out"}, e \in {"r", "w"}}

MakePipes(p) ==
  /\ pc[p] = "new" /\ state[p] = "live"
  /\ \E w \in Redirects : /\ CanOpen(Len(PipesOf(p, w)))
                          /\ table' = Opened(PipesOf(p, w))
                          /\ want' = [want EXCEPT ![p] = w]
  /\ pc' = [pc EXCEPT ![p] = "piped"]
  /\ UNCHANGED <<refs, sockvars, log, child, held, told, sigpipe, saved, overlap>>
Fork(p) ==
  /\ pc[p] = "piped" /\ pc' = [pc EXCEPT ![p] = "forked"]
  /\ child' = [child EXCEPT ![p] = "forked"]
  /\ held' = [held EXCEPT ![p] = {table[n] : n \in Numbers} \intersect PipeEnds]
  /\ UNCHANGED <<refs, table, sockvars, log, want, told, sigpipe, saved, overlap>>
\* fork() fails, and run() throws.
ForkFails(p) ==
  /\ pc[p] = "piped" /\ pc' = [pc EXCEPT ![p] = "failed"]
  /\ table' = Closed(table, AllOf(p))
  /\ UNCHANGED <<refs, sockvars, log, want, child, held, told, sigpipe, saved, overlap>>

ExecKeepsPipes(p) ==
  /\ child[p] = "forked" /\ child' = [child EXCEPT ![p] = "running"]
  /\ held' = [held EXCEPT ![p] = @ \ Streams(p)]
  /\ UNCHANGED <<refs, table, sockvars, log, pc, want, told, sigpipe, saved, overlap>>
\* The child closes the program's ends of its streams and starts the program;
\* only the error pipes are O_CLOEXEC.
Exec(p) ==
  /\ child[p] = "forked" /\ child' = [child EXCEPT ![p] = "running"]
  /\ held' = [held EXCEPT ![p] = @ \ (Streams(p) \union {Comm(q) : q \in Procs})]
  /\ UNCHANGED <<refs, table, sockvars, log, pc, want, told, sigpipe, saved, overlap>>
ExecFails(p) ==
  /\ child[p] = "forked" /\ child' = [child EXCEPT ![p] = "zombie"]
  /\ told' = [told EXCEPT ![p] = TRUE]
  /\ held' = [held EXCEPT ![p] = {}]
  /\ UNCHANGED <<refs, table, sockvars, log, pc, want, sigpipe, saved, overlap>>

\* The parent closes the child's ends, ignores SIGPIPE and asks.
Ask(p) ==
  /\ pc[p] = "forked" /\ pc' = [pc EXCEPT ![p] = "asking"]
  /\ table' = Closed(table, {Comm(p)} \union {Far(p, k) : k \in want[p]})
  /\ saved' = [saved EXCEPT ![p] = sigpipe] /\ sigpipe' = "ignored"
  /\ overlap' = (overlap \/ \E q \in Procs : pc[q] = "asking")
  /\ UNCHANGED <<refs, sockvars, log, want, child, held, told>>
CommHolders(p) == {q \in Procs : Comm(p) \in held[q]}
HeldHere(who)  == \E n \in Numbers : table[n] = who
\* read() found the end of file: the program has been started.
Started(p) ==
  /\ pc[p] = "asking" /\ ~told[p] /\ CommHolders(p) = {} /\ ~HeldHere(Comm(p))
  /\ pc' = [pc EXCEPT ![p] = "ran"]
  /\ table' = Closed(table, {End(p, "comm", "r")})
  /\ sigpipe' = saved[p] /\ saved' = [saved EXCEPT ![p] = "program"]
  /\ UNCHANGED <<refs, sockvars, log, want, child, held, told, overlap>>
\* read() found an errno: run() closes the streams and throws.
NotStartedIgnores(p) ==
  /\ pc[p] = "asking" /\ told[p]
  /\ pc' = [pc EXCEPT ![p] = "failed"]
  /\ table' = Closed(table, {End(p, "comm", "r")} \union Streams(p))
  /\ UNCHANGED <<refs, sockvars, log, want, child, held, told, sigpipe, saved, overlap>>
NotStarted(p) ==
  /\ pc[p] = "asking" /\ told[p]
  /\ pc' = [pc EXCEPT ![p] = "failed"]
  /\ table' = Closed(table, {End(p, "comm", "r")} \union Streams(p))
  /\ sigpipe' = saved[p] /\ saved' = [saved EXCEPT ![p] = "program"]
  /\ UNCHANGED <<refs, sockvars, log, want, child, held, told, overlap>>

\* The child ends, by itself or by kill(); wait() and poll() collect it.
Exit(p) ==
  /\ child[p] = "running" /\ child' = [child EXCEPT ![p] = "zombie"]
  /\ held' = [held EXCEPT ![p] = {}]
  /\ UNCHANGED <<refs, table, sockvars, log, pc, want, told, sigpipe, saved, overlap>>
Wait(p) ==
  /\ pc[p] \in {"ran", "failed"} /\ state[p] = "live"
  /\ child[p] = "zombie" /\ child' = [child EXCEPT ![p] = "reaped"]
  /\ UNCHANGED <<refs, table, sockvars, log, pc, want, held, told, sigpipe, saved, overlap>>

Next ==
  /\ ~crossed
  /\ \/ \E s \in Socks : \/ OpenSocket(s) \/ AdoptSocket(s) \/ DetachSocket(s) \/ CloseSocket(s) \/ DestroySocket(s)
                         \/ \E t \in Socks : Pair(s, t) \/ MoveSocket(s, t)
     \/ CloseMine \/ LogToStderr \/ LogFails \/ \E net \in BOOLEAN : LogTo(net)
     \/ Handles \/ \E f \in Files : DetachFile(f) \/ \E v \in Vars : OpenFile(v, f)
     \/ \E p \in Procs : \/ MakePipes(p) \/ Fork(p) \/ ForkFails(p) \/ Exec(p) \/ ExecFails(p) \/ Ask(p)
                         \/ Started(p) \/ NotStarted(p) \/ Exit(p) \/ Wait(p)
                         \/ \E v \in Vars : NewProc(v, p)
Spec == Init /\ [][Next]_vars

(***************************************************************************)
(* Properties                                                              *)
(***************************************************************************)
Streaming(p) == pc[p] \in {"asking", "ran"} /\ state[p] = "live"
\* Who has to close what, read from the objects.
OwnedSocks   == {s \in Socks : sock[s] # NoSock /\ ~Invalid(sock[s]) /\ s \notin closed}
OwnedEnds(p) ==
  (IF pc[p] \in {"piped", "forked"}
   THEN {End(p, "comm", "r"), Comm(p)} \union {End(p, k, e) : k \in want[p], e \in {"r", "w"}} ELSE {})
  \union (IF pc[p] = "asking" THEN {End(p, "comm", "r")} ELSE {})
  \union (IF Streaming(p) THEN {Near(p, k) : k \in want[p]} ELSE {})
Owned == {Sock(s) : s \in OwnedSocks} \union (IF log # NoNumber THEN {Log} ELSE {})
         \union UNION {OwnedEnds(p) : p \in Procs}

\* Every number in the table has one owner, who still names it, and whatever
\* an object names is open: nothing leaks on any path of run(), set_output()
\* and RefPtr, and nothing is closed by another than its owner.  Excepted are
\* the numbers the code is known to lose, and the descriptors that a Socket
\* closes again after close() (socket.cpp:39-48).
NumbersOwned ==
  \/ crossed
  \/ /\ {table[n] : n \in Numbers} \ ({Free, Mine, Lost} \union {File(f) : f \in Files}) = Owned
     /\ \A n, m \in Numbers : n # m /\ table[n] = table[m] => table[n] \in {Free, Mine, Lost}
     /\ \A s \in OwnedSocks : table[sock[s]] = Sock(s)
     /\ \A f \in Files : HeldHere(File(f)) => state[f] = "live"
     /\ log # NoNumber => table[log] = Log

\* run() answers, and answers the truth: while it reads the error pipe, the
\* pipe is open only in children that have not yet reached their exec, whoever
\* forked them, and it returns only if its program was started
\* (subprocess.cpp:101-142).
RunAnswers ==
  \A p \in Procs :
    /\ pc[p] = "asking" => \A q \in CommHolders(p) : child[q] = "forked"
    /\ pc[p] = "asking" => ~HeldHere(Comm(p))
    /\ pc[p] = "ran" => child[p] # "forked" /\ ~told[p]
    /\ pc[p] = "failed" => child[p] \in {"none", "zombie", "reaped"}

\* Outside run() SIGPIPE does what the program asked for, unless two run()
\* have overlapped (subprocess.cpp:124-132, the comment says: put back).
SigpipeRestored == (\A p \in Procs : pc[p] # "asking") => sigpipe = "program" \/ overlap
=============================================================================
