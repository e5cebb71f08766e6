------------------------- MODULE DescriptorsProofs -------------------------
(***************************************************************************)
(* Whatever sockets, pipes, files and children do in between, the program  *)
(* uses RefPtr as the module RefPtr says, so what holds of RefPtr alone    *)
(* holds of the files and processes it counts here; a run() puts SIGPIPE   *)
(* back; every number of the table has one owner, who names it; and run()  *)
(* answers the truth.                                                      *)
(***************************************************************************)
EXTENDS Descriptors, FiniteSetTheorems, TLAPS

(***************************************************************************)
(* RefPtr alone: for any variables and objects the count of an object is   *)
(* the number of RefPtr that hold it, and the object lives exactly as long *)
(* as there is one.                                                        *)
(*                                                                         *)
(* Each operation of RefPtr gives a variable a new value, or moves the     *)
(* value of one to another.  The lemmas OneChanges and OneMoves say what   *)
(* that does to the number of holders; the rest is the arithmetic of the   *)
(* counts.                                                                 *)
(***************************************************************************)
RefTypeOK == /\ ptr \in [Vars -> Objs \union {Null, None}]
             /\ count \in [Objs -> Int]
             /\ state \in [Objs -> {"new", "live", "deleted", "dropped"}]

Size(o) == Cardinality(HoldersOf(o))

Exact == \A o \in Objs : count[o] = Size(o) /\ (state[o] = "live" <=> count[o] # 0)

RefInv == RefTypeOK /\ Exact

\* One when x is o.
At(x, o) == IF x = o THEN 1 ELSE 0

\* The sizes of sets of variables that differ by one variable.
LEMMA Sizes ==
  ASSUME NEW S, S \subseteq Vars
  PROVE  /\ Cardinality(S) \in Nat
         /\ Cardinality(S) = 0 <=> S = {}
         /\ \A v \in S : Cardinality(S \ {v}) = Cardinality(S) - 1
         /\ \A v \in Vars \ S : Cardinality(S \union {v}) = Cardinality(S) + 1
<1>1. IsFiniteSet(S)
  BY VarsFinite, FS_Subset
<1>2. Cardinality(S) \in Nat
  BY <1>1, FS_CardinalityType
<1>3. Cardinality(S) = 0 <=> S = {}
  BY <1>1, FS_EmptySet
<1>4. \A v \in S : Cardinality(S \ {v}) = Cardinality(S) - 1
  BY <1>1, FS_RemoveElement
<1>5. \A v \in Vars \ S : Cardinality(S \union {v}) = Cardinality(S) + 1
  BY <1>1, FS_AddElement
<1> QED
  BY <1>2, <1>3, <1>4, <1>5

\* The number of holders is one of the naturals, and 0 only without a holder.
LEMMA SizeType ==
  ASSUME NEW o \in Objs
  PROVE  Size(o) \in Nat /\ (Size(o) = 0 <=> HoldersOf(o) = {})
<1>1. HoldersOf(o) \subseteq Vars
  BY DEF HoldersOf
<1> QED
  BY <1>1, Sizes DEF Size

\* What is held has been counted.
LEMMA HolderCounts ==
  ASSUME RefInv, NEW v \in Vars, NEW o \in Objs, ptr[v] = o
  PROVE  count[o] \in Nat /\ count[o] >= 1 /\ state[o] = "live"
<1>1. v \in HoldersOf(o)
  BY DEF HoldersOf
<1>2. Size(o) \in Nat /\ Size(o) # 0
  BY <1>1, SizeType
<1> QED
  BY <1>2 DEF RefInv, Exact

\* A variable gets a new value.
LEMMA OneChanges ==
  ASSUME RefTypeOK, NEW v \in Vars, NEW x \in Objs \union {Null, None},
         ptr' = [ptr EXCEPT ![v] = x], NEW o \in Objs
  PROVE  Size(o)' = Size(o) + At(x, o) - At(ptr[v], o)
<1>1. HoldersOf(o) \subseteq Vars /\ Size(o) \in Nat
  BY SizeType DEF HoldersOf
<1>2. CASE ptr[v] = o /\ x = o
  <2>1. HoldersOf(o)' = HoldersOf(o)
    BY <1>2 DEF HoldersOf, RefTypeOK
  <2> QED
    BY <1>1, <1>2, <2>1 DEF Size, At
<1>3. CASE ptr[v] = o /\ x # o
  <2>1. HoldersOf(o)' = HoldersOf(o) \ {v} /\ v \in HoldersOf(o)
    BY <1>3 DEF HoldersOf, RefTypeOK
  <2>2. Cardinality(HoldersOf(o) \ {v}) = Cardinality(HoldersOf(o)) - 1
    BY <1>1, <2>1, Sizes
  <2> QED
    BY <1>1, <1>3, <2>1, <2>2 DEF Size, At
<1>4. CASE ptr[v] # o /\ x = o
  <2>1. HoldersOf(o)' = HoldersOf(o) \union {v} /\ v \in Vars \ HoldersOf(o)
    BY <1>4 DEF HoldersOf, RefTypeOK
  <2>2. Cardinality(HoldersOf(o) \union {v}) = Cardinality(HoldersOf(o)) + 1
    BY <1>1, <2>1, Sizes
  <2> QED
    BY <1>1, <1>4, <2>1, <2>2 DEF Size, At
<1>5. CASE ptr[v] # o /\ x # o
  <2>1. HoldersOf(o)' = HoldersOf(o)
    BY <1>5 DEF HoldersOf, RefTypeOK
  <2> QED
    BY <1>1, <1>5, <2>1 DEF Size, At
<1> QED
  BY <1>2, <1>3, <1>4, <1>5

\* The value of w moves to v, which loses its own.
LEMMA OneMoves ==
  ASSUME RefTypeOK, NEW v \in Vars, NEW w \in Vars, v # w,
         ptr' = [ptr EXCEPT ![v] = ptr[w], ![w] = Null], NEW o \in Objs
  PROVE  /\ Size(o)' = Size(o) - At(ptr[v], o)
         /\ ptr[w] = o => Size(o)' # 0
<1>1. HoldersOf(o) \subseteq Vars /\ Size(o) \in Nat
  BY SizeType DEF HoldersOf
<1>2. CASE ptr[w] = o
  <2>1. v \in HoldersOf(o)' /\ HoldersOf(o)' \subseteq Vars
    BY <1>2, NoNames DEF HoldersOf, RefTypeOK
  <2>2. Size(o)' # 0
    BY <2>1, Sizes DEF Size
  <2>3. w \in HoldersOf(o) /\ HoldersOf(o)' = (HoldersOf(o) \ {w}) \union {v}
    BY <1>2, NoNames DEF HoldersOf, RefTypeOK
  <2>4. CASE ptr[v] = o
    <3>1. HoldersOf(o)' = HoldersOf(o) \ {w}
      BY <2>3, <2>4 DEF HoldersOf
    <3> QED
      BY <1>1, <2>2, <2>3, <2>4, <3>1, Sizes DEF Size, At
  <2>5. CASE ptr[v] # o
    <3> DEFINE S == HoldersOf(o) \ {w}
    <3>1. S \subseteq Vars /\ v \in Vars \ S
      BY <2>5 DEF HoldersOf
    <3>2. Cardinality(S \union {v}) = Cardinality(S) + 1
      BY <3>1, Sizes
    <3>3. Cardinality(S) = Cardinality(HoldersOf(o)) - 1
      BY <1>1, <2>3, Sizes
    <3> QED
      BY <1>1, <2>2, <2>3, <2>5, <3>2, <3>3 DEF Size, At
  <2> QED
    BY <2>4, <2>5
<1>3. CASE ptr[w] # o
  <2>1. CASE ptr[v] = o
    <3>1. HoldersOf(o)' = HoldersOf(o) \ {v} /\ v \in HoldersOf(o)
      BY <1>3, <2>1, NoNames DEF HoldersOf, RefTypeOK
    <3> QED
      BY <1>1, <1>3, <2>1, <3>1, Sizes DEF Size, At
  <2>2. CASE ptr[v] # o
    <3>1. HoldersOf(o)' = HoldersOf(o)
      BY <1>3, <2>2, NoNames DEF HoldersOf, RefTypeOK
    <3> QED
      BY <1>1, <1>3, <2>2, <3>1 DEF Size, At
  <2> QED
    BY <2>1, <2>2
<1> QED
  BY <1>2, <1>3

\* RefPtr(T *) makes the first holder.
LEMMA ConstructKeeps ==
  ASSUME RefInv, NEW v \in Vars, NEW o \in Objs, Construct(v, o)
  PROVE  RefInv'
<1>1. RefTypeOK'
  BY NoNames DEF RefInv, RefTypeOK, Holds, Construct
<1>2. ASSUME NEW p \in Objs
      PROVE  count'[p] = Size(p)' /\ (state'[p] = "live" <=> count'[p] # 0)
  <2>1. Size(p)' = Size(p) + At(o, p) - At(ptr[v], p)
    <3>1. RefTypeOK /\ ptr' = [ptr EXCEPT ![v] = o]
      BY DEF RefInv, RefTypeOK, Holds, Construct
    <3> QED
      BY <3>1, OneChanges
  <2>2. count[p] = Size(p) /\ Size(p) \in Nat /\ (state[p] = "live" <=> count[p] # 0)
    BY SizeType DEF RefInv, Exact
  <2> QED
    BY <2>1, <2>2, NoNames DEF RefInv, RefTypeOK, Holds, At, Construct
<1> QED
  BY <1>1, <1>2 DEF RefInv, Exact

\* RefPtr(const RefPtr &) adds one.
LEMMA CopyKeeps ==
  ASSUME RefInv, NEW v \in Vars, NEW w \in Vars, CopyConstruct(v, w)
  PROVE  RefInv'
<1>1. RefTypeOK'
  BY NoNames DEF RefInv, RefTypeOK, Holds, CopyConstruct
<1>2. ASSUME NEW p \in Objs
      PROVE  count'[p] = Size(p)' /\ (state'[p] = "live" <=> count'[p] # 0)
  <2>1. Size(p)' = Size(p) + At(ptr[w], p) - At(ptr[v], p)
    <3>1. RefTypeOK /\ ptr[w] \in Objs /\ ptr' = [ptr EXCEPT ![v] = ptr[w]]
      BY DEF RefInv, RefTypeOK, Holds, CopyConstruct
    <3> QED
      BY <3>1, OneChanges
  <2>2. count[p] = Size(p) /\ Size(p) \in Nat /\ (state[p] = "live" <=> count[p] # 0)
    BY SizeType DEF RefInv, Exact
  <2>3. \A u \in Vars : ptr[u] = p => count[p] >= 1 /\ state[p] = "live"
    BY HolderCounts
  <2> QED
    BY <2>1, <2>2, <2>3, NoNames DEF RefInv, RefTypeOK, Holds, At, CopyConstruct
<1> QED
  BY <1>1, <1>2 DEF RefInv, Exact

\* RefPtr(RefPtr &&) changes the holder.
LEMMA MoveKeeps ==
  ASSUME RefInv, NEW v \in Vars, NEW w \in Vars, MoveConstruct(v, w)
  PROVE  RefInv'
<1>1. RefTypeOK'
  BY NoNames DEF RefInv, RefTypeOK, Holds, MoveConstruct
<1>2. ASSUME NEW p \in Objs
      PROVE  count'[p] = Size(p)' /\ (state'[p] = "live" <=> count'[p] # 0)
  <2>1. Size(p)' = Size(p) - At(ptr[v], p)
    BY OneMoves, NoNames DEF RefInv, RefTypeOK, Holds, MoveConstruct
  <2>2. count[p] = Size(p) /\ Size(p) \in Nat /\ (state[p] = "live" <=> count[p] # 0)
    BY SizeType DEF RefInv, Exact
  <2> QED
    BY <2>1, <2>2, NoNames DEF RefInv, RefTypeOK, Holds, At, MoveConstruct
<1> QED
  BY <1>1, <1>2 DEF RefInv, Exact

\* ~RefPtr() and reset() take one away, the last with its object.
LEMMA ReleaseKeeps ==
  ASSUME RefInv, NEW v \in Vars, NEW to \in {Null, None}, Release(v, to)
  PROVE  RefInv'
<1>1. RefTypeOK'
  BY NoNames DEF RefInv, RefTypeOK, Holds, Release
<1>2. ASSUME NEW p \in Objs
      PROVE  count'[p] = Size(p)' /\ (state'[p] = "live" <=> count'[p] # 0)
  <2>1. Size(p)' = Size(p) + At(to, p) - At(ptr[v], p)
    <3>1. RefTypeOK /\ ptr' = [ptr EXCEPT ![v] = to]
      BY DEF RefInv, RefTypeOK, Holds, Release
    <3> QED
      BY <3>1, OneChanges
  <2>2. count[p] = Size(p) /\ Size(p) \in Nat /\ (state[p] = "live" <=> count[p] # 0)
    BY SizeType DEF RefInv, Exact
  <2>3. \A u \in Vars : ptr[u] = p => count[p] >= 1 /\ state[p] = "live"
    BY HolderCounts
  <2> QED
    BY <2>1, <2>2, <2>3, NoNames DEF RefInv, RefTypeOK, Holds, At, Release
<1> QED
  BY <1>1, <1>2 DEF RefInv, Exact

\* operator =(const RefPtr &) takes from one object and adds to another.
LEMMA AssignKeeps ==
  ASSUME RefInv, NEW v \in Vars, NEW w \in Vars, Assign(v, w)
  PROVE  RefInv'
<1>1. RefTypeOK'
  BY NoNames DEF RefInv, RefTypeOK, Holds, Assign
<1>2. ASSUME NEW p \in Objs
      PROVE  count'[p] = Size(p)' /\ (state'[p] = "live" <=> count'[p] # 0)
  <2>1. Size(p)' = Size(p) + At(ptr[w], p) - At(ptr[v], p)
    <3>1. RefTypeOK /\ ptr[w] \in Objs /\ ptr' = [ptr EXCEPT ![v] = ptr[w]]
      BY DEF RefInv, RefTypeOK, Holds, Assign
    <3> QED
      BY <3>1, OneChanges
  <2>2. count[p] = Size(p) /\ Size(p) \in Nat /\ (state[p] = "live" <=> count[p] # 0)
    BY SizeType DEF RefInv, Exact
  <2>3. \A u \in Vars : ptr[u] = p => count[p] >= 1 /\ state[p] = "live"
    BY HolderCounts
  <2> QED
    BY <2>1, <2>2, <2>3, NoNames DEF RefInv, RefTypeOK, Holds, At, Assign
<1> QED
  BY <1>1, <1>2 DEF RefInv, Exact

\* operator =(RefPtr &&) takes from what v held.
LEMMA MoveAssignKeeps ==
  ASSUME RefInv, NEW v \in Vars, NEW w \in Vars, MoveAssign(v, w)
  PROVE  RefInv'
<1>1. RefTypeOK'
  BY NoNames DEF RefInv, RefTypeOK, Holds, MoveAssign
<1>2. ASSUME NEW p \in Objs
      PROVE  count'[p] = Size(p)' /\ (state'[p] = "live" <=> count'[p] # 0)
  <2>1. Size(p)' = Size(p) - At(ptr[v], p) /\ (ptr[w] = p => Size(p)' # 0)
    <3>1. RefTypeOK /\ v # w /\ ptr' = [ptr EXCEPT ![v] = ptr[w], ![w] = Null]
      BY DEF RefInv, RefTypeOK, Holds, MoveAssign
    <3> QED
      BY <3>1, OneMoves
  <2>2. count[p] = Size(p) /\ Size(p) \in Nat /\ (state[p] = "live" <=> count[p] # 0)
    BY SizeType DEF RefInv, Exact
  <2>3. \A u \in Vars : ptr[u] = p => count[p] >= 1 /\ state[p] = "live"
    BY HolderCounts
  <2> QED
    BY <2>1, <2>2, <2>3, NoNames DEF RefInv, RefTypeOK, Holds, At, MoveAssign
<1> QED
  BY <1>1, <1>2 DEF RefInv, Exact

\* reset(T *) takes from one object and starts another, or forgets it.
LEMMA ResetToKeeps ==
  ASSUME RefInv, NEW v \in Vars, NEW o \in Objs, ResetTo(v, o)
  PROVE  RefInv'
<1>1. RefTypeOK'
  BY NoNames DEF RefInv, RefTypeOK, Holds, ResetTo
<1>2. ASSUME NEW p \in Objs
      PROVE  count'[p] = Size(p)' /\ (state'[p] = "live" <=> count'[p] # 0)
  <2>1. Size(p)' = IF Holds(v) THEN Size(p) + At(o, p) - At(ptr[v], p) ELSE Size(p)
    <3>1. RefTypeOK /\ (Holds(v) => ptr' = [ptr EXCEPT ![v] = o]) /\ (~Holds(v) => ptr' = ptr)
      BY DEF RefInv, ResetTo
    <3>2. CASE Holds(v)
      BY <3>1, <3>2, OneChanges
    <3>3. CASE ~Holds(v)
      BY <3>1, <3>3 DEF Size, HoldersOf
    <3> QED
      BY <3>2, <3>3
  <2>2. count[p] = Size(p) /\ Size(p) \in Nat /\ (state[p] = "live" <=> count[p] # 0)
    BY SizeType DEF RefInv, Exact
  <2>3. \A u \in Vars : ptr[u] = p => count[p] >= 1 /\ state[p] = "live"
    BY HolderCounts
  <2> QED
    BY <2>1, <2>2, <2>3, NoNames DEF RefInv, RefTypeOK, Holds, At, ResetTo
<1> QED
  BY <1>1, <1>2 DEF RefInv, Exact

\* The counts are exact in every state of every program.
THEOREM RefCountsExact == RefSpec => []CountsExact
<1>1. RefInit => RefInv
  <2> SUFFICES ASSUME RefInit PROVE RefInv
    OBVIOUS
  <2>1. RefTypeOK
    BY DEF RefInit, RefTypeOK
  <2>2. ASSUME NEW o \in Objs PROVE count[o] = Size(o) /\ (state[o] = "live" <=> count[o] # 0)
    <3>1. HoldersOf(o) = {}
      BY NoNames DEF HoldersOf, RefInit
    <3> QED
      BY <3>1, SizeType DEF RefInit
  <2> QED
    BY <2>1, <2>2 DEF RefInv, Exact
<1>2. RefInv /\ [RefNext]_refs => RefInv'
  <2> SUFFICES ASSUME RefInv, [RefNext]_refs PROVE RefInv'
    OBVIOUS
  <2>1. ASSUME NEW v \in Vars, NEW o \in Objs, Construct(v, o) \/ ResetTo(v, o) PROVE RefInv'
    BY <2>1, ConstructKeeps, ResetToKeeps
  <2>2. ASSUME NEW v \in Vars, Destroy(v) \/ Reset(v) PROVE RefInv'
    BY <2>2, ReleaseKeeps DEF Destroy, Reset
  <2>3. ASSUME NEW v \in Vars, NEW w \in Vars, CopyConstruct(v, w) \/ MoveConstruct(v, w) PROVE RefInv'
    BY <2>3, CopyKeeps, MoveKeeps
  <2>4. ASSUME NEW v \in Vars, NEW w \in Vars, Assign(v, w) \/ MoveAssign(v, w) PROVE RefInv'
    BY <2>4, AssignKeeps, MoveAssignKeeps
  <2>5. CASE UNCHANGED refs
    BY <2>5 DEF RefInv, RefTypeOK, Exact, Size, HoldersOf, refs
  <2> QED
    BY <2>1, <2>2, <2>3, <2>4, <2>5 DEF RefNext, RefStep
<1>3. RefInv => CountsExact
  BY SizeType DEF RefInv, Exact, Size, CountsExact
<1> QED
  BY <1>1, <1>2, <1>3, PTL DEF RefSpec

(***************************************************************************)
(* RefPtr in the program                                                   *)
(***************************************************************************)
\* Every step is one of RefPtr, or leaves its counts alone.
LEMMA StepOfRefPtr == [Next]_vars => [RefNext]_refs
<1> SUFFICES ASSUME [Next]_vars PROVE [RefNext]_refs
  OBVIOUS
<1> USE DEF refs
<1>1. ASSUME NEW s \in Socks, NEW t \in Socks,
             \/ OpenSocket(s) \/ AdoptSocket(s) \/ DetachSocket(s) \/ CloseSocket(s) \/ DestroySocket(s)
             \/ Pair(s, t) \/ MoveSocket(s, t)
      PROVE  UNCHANGED refs
  BY <1>1 DEF OpenSocket, AdoptSocket, DetachSocket, CloseSocket, DestroySocket, Pair, MoveSocket
<1>2. ASSUME CloseMine \/ LogToStderr \/ LogFails \/ \E net \in BOOLEAN : LogTo(net)
      PROVE  UNCHANGED refs
  BY <1>2 DEF CloseMine, LogToStderr, LogFails, LogTo
<1>3. CASE Handles
  BY <1>3 DEF Handles, RefNext
<1>4. ASSUME NEW f \in Files, DetachFile(f) \/ \E v \in Vars : OpenFile(v, f)
      PROVE  RefNext \/ UNCHANGED refs
  BY <1>4, ObjsAre DEF DetachFile, OpenFile, RefNext
<1>5. ASSUME NEW p \in Procs, \E v \in Vars : NewProc(v, p)
      PROVE  RefNext
  BY <1>5, ObjsAre DEF NewProc, RefNext
<1>6. ASSUME NEW p \in Procs,
             \/ MakePipes(p) \/ Fork(p) \/ ForkFails(p) \/ Exec(p) \/ ExecFails(p) \/ Ask(p)
             \/ Started(p) \/ NotStarted(p) \/ Exit(p) \/ Wait(p)
      PROVE  UNCHANGED refs
  BY <1>6 DEF MakePipes, Fork, ForkFails, Exec, ExecFails, Ask, Started, NotStarted, Exit, Wait
<1>7. CASE UNCHANGED vars
  BY <1>7 DEF vars
<1> QED
  BY <1>1, <1>2, <1>3, <1>4, <1>5, <1>6, <1>7 DEF Next

\* The counts of files and processes are exact, through every run(), close()
\* and fork() (refptr.hpp:15-108, subprocess.cpp:173-177, filesystem.cpp:97-116).
THEOREM CountsExactHere == Spec => []CountsExact
<1>1. Init => RefInit
  BY DEF Init
<1>2. RefSpec => []CountsExact
  BY RefCountsExact
<1> QED
  BY <1>1, <1>2, StepOfRefPtr, PTL DEF Spec, RefSpec

(***************************************************************************)
(* SIGPIPE.  As long as no two run() overlap in the part that ignores it,  *)
(* at most one is there, and it is the one that knows what to restore.     *)
(***************************************************************************)
Asking == {p \in Procs : pc[p] = "asking"}
SigType == /\ pc \in [Procs -> {"new", "piped", "forked", "asking", "ran", "failed"}]
           /\ saved \in [Procs -> {"program", "ignored"}]
           /\ sigpipe \in {"program", "ignored"}
           /\ overlap \in BOOLEAN
Alone == overlap \/ /\ \A p, q \in Asking : p = q
                    /\ \A p \in Asking : saved[p] = "program"
                    /\ Asking = {} => sigpipe = "program"
SigInv == SigType /\ Alone

LEMMA InitSigInv == Init => SigInv
<1> SUFFICES ASSUME Init PROVE SigInv
  OBVIOUS
<1>1. /\ pc = [p \in Procs |-> "new"] /\ saved = [p \in Procs |-> "program"]
      /\ sigpipe = "program" /\ overlap = FALSE
  BY DEF Init
<1> QED
  BY <1>1 DEF SigInv, SigType, Alone, Asking

\* A run() that is not asking before nor after disturbs nothing.
LEMMA NotAsking ==
  ASSUME SigInv, NEW p \in Procs, NEW to \in {"piped", "forked", "failed"},
         pc[p] # "asking", pc' = [pc EXCEPT ![p] = to], UNCHANGED <<sigpipe, saved, overlap>>
  PROVE  SigInv'
<1>1. SigType'
  BY DEF SigInv, SigType
<1>2. Asking' = Asking
  BY DEF SigInv, SigType, Asking
<1> QED
  BY <1>1, <1>2 DEF SigInv, Alone

LEMMA AskKeeps == ASSUME SigInv, NEW p \in Procs, Ask(p) PROVE SigInv'
<1>1. SigType'
  BY DEF SigInv, SigType, Ask, Asking
<1>2. CASE Asking = {} /\ ~overlap
  <2>1. Asking' = {p} /\ saved'[p] = "program"
    BY <1>2 DEF SigInv, SigType, Alone, Asking, Ask
  <2> QED
    BY <1>1, <2>1 DEF SigInv, Alone
<1>3. CASE Asking # {} \/ overlap
  BY <1>1, <1>3 DEF SigInv, Alone, Asking, Ask
<1> QED
  BY <1>2, <1>3

\* The only one asking puts back what it has saved.
LEMMA AnswerKeeps ==
  ASSUME SigInv, NEW p \in Procs, Started(p) \/ NotStarted(p)
  PROVE  SigInv'
<1>1. PICK to \in {"ran", "failed"} : pc' = [pc EXCEPT ![p] = to]
  BY DEF Started, NotStarted
<1>2. /\ p \in Asking /\ sigpipe' = saved[p] /\ overlap' = overlap
      /\ saved' = [saved EXCEPT ![p] = "program"]
  BY DEF Started, NotStarted, Asking
<1>3. SigType'
  BY <1>1, <1>2 DEF SigInv, SigType
<1>4. Asking' = Asking \ {p}
  BY <1>1 DEF SigInv, SigType, Asking
<1>5. ASSUME ~overlap
      PROVE  Asking' = {} /\ sigpipe' = "program"
  BY <1>2, <1>4, <1>5 DEF SigInv, Alone
<1> QED
  BY <1>2, <1>3, <1>5 DEF SigInv, Alone

LEMMA NextSigInv == SigInv /\ [Next]_vars => SigInv'
<1> SUFFICES ASSUME SigInv, [Next]_vars PROVE SigInv'
  OBVIOUS
<1>1. ASSUME UNCHANGED <<pc, sigpipe, saved, overlap>> PROVE SigInv'
  BY <1>1 DEF SigInv, SigType, Alone, Asking
<1>2. ASSUME NEW s \in Socks, NEW t \in Socks,
             \/ OpenSocket(s) \/ AdoptSocket(s) \/ DetachSocket(s) \/ CloseSocket(s) \/ DestroySocket(s)
             \/ Pair(s, t) \/ MoveSocket(s, t)
      PROVE  SigInv'
  BY <1>1, <1>2 DEF OpenSocket, AdoptSocket, DetachSocket, CloseSocket, DestroySocket, Pair, MoveSocket, runvars
<1>3. ASSUME CloseMine \/ LogToStderr \/ LogFails \/ \E net \in BOOLEAN : LogTo(net)
      PROVE  SigInv'
  BY <1>1, <1>3 DEF CloseMine, LogToStderr, LogFails, LogTo, runvars
<1>4. ASSUME Handles \/ \E f \in Files : DetachFile(f) \/ \E v \in Vars : OpenFile(v, f)
      PROVE  SigInv'
  BY <1>1, <1>4 DEF Handles, DetachFile, OpenFile, runvars
<1>5. ASSUME NEW p \in Procs
      PROVE  /\ MakePipes(p) \/ Fork(p) \/ ForkFails(p) => SigInv'
             /\ Exec(p) \/ ExecFails(p) \/ Exit(p) \/ Wait(p) \/ (\E v \in Vars : NewProc(v, p)) => SigInv'
             /\ Ask(p) \/ Started(p) \/ NotStarted(p) => SigInv'
  <2>1. MakePipes(p) \/ Fork(p) \/ ForkFails(p) => SigInv'
    BY NotAsking DEF MakePipes, Fork, ForkFails
  <2>2. Exec(p) \/ ExecFails(p) \/ Exit(p) \/ Wait(p) \/ (\E v \in Vars : NewProc(v, p)) => SigInv'
    BY <1>1 DEF Exec, ExecFails, Exit, Wait, NewProc, runvars
  <2>3. Ask(p) \/ Started(p) \/ NotStarted(p) => SigInv'
    BY AskKeeps, AnswerKeeps
  <2> QED
    BY <2>1, <2>2, <2>3
<1>6. CASE UNCHANGED vars
  BY <1>1, <1>6 DEF vars, runvars
<1> QED
  BY <1>2, <1>3, <1>4, <1>5, <1>6 DEF Next

\* Whatever forks, fails and answers in between, SIGPIPE is put back, unless
\* two run() overlapped (subprocess.cpp:124-132).
THEOREM SigpipePutBack == Spec => []SigpipeRestored
<1>1. SigInv => SigpipeRestored
  BY DEF SigInv, SigType, Alone, Asking, SigpipeRestored
<1> QED
  BY <1>1, InitSigInv, NextSigInv, PTL DEF Spec

(***************************************************************************)
(* Who owns what.                                                          *)
(***************************************************************************)
Kinds == {"comm", "in", "out"}
Sides == {"r", "w"}
Ends    == {End(p, k, e) : p \in Procs, k \in Kinds, e \in Sides}
Entries == {Free, Log, Mine, Lost} \union {Sock(s) : s \in Socks} \union {File(f) : f \in Files} \union Ends

\* No two of the owners are the same: they differ in what they are or in whose
\* they are.
LEMMA Owners ==
  /\ Free # Log /\ Free # Mine /\ Free # Lost /\ Log # Mine /\ Log # Lost /\ Mine # Lost
  /\ \A s : Sock(s) \notin {Free, Log, Mine, Lost}
  /\ \A f : File(f) \notin {Free, Log, Mine, Lost}
  /\ \A p, e : \A k \in Kinds : End(p, k, e) \notin {Free, Log, Mine, Lost}
  /\ \A s, f : Sock(s) # File(f)
  /\ \A s, p, e : \A k \in Kinds : Sock(s) # End(p, k, e)
  /\ \A f, p, e : \A k \in Kinds : File(f) # End(p, k, e)
  /\ \A s, t : Sock(s) = Sock(t) => s = t
  /\ \A f, g : File(f) = File(g) => f = g
  /\ \A p, q, k, l, d, e : End(p, k, d) = End(q, l, e) => p = q /\ k = l /\ d = e
<1> DEFINE Kind(who) == who[1]
<1>1. /\ Kind(Free) = "free" /\ Kind(Log) = "log" /\ Kind(Mine) = "program" /\ Kind(Lost) = "lost"
      /\ \A s : Kind(Sock(s)) = "sock" /\ Sock(s)[2] = s
      /\ \A f : Kind(File(f)) = "file" /\ File(f)[2] = f
      /\ \A p, k, e : Kind(End(p, k, e)) = k /\ End(p, k, e)[2] = p /\ End(p, k, e)[3] = e
  BY DEF Free, Log, Mine, Lost, Sock, File, End
<1> HIDE DEF Kind
<1>2. Free # Log /\ Free # Mine /\ Free # Lost /\ Log # Mine /\ Log # Lost /\ Mine # Lost
  BY <1>1
<1>3. \A s : Sock(s) \notin {Free, Log, Mine, Lost}
  BY <1>1
<1>4. \A f : File(f) \notin {Free, Log, Mine, Lost}
  BY <1>1
<1>5. \A p, e : \A k \in Kinds : End(p, k, e) \notin {Free, Log, Mine, Lost}
  BY <1>1 DEF Kinds
<1>6. \A s, f : Sock(s) # File(f)
  BY <1>1
<1>7. \A s, p, e : \A k \in Kinds : Sock(s) # End(p, k, e)
  BY <1>1 DEF Kinds
<1>8. \A f, p, e : \A k \in Kinds : File(f) # End(p, k, e)
  BY <1>1 DEF Kinds
<1>9. /\ \A s, t : Sock(s) = Sock(t) => s = t
      /\ \A f, g : File(f) = File(g) => f = g
      /\ \A p, q, k, l, d, e : End(p, k, d) = End(q, l, e) => p = q /\ k = l /\ d = e
  BY <1>1
<1> QED
  BY <1>2, <1>3, <1>4, <1>5, <1>6, <1>7, <1>8, <1>9

(***************************************************************************)
(* The kernel's table.                                                     *)
(***************************************************************************)
\* The place of a free number in their order tells it from the others.
LEMMA Ranks ==
  /\ \A n \in Numbers : Rank(n) \in Nat
  /\ \A n \in FreeNumbers : Rank(n) >= 1
  /\ \A n, m \in FreeNumbers : Rank(n) = Rank(m) => n = m
  /\ 0 \in FreeNumbers => Rank(0) = 1
<1> DEFINE Upto(n) == {m \in FreeNumbers : m <= n}
<1>1. FreeNumbers \subseteq Nat /\ FreeNumbers \subseteq Numbers
  BY NumbersAre DEF FreeNumbers
<1>2. \A n : IsFiniteSet(Upto(n)) /\ Cardinality(Upto(n)) \in Nat
  BY NumbersAre, FS_Subset, FS_CardinalityType DEF FreeNumbers
<1>3. ASSUME NEW n \in FreeNumbers PROVE Rank(n) >= 1
  <2>1. n \in Upto(n)
    BY <1>1, <1>3
  <2> QED
    BY <1>2, <2>1, FS_EmptySet DEF Rank
<1>4. ASSUME NEW n \in FreeNumbers, NEW m \in FreeNumbers, n < m PROVE Rank(n) # Rank(m)
  <2>0. m <= m /\ ~(m <= n) /\ \A x \in FreeNumbers : x <= n => x <= m
    BY <1>1, <1>4
  <2>1. Upto(n) \subseteq Upto(m) /\ m \in Upto(m) /\ m \notin Upto(n)
    BY <2>0
  <2>2. Upto(n) # Upto(m)
    BY <2>1
  <2>3. Cardinality(Upto(n)) # Cardinality(Upto(m))
    BY <1>2, <2>1, <2>2, FS_Subset
  <2> QED
    BY <2>3 DEF Rank
<1>5. ASSUME 0 \in FreeNumbers PROVE Rank(0) = 1
  <2>0. \A x \in FreeNumbers : x <= 0 <=> x = 0
    BY <1>1
  <2>1. Upto(0) = {0}
    BY <1>5, <2>0
  <2> QED
    BY <2>1, FS_Singleton DEF Rank
<1>6. \A n, m \in FreeNumbers : n = m \/ n < m \/ m < n
  BY <1>1
<1> QED
  BY <1>2, <1>3, <1>4, <1>5, <1>6 DEF Rank

\* Opening fills as many free numbers as there are new owners, each owner once,
LEMMA Opens ==
  ASSUME NEW whos, Len(whos) \in Nat, CanOpen(Len(whos))
  PROVE  /\ Opened(whos) = [n \in Numbers |-> Opened(whos)[n]]
         /\ \A i \in 1..Len(whos) : /\ Lowest(i) \in Numbers /\ table[Lowest(i)] = Free
                                    /\ Opened(whos)[Lowest(i)] = whos[i]
         /\ \A i, j \in 1..Len(whos) : Lowest(i) = Lowest(j) => i = j
         /\ \A i \in 1..Len(whos) : Lowest(i) = 0 => i = 1
<1>1. ASSUME NEW i \in 1..Len(whos)
      PROVE  Lowest(i) \in FreeNumbers /\ Rank(Lowest(i)) = i
  BY DEF CanOpen, Lowest
<1>2. ASSUME NEW i \in 1..Len(whos)
      PROVE  /\ Lowest(i) \in Numbers /\ table[Lowest(i)] = Free
             /\ Opened(whos)[Lowest(i)] = whos[i]
  BY <1>1 DEF Opened, FreeNumbers
<1>3. \A i, j \in 1..Len(whos) : Lowest(i) = Lowest(j) => i = j
  BY <1>1
<1>4. \A i \in 1..Len(whos) : Lowest(i) = 0 => i = 1
  BY <1>1, Ranks
<1> QED
  BY <1>2, <1>3, <1>4 DEF Opened

\* and no other number.
LEMMA OpensOnly ==
  ASSUME NEW whos, Len(whos) \in Nat, CanOpen(Len(whos)),
         NEW n \in Numbers, Opened(whos)[n] # table[n]
  PROVE  \E i \in 1..Len(whos) : n = Lowest(i)
<1>1. n \in FreeNumbers /\ Rank(n) <= Len(whos)
  BY DEF Opened, FreeNumbers
<1>2. Rank(n) \in 1..Len(whos)
  BY <1>1, Ranks
<1>3. Lowest(Rank(n)) \in FreeNumbers /\ Rank(Lowest(Rank(n))) = Rank(n)
  BY <1>1 DEF Lowest
<1>4. Lowest(Rank(n)) = n
  BY <1>1, <1>3, Ranks
<1> QED
  BY <1>2, <1>4

\* Opening one number
LEMMA OpensOne ==
  ASSUME NEW S, table \in [Numbers -> S], NEW who, CanOpen(1), NEW whos, whos = <<who>>
  PROVE  /\ Lowest(1) \in Numbers /\ table[Lowest(1)] = Free
         /\ Opened(whos) = [table EXCEPT ![Lowest(1)] = who]
<1>1. Len(whos) = 1 /\ whos[1] = who
  OBVIOUS
<1>2. Len(whos) \in Nat /\ CanOpen(Len(whos))
  BY <1>1
<1>3. 1 \in 1..Len(whos) /\ \A i \in 1..Len(whos) : i = 1
  BY <1>1
<1>4. /\ Opened(whos) = [m \in Numbers |-> Opened(whos)[m]]
      /\ \A i \in 1..Len(whos) : /\ Lowest(i) \in Numbers /\ table[Lowest(i)] = Free
                                 /\ Opened(whos)[Lowest(i)] = whos[i]
  BY <1>2, Opens
<1>5. ASSUME NEW m \in Numbers, Opened(whos)[m] # table[m] PROVE m = Lowest(1)
  <2>1. \E i \in 1..Len(whos) : m = Lowest(i)
    BY <1>2, <1>5, OpensOnly
  <2> QED
    BY <1>3, <2>1
<1> QED
  BY <1>1, <1>3, <1>4, <1>5

\* and two.
LEMMA OpensTwo ==
  ASSUME NEW S, table \in [Numbers -> S], NEW a, NEW b, CanOpen(2), NEW whos, whos = <<a, b>>
  PROVE  /\ Lowest(1) \in Numbers /\ table[Lowest(1)] = Free
         /\ Lowest(2) \in Numbers /\ table[Lowest(2)] = Free
         /\ Lowest(1) # Lowest(2) /\ Lowest(2) # 0
         /\ Opened(whos) = [table EXCEPT ![Lowest(1)] = a, ![Lowest(2)] = b]
<1>1. Len(whos) = 2 /\ whos[1] = a /\ whos[2] = b
  OBVIOUS
<1>2. Len(whos) \in Nat /\ CanOpen(Len(whos))
  BY <1>1
<1>3. 1 \in 1..Len(whos) /\ 2 \in 1..Len(whos) /\ \A i \in 1..Len(whos) : i \in {1, 2}
  BY <1>1
<1>4. /\ Opened(whos) = [m \in Numbers |-> Opened(whos)[m]]
      /\ \A i \in 1..Len(whos) : /\ Lowest(i) \in Numbers /\ table[Lowest(i)] = Free
                                 /\ Opened(whos)[Lowest(i)] = whos[i]
  BY <1>2, Opens
<1>5. ASSUME NEW m \in Numbers, Opened(whos)[m] # table[m] PROVE m = Lowest(1) \/ m = Lowest(2)
  <2>1. \E i \in 1..Len(whos) : m = Lowest(i)
    BY <1>2, <1>5, OpensOnly
  <2> QED
    BY <1>3, <2>1
<1>6. /\ \A i, j \in 1..Len(whos) : Lowest(i) = Lowest(j) => i = j
      /\ \A i \in 1..Len(whos) : Lowest(i) = 0 => i = 1
  BY <1>2, Opens
<1>7. Lowest(1) # Lowest(2) /\ Lowest(2) # 0
  BY <1>3, <1>6
<1>8. /\ Lowest(1) \in Numbers /\ table[Lowest(1)] = Free /\ Opened(whos)[Lowest(1)] = a
      /\ Lowest(2) \in Numbers /\ table[Lowest(2)] = Free /\ Opened(whos)[Lowest(2)] = b
  BY <1>1, <1>3, <1>4
<1> QED
  BY <1>4, <1>5, <1>7, <1>8

\* Both ends of some pipes of p, each once.
EachEnd(s, p, kinds) ==
  /\ Len(s) \in Nat
  /\ \A i, j \in 1..Len(s) : s[i] = s[j] => i = j
  /\ \A i \in 1..Len(s) : \E k \in kinds, e \in Sides : s[i] = End(p, k, e)
  /\ \A k \in kinds, e \in Sides : \E i \in 1..Len(s) : s[i] = End(p, k, e)
\* What run() puts into the table: the pipe for the error and one for each
\* stream it redirects.
LEMMA Pipes ==
  ASSUME NEW p \in Procs, NEW w, w \subseteq Redirectable
  PROVE  EachEnd(PipesOf(p, w), p, {"comm"} \union w)
<1>1. w = {} \/ w = {"in"} \/ w = {"out"} \/ w = {"in", "out"}
  BY DEF Redirectable
<1>2. CASE w = {}
  <2> DEFINE s == PipesOf(p, w)
  <2>1. /\ Len(s) = 2
        /\ s[1] = End(p, "comm", "r") /\ s[2] = End(p, "comm", "w")
    BY <1>2 DEF PipesOf, Comm, Near, Far
  <2> HIDE DEF s
  <2>2. EachEnd(s, p, {"comm"} \union w)
    BY <1>2, <2>1, Owners DEF EachEnd, Sides
  <2> QED
    BY <2>2 DEF s
<1>3. CASE w = {"in"}
  <2> DEFINE s == PipesOf(p, w)
  <2>1. /\ Len(s) = 4
        /\ s[1] = End(p, "comm", "r") /\ s[2] = End(p, "comm", "w")
        /\ s[3] = End(p, "in", "r") /\ s[4] = End(p, "in", "w")
    BY <1>3 DEF PipesOf, Comm, Near, Far
  <2> HIDE DEF s
  <2>2. EachEnd(s, p, {"comm"} \union w)
    BY <1>3, <2>1, Owners DEF EachEnd, Sides
  <2> QED
    BY <2>2 DEF s
<1>4. CASE w = {"out"}
  <2> DEFINE s == PipesOf(p, w)
  <2>1. /\ Len(s) = 4
        /\ s[1] = End(p, "comm", "r") /\ s[2] = End(p, "comm", "w")
        /\ s[3] = End(p, "out", "r") /\ s[4] = End(p, "out", "w")
    BY <1>4 DEF PipesOf, Comm, Near, Far
  <2> HIDE DEF s
  <2>2. EachEnd(s, p, {"comm"} \union w)
    BY <1>4, <2>1, Owners DEF EachEnd, Sides
  <2> QED
    BY <2>2 DEF s
<1>5. CASE w = {"in", "out"}
  <2> DEFINE s == PipesOf(p, w)
  <2>1. /\ Len(s) = 6
        /\ s[1] = End(p, "comm", "r") /\ s[2] = End(p, "comm", "w")
        /\ s[3] = End(p, "in", "r") /\ s[4] = End(p, "in", "w")
        /\ s[5] = End(p, "out", "r") /\ s[6] = End(p, "out", "w")
    BY <1>5 DEF PipesOf, Comm, Near, Far
  <2> HIDE DEF s
  <2>2. EachEnd(s, p, {"comm"} \union w)
    BY <1>5, <2>1, Owners DEF EachEnd, Sides
  <2> QED
    BY <2>2 DEF s
<1> QED
  BY <1>1, <1>2, <1>3, <1>4, <1>5

(***************************************************************************)
(* The invariant.                                                          *)
(***************************************************************************)
TypeOK ==
  /\ table \in [Numbers -> Entries]
  /\ sock \in [Socks -> Numbers \union {NoNumber, NoSock}]
  /\ closed \subseteq {s \in Socks : sock[s] # NoSock}
  /\ log \in Numbers \union {NoNumber}
  /\ pc \in [Procs -> {"new", "piped", "forked", "asking", "ran", "failed"}]
  /\ want \in [Procs -> SUBSET Redirectable]
  /\ child \in [Procs -> {"none", "forked", "running", "zombie", "reaped"}]
  /\ held \in [Procs -> SUBSET PipeEnds]
  /\ told \in [Procs -> BOOLEAN]
  /\ state \in [Objs -> {"new", "live", "deleted", "dropped"}]
  /\ crossed \in BOOLEAN

Open(s) == sock[s] # NoSock /\ ~Invalid(sock[s]) /\ s \notin closed
\* A socket's number is the one that says so, and the Logger's.
SockInv == \A s \in Socks, n \in Numbers : table[n] = Sock(s) <=> Open(s) /\ sock[s] = n
LogInv  == \A n \in Numbers : table[n] = Log <=> log = n
\* A file is open at one number at most, and only while it lives.
FileInv == \A f \in Files, n \in Numbers :
             table[n] = File(f) => state[f] = "live" /\ \A m \in Numbers : table[m] = File(f) => m = n

\* The ends of pipes SubProcess p has to close.
Has(p, k, e) ==
  \/ pc[p] \in {"piped", "forked"} /\ k \in {"comm"} \union want[p]
  \/ pc[p] = "asking" /\ k = "comm" /\ e = "r"
  \/ Streaming(p) /\ k \in want[p] /\ e = IF k = "in" THEN "w" ELSE "r"
EndInv(p) ==
  \A k \in Kinds, e \in Sides :
    /\ HeldHere(End(p, k, e)) <=> Has(p, k, e)
    /\ \A n, m \in Numbers : table[n] = End(p, k, e) /\ table[m] = End(p, k, e) => n = m
\* run() runs on an object that lives.
LiveInv ==
  \A p \in Procs : /\ pc[p] # "new" => state[p] # "new"
                   /\ pc[p] \in {"piped", "forked", "asking"} => state[p] = "live"
TableInv == SockInv /\ LogInv /\ FileInv /\ (\A p \in Procs : EndInv(p)) /\ LiveInv

(***************************************************************************)
(* What leaves the numbers of an owner alone.                              *)
(***************************************************************************)
Keeps(S) == \A n \in Numbers : table[n] \in S \/ table'[n] \in S => table'[n] = table[n]
SockEntries == {Sock(s) : s \in Socks}
FileEntries == {File(f) : f \in Files}

\* A step that keeps the entries of a kind keeps what the invariant says of it.
LEMMA SockFrame ==
  ASSUME SockInv, Keeps(SockEntries), UNCHANGED <<sock, closed>>
  PROVE  SockInv'
BY DEF SockInv, Keeps, SockEntries, Open

LEMMA LogFrame ==
  ASSUME LogInv, Keeps({Log}), UNCHANGED log
  PROVE  LogInv'
BY DEF LogInv, Keeps

LEMMA FileFrame ==
  ASSUME FileInv, Keeps(FileEntries), \A f \in Files : state[f] = "live" => state'[f] = "live"
  PROVE  FileInv'
BY DEF FileInv, Keeps, FileEntries

LEMMA EndFrame ==
  ASSUME NEW p \in Procs, EndInv(p), Keeps(AllOf(p)), pc'[p] = pc[p], want'[p] = want[p],
         pc[p] \in {"asking", "ran"} => (state[p] = "live" <=> state'[p] = "live")
  PROVE  EndInv(p)'
<1>1. \A k \in Kinds, e \in Sides : End(p, k, e) \in AllOf(p)
  BY DEF AllOf, Kinds, Sides
<1>2. \A k \in Kinds, e \in Sides : Has(p, k, e)' <=> Has(p, k, e)
  BY DEF Has, Streaming
<1>3. \A k \in Kinds, e \in Sides, n \in Numbers : table'[n] = End(p, k, e) <=> table[n] = End(p, k, e)
  BY <1>1 DEF Keeps
<1> QED
  BY <1>2, <1>3 DEF EndInv, HeldHere

(***************************************************************************)
(* Sockets.                                                                *)
(***************************************************************************)
NotSocks == {Log} \union FileEntries \union Ends
SocketKeeps == SockInv' /\ Keeps(NotSocks)

\* The entries by kind, for the steps that follow.
LEMMA Apart ==
  /\ {Free, Mine, Lost} \intersect NotSocks = {} /\ SockEntries \intersect NotSocks = {}
  /\ {Free, Mine, Lost} \intersect SockEntries = {}
  /\ Entries = {Free, Mine, Lost} \union SockEntries \union NotSocks
<1>1. \A x \in Ends : \E p \in Procs, k \in Kinds, e \in Sides : x = End(p, k, e)
  BY DEF Ends
<1>2. {Free, Mine, Lost} \intersect NotSocks = {}
  BY <1>1, Owners DEF NotSocks, FileEntries
<1>3. SockEntries \intersect NotSocks = {}
  BY <1>1, Owners DEF NotSocks, FileEntries, SockEntries
<1>4. {Free, Mine, Lost} \intersect SockEntries = {}
  BY Owners DEF SockEntries
<1>5. Entries = {Free, Mine, Lost} \union SockEntries \union NotSocks
  BY DEF Entries, NotSocks, SockEntries, FileEntries
<1> QED
  BY <1>2, <1>3, <1>4, <1>5

\* A new socket has the lowest number, or none when that is 0.
LEMMA OpenSocketKeeps ==
  ASSUME TypeOK, SockInv, NEW s \in Socks, OpenSocket(s)
  PROVE  TypeOK' /\ SocketKeeps
<1> DEFINE n == Lowest(1)
           who == IF Invalid(n) THEN Lost ELSE Sock(s)
<1>1. /\ CanOpen(1) /\ table' = Opened(<<who>>)
      /\ sock' = IF Invalid(n) THEN sock ELSE [sock EXCEPT ![s] = n]
      /\ UNCHANGED <<refs, closed, crossed, log, runvars>>
      /\ sock[s] = NoSock
  BY DEF OpenSocket
<1>2. /\ n \in Numbers /\ table[n] = Free /\ table'[n] = who
      /\ \A m \in Numbers : table'[m] # table[m] => m = n
      /\ table' = [m \in Numbers |-> table'[m]]
  <2> HIDE DEF n, who
  <2>1. /\ Lowest(1) \in Numbers /\ table[Lowest(1)] = Free
        /\ Opened(<<who>>) = [table EXCEPT ![Lowest(1)] = who]
    BY <1>1, OpensOne DEF TypeOK
  <2> QED
    BY <1>1, <2>1 DEF n, TypeOK
<1>3. who \in {Lost} \union SockEntries
  BY DEF SockEntries
<1>4. TypeOK'
  <2>1. table' \in [Numbers -> Entries]
    BY <1>2, <1>3, Apart DEF TypeOK
  <2>2. sock' \in [Socks -> Numbers \union {NoNumber, NoSock}]
    BY <1>1, <1>2 DEF TypeOK
  <2>3. closed' \subseteq {x \in Socks : sock'[x] # NoSock}
    BY <1>1, <1>2, NumbersAre DEF TypeOK
  <2> QED
    BY <1>1, <2>1, <2>2, <2>3 DEF TypeOK, refs, runvars
<1>5. ASSUME NEW x \in Socks, NEW m \in Numbers
      PROVE  table'[m] = Sock(x) <=> Open(x)' /\ sock'[x] = m
  <2>1. table[m] = Sock(x) <=> Open(x) /\ sock[x] = m
    BY DEF SockInv
  <2>2. CASE x = s /\ ~Invalid(n)
    <3>1. ~Open(s) /\ Open(s)' /\ sock'[s] = n
      BY <1>1, <1>2, <2>2, NumbersAre DEF TypeOK, Open, Invalid, NoSock
    <3> QED
      BY <1>2, <2>1, <2>2, <3>1
  <2>3. CASE x # s \/ Invalid(n)
    <3>1. (Open(x)' <=> Open(x)) /\ sock'[x] = sock[x]
      BY <1>1, <2>3 DEF TypeOK, Open
    <3>2. who # Sock(x) /\ Free # Sock(x)
      BY <2>3, Owners
    <3> QED
      BY <1>2, <2>1, <3>1, <3>2
  <2> QED
    BY <2>2, <2>3
<1>6. Keeps(NotSocks)
  BY <1>2, <1>3, Apart DEF Keeps
<1> QED
  BY <1>4, <1>5, <1>6 DEF SocketKeeps, SockInv

\* Of a pair the second is never at 0.
LEMMA PairKeeps ==
  ASSUME TypeOK, SockInv, NEW s \in Socks, NEW t \in Socks, Pair(s, t)
  PROVE  TypeOK' /\ SocketKeeps
<1> DEFINE n1 == Lowest(1)
           n2 == Lowest(2)
           who == IF Invalid(n1) THEN Lost ELSE Sock(s)
<1>1. /\ CanOpen(2) /\ table' = Opened(<<who, Sock(t)>>)
      /\ sock' = [sock EXCEPT ![s] = n1, ![t] = n2]
      /\ UNCHANGED <<refs, closed, crossed, log, runvars>>
      /\ s # t /\ sock[s] = NoSock /\ sock[t] = NoSock
  BY DEF Pair
<1>2. /\ n1 \in Numbers /\ table[n1] = Free /\ n2 \in Numbers /\ table[n2] = Free
      /\ n1 # n2 /\ n2 # 0
      /\ table' = [table EXCEPT ![n1] = who, ![n2] = Sock(t)]
  <2> HIDE DEF n1, n2, who
  <2>1. /\ Lowest(1) \in Numbers /\ table[Lowest(1)] = Free
        /\ Lowest(2) \in Numbers /\ table[Lowest(2)] = Free
        /\ Lowest(1) # Lowest(2) /\ Lowest(2) # 0
        /\ Opened(<<who, Sock(t)>>) = [table EXCEPT ![Lowest(1)] = who, ![Lowest(2)] = Sock(t)]
    BY <1>1, OpensTwo DEF TypeOK
  <2> QED
    BY <1>1, <2>1 DEF n1, n2
<1>3. who \in {Lost} \union SockEntries /\ Sock(t) \in SockEntries
  BY DEF SockEntries
<1>4. TypeOK'
  <2>1. table' \in [Numbers -> Entries]
    BY <1>2, <1>3, Apart DEF TypeOK
  <2>2. sock' \in [Socks -> Numbers \union {NoNumber, NoSock}]
    BY <1>1, <1>2 DEF TypeOK
  <2>3. closed' \subseteq {x \in Socks : sock'[x] # NoSock}
    BY <1>1, <1>2, NumbersAre DEF TypeOK
  <2> QED
    BY <1>1, <2>1, <2>2, <2>3 DEF TypeOK, refs, runvars
<1>5. ASSUME NEW x \in Socks, NEW m \in Numbers
      PROVE  table'[m] = Sock(x) <=> Open(x)' /\ sock'[x] = m
  <2>1. table[m] = Sock(x) <=> Open(x) /\ sock[x] = m
    BY DEF SockInv
  <2>2. CASE x = s
    <3>1. ~Open(s) /\ (Open(s)' <=> ~Invalid(n1)) /\ sock'[s] = n1
      BY <1>1, <1>2, NumbersAre DEF TypeOK, Open, Invalid, NoSock
    <3>2. Sock(t) # Sock(s) /\ Lost # Sock(s)
      BY <1>1, Owners
    <3> QED
      BY <1>2, <2>1, <2>2, <3>1, <3>2 DEF TypeOK
  <2>3. CASE x = t
    <3>1. ~Open(t) /\ t \notin closed' /\ sock'[t] = n2
      BY <1>1 DEF TypeOK, Open
    <3>2. n2 \in Nat /\ n2 # 0
      BY <1>2, NumbersAre
    <3>3. Open(t)'
      BY <3>1, <3>2 DEF Open, Invalid, NoSock
    <3>4. who # Sock(t)
      BY <1>1, Owners
    <3> QED
      BY <1>2, <2>1, <2>3, <3>1, <3>3, <3>4 DEF TypeOK
  <2>4. CASE x # s /\ x # t
    <3>1. (Open(x)' <=> Open(x)) /\ sock'[x] = sock[x]
      BY <1>1, <2>4 DEF TypeOK, Open
    <3>2. who # Sock(x) /\ Sock(t) # Sock(x) /\ Free # Sock(x)
      BY <2>4, Owners
    <3> QED
      BY <1>2, <2>1, <3>1, <3>2 DEF TypeOK
  <2> QED
    BY <2>2, <2>3, <2>4
<1>6. Keeps(NotSocks)
  BY <1>2, <1>3, Apart DEF Keeps, TypeOK
<1> QED
  BY <1>4, <1>5, <1>6 DEF SocketKeeps, SockInv

\* A number the program had changes its owner.
LEMMA AdoptSocketKeeps ==
  ASSUME TypeOK, SockInv, NEW s \in Socks, AdoptSocket(s)
  PROVE  TypeOK' /\ SocketKeeps
<1>1. PICK n \in Numbers : /\ table[n] = Mine
                           /\ sock' = [sock EXCEPT ![s] = n]
                           /\ table' = [table EXCEPT ![n] = IF Invalid(n) THEN Lost ELSE Sock(s)]
  BY DEF AdoptSocket
<1> DEFINE who == IF Invalid(n) THEN Lost ELSE Sock(s)
<1>2. sock[s] = NoSock /\ UNCHANGED <<refs, closed, crossed, log, runvars>>
  BY DEF AdoptSocket
<1>3. who \in {Lost} \union SockEntries /\ table' = [table EXCEPT ![n] = who]
  BY <1>1 DEF SockEntries
<1>4. TypeOK'
  <2>1. table' \in [Numbers -> Entries]
    BY <1>3, Apart DEF TypeOK
  <2>2. sock' \in [Socks -> Numbers \union {NoNumber, NoSock}]
    BY <1>1 DEF TypeOK
  <2>3. closed' \subseteq {x \in Socks : sock'[x] # NoSock}
    BY <1>1, <1>2, NumbersAre DEF TypeOK
  <2> QED
    BY <1>2, <2>1, <2>2, <2>3 DEF TypeOK, refs, runvars
<1>5. ASSUME NEW x \in Socks, NEW m \in Numbers
      PROVE  table'[m] = Sock(x) <=> Open(x)' /\ sock'[x] = m
  <2>1. table[m] = Sock(x) <=> Open(x) /\ sock[x] = m
    BY DEF SockInv
  <2>2. Mine # Sock(x) /\ Lost # Sock(x)
    BY Owners
  <2>3. CASE x = s
    <3>1. ~Open(s) /\ (Open(s)' <=> ~Invalid(n)) /\ sock'[s] = n
      BY <1>1, <1>2, NumbersAre DEF TypeOK, Open, Invalid, NoSock
    <3> QED
      BY <1>1, <2>1, <2>2, <2>3, <3>1 DEF TypeOK
  <2>4. CASE x # s
    <3>1. (Open(x)' <=> Open(x)) /\ sock'[x] = sock[x]
      BY <1>1, <1>2, <2>4 DEF TypeOK, Open
    <3>2. who # Sock(x)
      BY <2>4, Owners
    <3> QED
      BY <1>1, <1>3, <2>1, <2>2, <3>1, <3>2 DEF TypeOK
  <2> QED
    BY <2>3, <2>4
<1>6. Keeps(NotSocks)
  BY <1>1, <1>3, Apart DEF Keeps, TypeOK
<1> QED
  BY <1>4, <1>5, <1>6 DEF SocketKeeps, SockInv

\* The moved socket is the owner, unless it was closed before.
LEMMA MoveSocketOwns ==
  ASSUME TypeOK, SockInv, NEW s \in Socks, NEW t \in Socks, MoveSocket(s, t)
  PROVE  TypeOK' /\ SocketKeeps
<1>1. /\ sock[s] # NoSock /\ sock[t] = NoSock
      /\ sock' = [sock EXCEPT ![t] = sock[s], ![s] = NoNumber]
      /\ closed' = IF s \in closed THEN (closed \ {s}) \union {t} ELSE closed
      /\ table' = [n \in Numbers |-> IF table[n] = Sock(s) THEN Sock(t) ELSE table[n]]
      /\ UNCHANGED <<refs, crossed, log, runvars>>
  BY DEF MoveSocket
<1>2. Sock(s) \in SockEntries /\ Sock(t) \in SockEntries
  BY DEF SockEntries
<1>3. TypeOK'
  <2>1. table' \in [Numbers -> Entries]
    BY <1>1, <1>2, Apart DEF TypeOK
  <2>2. sock' \in [Socks -> Numbers \union {NoNumber, NoSock}]
    BY <1>1 DEF TypeOK
  <2>3. closed' \subseteq {x \in Socks : sock'[x] # NoSock}
    BY <1>1 DEF TypeOK, NoNumber, NoSock
  <2> QED
    BY <1>1, <2>1, <2>2, <2>3 DEF TypeOK, refs, runvars
<1>4. ASSUME NEW x \in Socks, NEW m \in Numbers
      PROVE  table'[m] = Sock(x) <=> Open(x)' /\ sock'[x] = m
  <2>1. /\ table[m] = Sock(x) <=> Open(x) /\ sock[x] = m
        /\ table[m] = Sock(s) <=> Open(s) /\ sock[s] = m
    BY DEF SockInv
  <2>2. s # t /\ Sock(s) # Sock(t)
    BY <1>1, Owners
  <2>3. CASE x = s
    <3>1. ~Open(s)' /\ table'[m] # Sock(s)
      BY <1>1, <2>2 DEF TypeOK, Open, Invalid, NoNumber
    <3> QED
      BY <2>3, <3>1
  <2>4. CASE x = t
    <3>1. ~Open(t) /\ (Open(t)' <=> Open(s)) /\ sock'[t] = sock[s]
      BY <1>1, <2>2 DEF TypeOK, Open
    <3> QED
      BY <1>1, <2>1, <2>4, <3>1
  <2>5. CASE x # s /\ x # t
    <3>1. (Open(x)' <=> Open(x)) /\ sock'[x] = sock[x]
      BY <1>1, <2>5 DEF TypeOK, Open
    <3>2. Sock(x) # Sock(s) /\ Sock(x) # Sock(t)
      BY <2>5, Owners
    <3> QED
      BY <1>1, <2>1, <3>1, <3>2
  <2> QED
    BY <2>3, <2>4, <2>5
<1>5. Keeps(NotSocks)
  BY <1>1, <1>2, Apart DEF Keeps
<1> QED
  BY <1>3, <1>4, <1>5 DEF SocketKeeps, SockInv

\* The program owns what a socket gives away.
LEMMA DetachSocketKeeps ==
  ASSUME TypeOK, SockInv, NEW s \in Socks, DetachSocket(s)
  PROVE  TypeOK' /\ SocketKeeps
<1>1. /\ sock[s] # NoSock /\ s \notin closed
      /\ sock' = [sock EXCEPT ![s] = NoNumber]
      /\ table' = [n \in Numbers |-> IF table[n] = Sock(s) THEN Mine ELSE table[n]]
      /\ UNCHANGED <<refs, closed, crossed, log, runvars>>
  BY DEF DetachSocket
<1>2. Sock(s) \in SockEntries
  BY DEF SockEntries
<1>3. TypeOK'
  <2>1. table' \in [Numbers -> Entries]
    BY <1>1, <1>2, Apart DEF TypeOK
  <2>2. sock' \in [Socks -> Numbers \union {NoNumber, NoSock}]
    BY <1>1 DEF TypeOK
  <2>3. closed' \subseteq {x \in Socks : sock'[x] # NoSock}
    BY <1>1 DEF TypeOK
  <2> QED
    BY <1>1, <2>1, <2>2, <2>3 DEF TypeOK, refs, runvars
<1>4. ASSUME NEW x \in Socks, NEW m \in Numbers
      PROVE  table'[m] = Sock(x) <=> Open(x)' /\ sock'[x] = m
  <2>1. table[m] = Sock(x) <=> Open(x) /\ sock[x] = m
    BY DEF SockInv
  <2>2. Mine # Sock(x)
    BY Owners
  <2>3. CASE x = s
    <3>1. ~Open(s)' /\ table'[m] # Sock(s)
      BY <1>1, <2>2, <2>3 DEF TypeOK, Open, Invalid, NoNumber
    <3> QED
      BY <2>3, <3>1
  <2>4. CASE x # s
    <3>1. (Open(x)' <=> Open(x)) /\ sock'[x] = sock[x]
      BY <1>1, <2>4 DEF TypeOK, Open
    <3>2. Sock(x) # Sock(s)
      BY <2>4, Owners
    <3> QED
      BY <1>1, <2>1, <2>2, <3>1, <3>2
  <2> QED
    BY <2>3, <2>4
<1>5. Keeps(NotSocks)
  BY <1>1, <1>2, Apart DEF Keeps
<1> QED
  BY <1>3, <1>4, <1>5 DEF SocketKeeps, SockInv

\* close() and ~Socket() free the number of s, unless it was closed before and
\* is free already, or crosses.
LEMMA CloseKeeps ==
  ASSUME TypeOK, ~crossed => SockInv, NEW s \in Socks, CloseSocket(s) \/ DestroySocket(s)
  PROVE  /\ TypeOK'
         /\ \A n \in Numbers : table'[n] # table[n] => table'[n] = Free
         /\ ~crossed' => ~crossed /\ SocketKeeps
<1>1. /\ sock[s] # NoSock /\ CloseNumber(s)
      /\ UNCHANGED <<refs, log, runvars>>
      /\ \/ sock' = sock /\ closed' = IF Invalid(sock[s]) THEN closed ELSE closed \union {s}
         \/ sock' = [sock EXCEPT ![s] = NoSock] /\ closed' = closed \ {s}
  BY DEF CloseSocket, DestroySocket
<1>2. CASE Invalid(sock[s])
  <2>1. UNCHANGED <<table, crossed>>
    BY <1>1, <1>2 DEF CloseNumber
  <2>2. TypeOK'
    BY <1>1, <1>2, <2>1 DEF TypeOK, refs, runvars
  <2>3. \A x \in Socks : (Open(x)' <=> Open(x)) /\ (Open(x) => sock'[x] = sock[x])
    BY <1>1, <1>2 DEF TypeOK, Open, Invalid, NoSock
  <2> QED
    BY <2>1, <2>2, <2>3 DEF SocketKeeps, SockInv, Keeps
<1>3. CASE ~Invalid(sock[s])
  <2> DEFINE n == sock[s]
  <2>1. n \in Numbers
    BY <1>3 DEF TypeOK, Invalid, NoNumber, NoSock
  <2>2. /\ table' = [table EXCEPT ![n] = Free]
        /\ crossed' = (crossed \/ table[n] \notin {Free, Sock(s)})
    BY <1>1, <1>3 DEF CloseNumber
  <2>3. Free \in Entries
    BY Apart
  <2>4. TypeOK'
    BY <1>1, <1>3, <2>2, <2>3 DEF TypeOK, refs, runvars
  <2>5. ASSUME ~crossed'
        PROVE  ~crossed /\ SocketKeeps
    <3>1. ~crossed /\ table[n] \in {Free, Sock(s)}
      BY <2>2, <2>5
    <3>2. ASSUME NEW x \in Socks, NEW m \in Numbers
          PROVE  table'[m] = Sock(x) <=> Open(x)' /\ sock'[x] = m
      <4>1. table[m] = Sock(x) <=> Open(x) /\ sock[x] = m
        BY <3>1 DEF SockInv
      <4>2. Free # Sock(x)
        BY Owners
      <4>3. CASE x = s
        <5>1. ~Open(s)'
          BY <1>1, <1>3 DEF TypeOK, Open
        <5>2. table'[m] # Sock(s)
          BY <2>1, <2>2, <4>1, <4>2, <4>3 DEF TypeOK
        <5> QED
          BY <4>3, <5>1, <5>2
      <4>4. CASE x # s
        <5>1. (Open(x)' <=> Open(x)) /\ sock'[x] = sock[x]
          BY <1>1, <4>4 DEF TypeOK, Open
        <5>2. Sock(x) # Sock(s)
          BY <4>4, Owners
        <5> QED
          BY <2>1, <2>2, <3>1, <4>1, <4>2, <5>1, <5>2 DEF TypeOK
      <4> QED
        BY <4>3, <4>4
    <3>3. Sock(s) \in SockEntries
      BY DEF SockEntries
    <3>4. Keeps(NotSocks)
      BY <2>1, <2>2, <3>1, <3>3, Apart DEF Keeps, TypeOK
    <3> QED
      BY <3>1, <3>2, <3>4 DEF SocketKeeps, SockInv
  <2>6. \A m \in Numbers : table'[m] # table[m] => table'[m] = Free
    BY <2>1, <2>2 DEF TypeOK
  <2> QED
    BY <2>4, <2>5, <2>6
<1> QED
  BY <1>2, <1>3

(***************************************************************************)
(* The Logger, files and processes.                                        *)
(***************************************************************************)
\* The Logger, files and pipes are different owners.
LEMMA ApartToo ==
  /\ Log \notin FileEntries /\ Log \notin Ends /\ FileEntries \intersect Ends = {}
  /\ \A p \in Procs : AllOf(p) \subseteq Ends /\ AllOf(p) \intersect SockEntries = {}
<1>1. \A x \in Ends : \E p \in Procs, k \in Kinds, e \in Sides : x = End(p, k, e)
  BY DEF Ends
<1>2. Log \notin FileEntries /\ Log \notin Ends /\ FileEntries \intersect Ends = {}
  BY <1>1, Owners DEF FileEntries
<1>3. \A p \in Procs : AllOf(p) \subseteq Ends
  BY DEF AllOf, Ends, Kinds, Sides
<1>4. Ends \intersect SockEntries = {}
  BY Apart DEF NotSocks
<1> QED
  BY <1>2, <1>3, <1>4

\* Closing frees the numbers of some owners.
LEMMA Closes ==
  ASSUME TypeOK, NEW W
  PROVE  /\ Closed(table, W) \in [Numbers -> Entries]
         /\ \A n \in Numbers : Closed(table, W)[n] = IF table[n] \in W THEN Free ELSE table[n]
BY Apart DEF TypeOK, Closed

\* What the Logger and the sockets do leaves the pipes alone.
LEMMA EndsFrame ==
  ASSUME \A p \in Procs : EndInv(p), Keeps(Ends), UNCHANGED <<state, pc, want>>
  PROVE  \A p \in Procs : EndInv(p)'
<1> SUFFICES ASSUME NEW p \in Procs PROVE EndInv(p)'
  OBVIOUS
<1>1. Keeps(AllOf(p))
  BY ApartToo DEF Keeps
<1> QED
  BY <1>1, EndFrame

\* Whatever a Socket does, the rest of the table stays as it was.
LEMMA SocketLeaves ==
  ASSUME TableInv, SocketKeeps, UNCHANGED <<refs, log, runvars>>
  PROVE  TableInv'
<1>1. Keeps({Log}) /\ Keeps(FileEntries) /\ Keeps(Ends)
  BY DEF SocketKeeps, Keeps, NotSocks
<1>2. UNCHANGED <<state, pc, want, log>>
  BY DEF refs, runvars
<1>3. LogInv' /\ FileInv'
  BY <1>1, <1>2, LogFrame, FileFrame DEF TableInv
<1>4. \A p \in Procs : EndInv(p)'
  BY <1>1, <1>2, EndsFrame DEF TableInv
<1>5. LiveInv'
  BY <1>2 DEF TableInv, LiveInv
<1> QED
  BY <1>3, <1>4, <1>5 DEF TableInv, SocketKeeps

\* So does what the Logger does.
LEMMA LogLeaves ==
  ASSUME TableInv, LogInv', Keeps(SockEntries \union FileEntries \union Ends),
         UNCHANGED <<refs, sockvars, runvars>>
  PROVE  TableInv'
<1>1. Keeps(SockEntries) /\ Keeps(FileEntries) /\ Keeps(Ends)
  BY DEF Keeps
<1>2. UNCHANGED <<state, pc, want, sock, closed>>
  BY DEF refs, runvars, sockvars
<1>3. SockInv' /\ FileInv'
  BY <1>1, <1>2, SockFrame, FileFrame DEF TableInv
<1>4. \A p \in Procs : EndInv(p)'
  BY <1>1, <1>2, EndsFrame DEF TableInv
<1>5. LiveInv'
  BY <1>2 DEF TableInv, LiveInv
<1> QED
  BY <1>3, <1>4, <1>5 DEF TableInv

\* The program's own numbers are nobody else's.
LEMMA CloseMineKeeps ==
  ASSUME TypeOK, TableInv, CloseMine
  PROVE  TypeOK' /\ TableInv'
<1>1. /\ table' = Closed(table, {Mine})
      /\ UNCHANGED <<refs, sockvars, log, runvars>>
  BY DEF CloseMine
<1>2. TypeOK'
  BY <1>1, Closes DEF TypeOK, refs, sockvars, runvars
<1>3. Keeps(SockEntries \union NotSocks)
  BY <1>1, Closes, Apart DEF Keeps
<1>4. Keeps({Log}) /\ Keeps(SockEntries \union FileEntries \union Ends)
  BY <1>3 DEF Keeps, NotSocks
<1>5. LogInv'
  BY <1>1, <1>4, LogFrame DEF TableInv
<1> QED
  BY <1>1, <1>2, <1>4, <1>5, LogLeaves

\* set_output() of stderr closes what was there.
LEMMA LogToStderrKeeps ==
  ASSUME TypeOK, TableInv, LogToStderr
  PROVE  TypeOK' /\ TableInv'
<1>1. /\ table' = Closed(table, {Log}) /\ log' = NoNumber
      /\ UNCHANGED <<refs, sockvars, runvars>>
  BY DEF LogToStderr
<1>2. TypeOK'
  BY <1>1, Closes DEF TypeOK, refs, sockvars, runvars
<1>3. Keeps(SockEntries \union FileEntries \union Ends)
  <2>1. {Log, Free} \intersect (SockEntries \union FileEntries \union Ends) = {}
    BY Apart, ApartToo DEF NotSocks
  <2> QED
    BY <1>1, <2>1, Closes DEF Keeps
<1>4. LogInv'
  BY <1>1, Closes, Owners, NumbersAre DEF LogInv, NoNumber
<1> QED
  BY <1>1, <1>2, <1>3, <1>4, LogLeaves

\* A number nobody closes is lost.
LEMMA LoseKeeps ==
  ASSUME TypeOK, TableInv, CanOpen(1), table' = Opened(<<Lost>>),
         UNCHANGED <<refs, sockvars, log, runvars>>
  PROVE  TypeOK' /\ TableInv'
<1>1. /\ Lowest(1) \in Numbers /\ table[Lowest(1)] = Free
      /\ table' = [table EXCEPT ![Lowest(1)] = Lost]
  BY OpensOne DEF TypeOK
<1>2. TypeOK'
  BY <1>1, Apart DEF TypeOK, refs, sockvars, runvars
<1>3. Keeps(SockEntries \union NotSocks)
  BY <1>1, Apart DEF Keeps, TypeOK
<1>4. Keeps({Log}) /\ Keeps(SockEntries \union FileEntries \union Ends)
  BY <1>3 DEF Keeps, NotSocks
<1>5. LogInv'
  BY <1>4, LogFrame DEF TableInv
<1> QED
  BY <1>2, <1>4, <1>5, LogLeaves

\* set_output() of a file or a socket replaces what was there.
LEMMA LogToKeeps ==
  ASSUME TypeOK, TableInv, NEW net \in BOOLEAN, LogTo(net)
  PROVE  TypeOK' /\ TableInv'
<1>1. CASE net /\ Invalid(Lowest(1))
  <2>1. CanOpen(1) /\ table' = Opened(<<Lost>>) /\ UNCHANGED <<refs, sockvars, log, runvars>>
    BY <1>1 DEF LogTo
  <2> QED
    BY <2>1, LoseKeeps
<1>2. CASE ~(net /\ Invalid(Lowest(1)))
  <2> DEFINE n == Lowest(1)
  <2>1. /\ CanOpen(1) /\ table' = [Closed(table, {Log}) EXCEPT ![n] = Log] /\ log' = n
        /\ UNCHANGED <<refs, sockvars, runvars>>
    BY <1>2 DEF LogTo
  <2>2. n \in Numbers /\ table[n] = Free
    BY <2>1, OpensOne DEF TypeOK
  <2> HIDE DEF n
  <2>3. /\ Log \in Entries /\ Free # Log
        /\ {Log, Free} \intersect (SockEntries \union FileEntries \union Ends) = {}
    BY Apart, ApartToo, Owners DEF NotSocks
  <2>4. \A m \in Numbers : table'[m] = IF m = n THEN Log ELSE IF table[m] = Log THEN Free ELSE table[m]
    BY <2>1, <2>2, Closes
  <2>5. TypeOK'
    BY <2>1, <2>2, <2>3, Closes DEF TypeOK, refs, sockvars, runvars
  <2>6. Keeps(SockEntries \union FileEntries \union Ends)
    BY <2>2, <2>3, <2>4 DEF Keeps
  <2>7. LogInv'
    BY <2>1, <2>2, <2>3, <2>4 DEF LogInv
  <2> QED
    BY <2>1, <2>5, <2>6, <2>7, LogLeaves
<1> QED
  BY <1>1, <1>2

\* A File that is made has the lowest number.
LEMMA OpenFileKeeps ==
  ASSUME TypeOK, TableInv, NEW v \in Vars, NEW f \in Files, OpenFile(v, f)
  PROVE  TypeOK' /\ TableInv'
<1> DEFINE n == Lowest(1)
<1>1. /\ state[f] = "new" /\ state' = [state EXCEPT ![f] = "live"]
      /\ UNCHANGED <<sockvars, log, runvars>>
  BY DEF OpenFile, Construct
<1>2. /\ n \in Numbers /\ table[n] = Free /\ table' = [table EXCEPT ![n] = File(f)]
  BY OpensOne DEF TypeOK, OpenFile
<1> HIDE DEF n
<1>3. /\ File(f) \in FileEntries /\ File(f) \in Entries /\ f \in Objs
      /\ {File(f), Free} \intersect (SockEntries \union {Log} \union Ends) = {}
  BY Apart, ApartToo, Owners, ObjsAre DEF FileEntries, NotSocks
<1>4. TypeOK'
  BY <1>1, <1>2, <1>3 DEF TypeOK, sockvars, runvars
<1>5. Keeps(SockEntries) /\ Keeps({Log}) /\ Keeps(Ends)
  BY <1>2, <1>3 DEF Keeps, TypeOK
<1>6. SockInv' /\ LogInv'
  BY <1>1, <1>5, SockFrame, LogFrame DEF TableInv, sockvars
<1>7. ASSUME NEW p \in Procs PROVE EndInv(p)' 
  <2>1. Keeps(AllOf(p))
    BY <1>5, ApartToo DEF Keeps
  <2>2. pc[p] # "new" => state[p] # "new"
    BY DEF TableInv, LiveInv
  <2>3. pc[p] \in {"asking", "ran"} => (state[p] = "live" <=> state'[p] = "live")
    BY <1>1, <2>2, ObjsAre DEF TypeOK
  <2> QED
    BY <1>1, <2>1, <2>3, EndFrame DEF TableInv, runvars
<1>8. ASSUME NEW g \in Files, NEW m \in Numbers, table'[m] = File(g)
      PROVE  state'[g] = "live" /\ \A l \in Numbers : table'[l] = File(g) => l = m
  <2>1. table[n] # File(g) /\ \A l \in Numbers : table[l] # File(f)
    BY <1>1, <1>2, Owners DEF TableInv, FileInv
  <2>2. f # g => File(f) # File(g)
    BY Owners
  <2>3. g \in Objs
    BY ObjsAre
  <2> QED
    BY <1>1, <1>2, <1>3, <1>8, <2>1, <2>2, <2>3 DEF TypeOK, TableInv, FileInv
<1>9. LiveInv'
  BY <1>1, ObjsAre DEF TableInv, LiveInv, TypeOK, runvars
<1> QED
  BY <1>4, <1>6, <1>7, <1>8, <1>9 DEF TableInv, FileInv

\* detach() gives the number of a file to the program.
LEMMA DetachFileKeeps ==
  ASSUME TypeOK, TableInv, NEW f \in Files, DetachFile(f)
  PROVE  TypeOK' /\ TableInv'
<1>1. /\ table' = [n \in Numbers |-> IF table[n] = File(f) THEN Mine ELSE table[n]]
      /\ UNCHANGED <<refs, sockvars, log, runvars>>
  BY DEF DetachFile
<1>2. /\ Mine \in Entries
      /\ {File(f), Mine} \intersect (SockEntries \union {Log} \union Ends) = {}
  BY Apart, ApartToo, Owners DEF FileEntries, NotSocks
<1>3. TypeOK'
  BY <1>1, <1>2 DEF TypeOK, refs, sockvars, runvars
<1>4. Keeps(SockEntries) /\ Keeps({Log}) /\ Keeps(Ends)
  BY <1>1, <1>2 DEF Keeps, TypeOK
<1>5. SockInv' /\ LogInv' /\ (\A p \in Procs : EndInv(p)') /\ LiveInv'
  BY <1>1, <1>4, SockFrame, LogFrame, EndsFrame DEF TableInv, LiveInv, sockvars, refs, runvars
<1>6. FileInv'
  BY <1>1, Owners DEF TableInv, FileInv, refs
<1> QED
  BY <1>3, <1>5, <1>6 DEF TableInv

\* A SubProcess that is made has nothing open.
LEMMA NewProcKeeps ==
  ASSUME TypeOK, TableInv, NEW v \in Vars, NEW q \in Procs, NewProc(v, q)
  PROVE  TypeOK' /\ TableInv'
<1>1. /\ state[q] = "new" /\ state' = [state EXCEPT ![q] = "live"] /\ q \in Objs
      /\ UNCHANGED <<table, sockvars, log, runvars>>
  BY ObjsAre DEF NewProc, Construct
<1>2. TypeOK'
  BY <1>1 DEF TypeOK, sockvars, runvars
<1>3. \A S : Keeps(S)
  BY <1>1 DEF Keeps
<1>4. SockInv' /\ LogInv'
  BY <1>1, <1>3, SockFrame, LogFrame DEF TableInv, sockvars
<1>5. ASSUME NEW p \in Procs PROVE EndInv(p)' 
  <2>1. pc[p] # "new" => state[p] # "new"
    BY DEF TableInv, LiveInv
  <2>2. pc[p] \in {"asking", "ran"} => (state[p] = "live" <=> state'[p] = "live")
    BY <1>1, <2>1, ObjsAre DEF TypeOK
  <2> QED
    BY <1>1, <1>3, <2>2, EndFrame DEF TableInv, runvars
<1>6. FileInv'
  BY <1>1, ObjsAre DEF TableInv, FileInv, TypeOK
<1>7. LiveInv'
  BY <1>1, ObjsAre DEF TableInv, LiveInv, TypeOK, runvars
<1> QED
  BY <1>2, <1>4, <1>5, <1>6, <1>7 DEF TableInv

(***************************************************************************)
(* The RefPtr.                                                             *)
(***************************************************************************)
\* An operation of RefPtr may delete objects and makes none.
LEMMA RefStepEnds ==
  ASSUME TypeOK, RefStep
  PROVE  /\ state' \in [Objs -> {"new", "live", "deleted", "dropped"}]
         /\ \A o \in Objs : state'[o] = state[o] \/ state'[o] = "deleted"
<1> DEFINE Ended == /\ state' \in [Objs -> {"new", "live", "deleted", "dropped"}]
                    /\ \A o \in Objs : state'[o] = state[o] \/ state'[o] = "deleted"
<1>1. ASSUME NEW v \in Vars, NEW to, Release(v, to) PROVE Ended
  BY <1>1 DEF Release, TypeOK, Holds
<1>2. ASSUME NEW v \in Vars, Destroy(v) \/ Reset(v) PROVE Ended
  BY <1>1, <1>2 DEF Destroy, Reset
<1>3. ASSUME NEW v \in Vars, NEW w \in Vars, CopyConstruct(v, w) \/ MoveConstruct(v, w) PROVE Ended
  BY <1>3 DEF CopyConstruct, MoveConstruct, TypeOK
<1>4. ASSUME NEW v \in Vars, NEW w \in Vars, Assign(v, w) \/ MoveAssign(v, w) PROVE Ended
  BY <1>4 DEF Assign, MoveAssign, TypeOK, Holds
<1> QED
  BY <1>2, <1>3, <1>4 DEF RefStep

\* An object that is deleted takes its descriptors with it.
LEMMA HandlesKeeps ==
  ASSUME TypeOK, TableInv, Handles
  PROVE  /\ TypeOK' /\ TableInv'
         /\ \A n \in Numbers : table'[n] \in Ends => table'[n] = table[n]
<1> DEFINE gone == {o \in Objs : state[o] = "live" /\ state'[o] = "deleted"}
           W == {File(f) : f \in gone \intersect Files} \union UNION {Streams(p) : p \in gone \intersect Procs}
<1>1. /\ RefStep /\ table' = Closed(table, W) /\ UNCHANGED <<sockvars, log, runvars>>
      /\ \A p \in Procs : state'[p] = "deleted" /\ state[p] = "live" => pc[p] \in {"new", "ran", "failed"}
  BY DEF Handles, CloseDeleted
<1>2. /\ state' \in [Objs -> {"new", "live", "deleted", "dropped"}]
      /\ \A o \in Objs : state'[o] = state[o] \/ state'[o] = "deleted"
  BY <1>1, RefStepEnds
<1>3. /\ table' \in [Numbers -> Entries]
      /\ \A n \in Numbers : table'[n] = IF table[n] \in W THEN Free ELSE table[n]
  BY <1>1, Closes
<1>4. \A p \in Procs : Streams(p) \subseteq AllOf(p)
  BY DEF Streams, AllOf, Near, Redirectable
<1>5. W \subseteq FileEntries \union Ends
  BY <1>4, ApartToo DEF FileEntries
<1>6. W \intersect (SockEntries \union {Log, Free}) = {} /\ Free \notin SockEntries \union {Log} \union Ends
  <2>1. (FileEntries \union Ends) \intersect (SockEntries \union {Log, Free}) = {}
    BY Apart, ApartToo, Owners DEF NotSocks
  <2>2. Free \notin SockEntries \union {Log} \union Ends
    BY Apart, ApartToo, Owners DEF NotSocks
  <2> QED
    BY <1>5, <2>1, <2>2
<1> HIDE DEF W
<1>7. TypeOK'
  BY <1>1, <1>2, <1>3 DEF TypeOK, sockvars, runvars
<1>8. Keeps(SockEntries) /\ Keeps({Log})
  BY <1>3, <1>6 DEF Keeps
<1>9. SockInv' /\ LogInv'
  BY <1>1, <1>8, SockFrame, LogFrame DEF TableInv, sockvars
<1>10. ASSUME NEW f \in Files, NEW n \in Numbers, table'[n] = File(f)
       PROVE  state'[f] = "live" /\ \A m \in Numbers : table'[m] = File(f) => m = n
  <2>1. File(f) # Free
    BY Owners
  <2>2. table[n] = File(f) /\ File(f) \notin W
    BY <1>3, <1>10, <2>1
  <2>3. f \in Objs /\ f \notin gone
    BY <2>2, ObjsAre DEF W
  <2>4. state[f] = "live" /\ \A m \in Numbers : table[m] = File(f) => m = n
    BY <2>2 DEF TableInv, FileInv
  <2>5. state'[f] = "live"
    BY <1>2, <2>3, <2>4
  <2> QED
    BY <1>3, <2>1, <2>4, <2>5
<1>11. ASSUME NEW p \in Procs PROVE EndInv(p)'
  <2>1. p \in Objs /\ UNCHANGED <<pc, want>>
    BY <1>1, ObjsAre DEF runvars
  <2>2. CASE p \notin gone
    <3>1. state[p] = "live" <=> state'[p] = "live"
      BY <1>2, <2>1, <2>2
    <3>2. W \intersect AllOf(p) = {}
      <4>1. \A q \in Procs : q # p => AllOf(q) \intersect AllOf(p) = {}
        BY Owners DEF AllOf
      <4>2. FileEntries \intersect AllOf(p) = {}
        BY ApartToo
      <4> QED
        BY <1>4, <2>2, <4>1, <4>2 DEF W, FileEntries
    <3>3. Keeps(AllOf(p))
      BY <1>3, <1>6, <3>2, ApartToo DEF Keeps
    <3> QED
      BY <2>1, <3>1, <3>3, EndFrame DEF TableInv
  <2>3. CASE p \in gone
    <3>1. pc[p] \in {"new", "ran", "failed"} /\ state'[p] = "deleted"
      BY <1>1, <2>3
    <3>2. \A k \in Kinds, e \in Sides : ~Has(p, k, e)'
      BY <2>1, <3>1 DEF Has, Streaming
    <3>3. ASSUME NEW k \in Kinds, NEW e \in Sides, NEW n \in Numbers
          PROVE  table'[n] # End(p, k, e)
      <4>1. End(p, k, e) # Free
        BY Owners
      <4>2. CASE Has(p, k, e)
        <5>1. k \in Redirectable /\ End(p, k, e) = Near(p, k)
          BY <3>1, <4>2 DEF Has, Near, TypeOK
        <5>2. End(p, k, e) \in W
          BY <2>3, <5>1 DEF W, Streams
        <5> QED
          BY <1>3, <4>1, <5>2
      <4>3. CASE ~Has(p, k, e)
        <5>1. table[n] # End(p, k, e)
          BY <4>3 DEF TableInv, EndInv, HeldHere
        <5> QED
          BY <1>3, <4>1, <5>1
      <4> QED
        BY <4>2, <4>3
    <3> QED
      BY <3>2, <3>3 DEF EndInv, HeldHere
  <2> QED
    BY <2>2, <2>3
<1>12. LiveInv'
  <2> SUFFICES ASSUME NEW p \in Procs
               PROVE  /\ pc[p] # "new" => state'[p] # "new"
                      /\ pc[p] \in {"piped", "forked", "asking"} => state'[p] = "live"
    BY <1>1 DEF LiveInv, runvars
  <2>1. /\ p \in Objs /\ pc[p] # "new" => state[p] # "new"
        /\ pc[p] \in {"piped", "forked", "asking"} => state[p] = "live"
    BY ObjsAre DEF TableInv, LiveInv
  <2> QED
    BY <1>1, <1>2, <2>1, ObjsAre
<1>13. ASSUME NEW n \in Numbers, table'[n] \in Ends PROVE table'[n] = table[n]
  BY <1>3, <1>6, <1>13
<1> QED
  BY <1>7, <1>9, <1>10, <1>11, <1>12, <1>13 DEF TableInv, FileInv

(***************************************************************************)
(* run().                                                                  *)
(***************************************************************************)
\* A step of run() of p that changes the ends of its own pipes only.
LEMMA RunLeaves ==
  ASSUME TypeOK, TableInv, NEW p \in Procs, table' \in [Numbers -> Entries],
         \A n \in Numbers : table'[n] # table[n] => table[n] \in AllOf(p) \union {Free}
                                                    /\ table'[n] \in AllOf(p) \union {Free},
         UNCHANGED <<refs, sockvars, log>>,
         NEW to \in {"piped", "forked", "asking", "ran", "failed"}, pc' = [pc EXCEPT ![p] = to],
         state[p] = "live",
         want' \in [Procs -> SUBSET Redirectable], \A q \in Procs : q # p => want'[q] = want[q],
         EndInv(p)'
  PROVE  TableInv'
<1>1. /\ AllOf(p) \subseteq Ends
      /\ (AllOf(p) \union {Free}) \intersect (SockEntries \union FileEntries \union {Log}) = {}
  BY Apart, ApartToo, Owners DEF NotSocks
<1>2. Keeps(SockEntries) /\ Keeps(FileEntries) /\ Keeps({Log})
  BY <1>1 DEF Keeps
<1>3. SockInv' /\ LogInv' /\ FileInv'
  BY <1>2, SockFrame, LogFrame, FileFrame DEF TableInv, sockvars, refs
<1>4. ASSUME NEW q \in Procs, q # p PROVE EndInv(q)'
  <2>1. (AllOf(p) \union {Free}) \intersect AllOf(q) = {}
    <3>1. AllOf(p) \intersect AllOf(q) = {}
      BY <1>4, Owners DEF AllOf
    <3>2. Free \notin AllOf(q)
      BY Owners DEF AllOf, Kinds
    <3> QED
      BY <3>1, <3>2
  <2>2. Keeps(AllOf(q))
    BY <2>1 DEF Keeps
  <2> QED
    BY <1>4, <2>2, EndFrame DEF TableInv, TypeOK, refs
<1>5. LiveInv'
  BY DEF TableInv, LiveInv, TypeOK, refs
<1> QED
  BY <1>3, <1>4, <1>5 DEF TableInv

\* run() makes its pipes.
LEMMA MakePipesKeeps ==
  ASSUME TypeOK, TableInv, NEW p \in Procs, MakePipes(p)
  PROVE  /\ TypeOK' /\ TableInv'
         /\ \A n \in Numbers : table'[n] # table[n] => table'[n] \in AllOf(p)
<1>1. PICK w \in Redirects : /\ CanOpen(Len(PipesOf(p, w)))
                             /\ table' = Opened(PipesOf(p, w))
                             /\ want' = [want EXCEPT ![p] = w]
  BY DEF MakePipes
<1>2. /\ pc[p] = "new" /\ state[p] = "live" /\ pc' = [pc EXCEPT ![p] = "piped"]
      /\ UNCHANGED <<refs, sockvars, log, child, held, told, sigpipe, saved, overlap>>
  BY DEF MakePipes
<1>3. w \subseteq Redirectable
  BY RedirectsAre
<1>4. EachEnd(PipesOf(p, w), p, {"comm"} \union w)
  BY <1>3, Pipes
<1>5. PICK s : s = PipesOf(p, w)
  OBVIOUS
<1>6. EachEnd(s, p, {"comm"} \union w) /\ Len(s) \in Nat /\ CanOpen(Len(s)) /\ table' = Opened(s)
  BY <1>1, <1>4, <1>5 DEF EachEnd
<1>7. \A i, j \in 1..Len(s) : s[i] = s[j] => i = j
  BY <1>6 DEF EachEnd
<1>8. \A i \in 1..Len(s) : \E k \in {"comm"} \union w, e \in Sides : s[i] = End(p, k, e)
  BY <1>6 DEF EachEnd
<1>9. \A k \in {"comm"} \union w, e \in Sides : \E i \in 1..Len(s) : s[i] = End(p, k, e)
  BY <1>6 DEF EachEnd
<1>10. \A i \in 1..Len(s) : s[i] \in AllOf(p)
  BY <1>3, <1>8 DEF AllOf, Sides, Redirectable
<1>11. /\ table' = [n \in Numbers |-> table'[n]]
       /\ \A i \in 1..Len(s) : /\ Lowest(i) \in Numbers /\ table[Lowest(i)] = Free
                               /\ table'[Lowest(i)] = s[i]
  BY <1>6, Opens
<1>12. \A n \in Numbers : table'[n] # table[n] => \E i \in 1..Len(s) : n = Lowest(i)
  BY <1>6, OpensOnly
<1>13. \A n \in Numbers : table'[n] # table[n] => table[n] = Free /\ table'[n] \in AllOf(p)
  BY <1>10, <1>11, <1>12
<1>14. table' \in [Numbers -> Entries]
  <2>1. AllOf(p) \subseteq Entries
    BY ApartToo DEF Entries
  <2>2. \A n \in Numbers : table'[n] \in Entries
    BY <1>13, <2>1 DEF TypeOK
  <2> QED
    BY <1>11, <2>2
<1>15. want' \in [Procs -> SUBSET Redirectable] /\ want'[p] = w /\ pc'[p] = "piped"
       /\ \A q \in Procs : q # p => want'[q] = want[q]
  BY <1>1, <1>2, <1>3 DEF TypeOK
<1>16. TypeOK'
  BY <1>2, <1>14, <1>15 DEF TypeOK, refs, sockvars
<1>17. \A k \in Kinds, e \in Sides, n \in Numbers : table[n] # End(p, k, e)
  <2>1. \A k \in Kinds, e \in Sides : ~Has(p, k, e)
    BY <1>2 DEF Has, Streaming
  <2> QED
    BY <2>1 DEF TableInv, EndInv, HeldHere
<1>18. ASSUME NEW k \in Kinds, NEW e \in Sides
       PROVE  /\ HeldHere(End(p, k, e))' <=> Has(p, k, e)'
              /\ \A n, m \in Numbers : table'[n] = End(p, k, e) /\ table'[m] = End(p, k, e) => n = m
  <2>1. Has(p, k, e)' <=> k \in {"comm"} \union w
    BY <1>15 DEF Has, Streaming
  <2>2. ASSUME NEW n \in Numbers, table'[n] = End(p, k, e)
        PROVE  \E i \in 1..Len(s) : n = Lowest(i) /\ s[i] = End(p, k, e)
    BY <1>11, <1>12, <1>17, <2>2
  <2>3. (\E n \in Numbers : table'[n] = End(p, k, e)) => k \in {"comm"} \union w
    <3> SUFFICES ASSUME NEW n \in Numbers, table'[n] = End(p, k, e) PROVE k \in {"comm"} \union w
      OBVIOUS
    <3>1. PICK i \in 1..Len(s) : s[i] = End(p, k, e)
      BY <2>2
    <3>2. PICK l \in {"comm"} \union w, d \in Sides : s[i] = End(p, l, d)
      BY <1>8
    <3>3. End(p, k, e) = End(p, l, d)
      BY <3>1, <3>2
    <3>4. k = l
      BY <3>3, Owners
    <3> QED
      BY <3>2, <3>4
  <2>4. k \in {"comm"} \union w => \E n \in Numbers : table'[n] = End(p, k, e)
    <3> SUFFICES ASSUME k \in {"comm"} \union w PROVE \E n \in Numbers : table'[n] = End(p, k, e)
      OBVIOUS
    <3>1. PICK i \in 1..Len(s) : s[i] = End(p, k, e)
      BY <1>9
    <3> QED
      BY <1>11, <3>1
  <2>5. \A n, m \in Numbers : table'[n] = End(p, k, e) /\ table'[m] = End(p, k, e) => n = m
    <3> SUFFICES ASSUME NEW n \in Numbers, NEW m \in Numbers, table'[n] = End(p, k, e), table'[m] = End(p, k, e)
                 PROVE  n = m
      OBVIOUS
    <3>1. PICK i \in 1..Len(s) : n = Lowest(i) /\ s[i] = End(p, k, e)
      BY <2>2
    <3>2. PICK j \in 1..Len(s) : m = Lowest(j) /\ s[j] = End(p, k, e)
      BY <2>2
    <3> QED
      BY <1>7, <3>1, <3>2
  <2> QED
    BY <2>1, <2>3, <2>4, <2>5 DEF HeldHere
<1>19. TableInv'
  <2>1. EndInv(p)'
    BY <1>18 DEF EndInv
  <2> QED
    BY <1>2, <1>13, <1>14, <1>15, <2>1, RunLeaves
<1> QED
  BY <1>13, <1>16, <1>19

\* run() closes some of its pipes.
LEMMA RunCloses ==
  ASSUME TypeOK, TableInv, NEW p \in Procs, NEW W \in SUBSET AllOf(p), table' = Closed(table, W),
         UNCHANGED <<refs, sockvars, log, want>>,
         NEW to \in {"piped", "forked", "asking", "ran", "failed"}, pc' = [pc EXCEPT ![p] = to],
         state[p] = "live",
         \A k \in Kinds, e \in Sides : Has(p, k, e)' <=> Has(p, k, e) /\ End(p, k, e) \notin W
  PROVE  TableInv' /\ \A n \in Numbers : table'[n] # table[n] => table'[n] = Free
<1>1. /\ table' \in [Numbers -> Entries]
      /\ \A n \in Numbers : table'[n] = IF table[n] \in W THEN Free ELSE table[n]
  BY Closes
<1>2. ASSUME NEW k \in Kinds, NEW e \in Sides
      PROVE  /\ HeldHere(End(p, k, e))' <=> Has(p, k, e)'
             /\ \A n, m \in Numbers : table'[n] = End(p, k, e) /\ table'[m] = End(p, k, e) => n = m
  <2>1. /\ HeldHere(End(p, k, e)) <=> Has(p, k, e)
        /\ \A n, m \in Numbers : table[n] = End(p, k, e) /\ table[m] = End(p, k, e) => n = m
    BY DEF TableInv, EndInv
  <2>2. \A n \in Numbers : table'[n] = End(p, k, e) <=> table[n] = End(p, k, e) /\ End(p, k, e) \notin W
    <3>1. End(p, k, e) # Free
      BY Owners
    <3> QED
      BY <1>1, <3>1
  <2>3. HeldHere(End(p, k, e))' <=> HeldHere(End(p, k, e)) /\ End(p, k, e) \notin W
    BY <2>2 DEF HeldHere
  <2> QED
    BY <2>1, <2>2, <2>3
<1>3. EndInv(p)'
  BY <1>2 DEF EndInv
<1>4. /\ want' \in [Procs -> SUBSET Redirectable]
      /\ \A q \in Procs : q # p => want'[q] = want[q]
  BY DEF TypeOK
<1>5. \A n \in Numbers : table'[n] # table[n] => table[n] \in AllOf(p) \union {Free}
                                                 /\ table'[n] \in AllOf(p) \union {Free}
  BY <1>1
<1>6. TableInv'
  BY <1>1, <1>3, <1>4, <1>5, RunLeaves
<1> QED
  BY <1>1, <1>6

\* Which ends the sets that run() closes are.
LEMMA ClosedEnds ==
  ASSUME NEW p \in Procs, NEW w \in SUBSET Redirectable, NEW k \in Kinds, NEW e \in Sides
  PROVE  /\ End(p, k, e) \in AllOf(p)
         /\ End(p, k, e) \in {Comm(p)} \union {Far(p, l) : l \in w} <=>
              \/ k = "comm" /\ e = "w"
              \/ k \in w /\ e # IF k = "in" THEN "w" ELSE "r"
         /\ End(p, k, e) \in {End(p, "comm", "r")} <=> k = "comm" /\ e = "r"
         /\ End(p, k, e) \in Streams(p) <=> k \in Redirectable /\ e = IF k = "in" THEN "w" ELSE "r"
<1>1. \A l, d : End(p, k, e) = End(p, l, d) <=> k = l /\ e = d
  BY Owners
<1>2. End(p, k, e) \in AllOf(p)
  BY DEF AllOf, Kinds, Sides
<1>3. End(p, k, e) \in {Comm(p)} \union {Far(p, l) : l \in w} <=>
        \/ k = "comm" /\ e = "w"
        \/ k \in w /\ e # IF k = "in" THEN "w" ELSE "r"
  <2>1. End(p, k, e) = Comm(p) <=> k = "comm" /\ e = "w"
    BY <1>1 DEF Comm
  <2>2. \A l \in w : End(p, k, e) = Far(p, l) <=> k = l /\ e # IF k = "in" THEN "w" ELSE "r"
    BY <1>1 DEF Far, Sides
  <2> QED
    BY <2>1, <2>2
<1>4. End(p, k, e) \in Streams(p) <=> k \in Redirectable /\ e = IF k = "in" THEN "w" ELSE "r"
  <2>1. \A l \in Redirectable : End(p, k, e) = Near(p, l) <=> k = l /\ e = IF k = "in" THEN "w" ELSE "r"
    BY <1>1 DEF Near
  <2> QED
    BY <2>1 DEF Streams
<1> QED
  BY <1>1, <1>2, <1>3, <1>4

\* The rest of run() closes what its new state does not have.
LEMMA RunKeeps ==
  ASSUME TypeOK, TableInv, NEW p \in Procs,
         ForkFails(p) \/ Ask(p) \/ Started(p) \/ NotStarted(p)
  PROVE  /\ TypeOK' /\ TableInv'
         /\ \A n \in Numbers : table'[n] # table[n] => table'[n] = Free
<1>1. /\ pc[p] \in {"piped", "asking", "forked"} => state[p] = "live"
      /\ want[p] \subseteq Redirectable /\ p \in Procs
      /\ \A k \in Redirectable : k # "comm" /\ k \in Kinds
      /\ AllOf(p) \in SUBSET AllOf(p)
      /\ {Comm(p)} \union {Far(p, k) : k \in want[p]} \in SUBSET AllOf(p)
      /\ {End(p, "comm", "r")} \in SUBSET AllOf(p)
      /\ {End(p, "comm", "r")} \union Streams(p) \in SUBSET AllOf(p)
  <2>1. want[p] \subseteq Redirectable /\ \A k \in Redirectable : k # "comm" /\ k \in Kinds
    BY DEF TypeOK, Redirectable, Kinds
  <2>2. /\ {Comm(p)} \union {Far(p, k) : k \in want[p]} \in SUBSET AllOf(p)
        /\ {End(p, "comm", "r")} \union Streams(p) \in SUBSET AllOf(p)
    BY <2>1 DEF AllOf, Comm, Far, Streams, Near, Redirectable
  <2> QED
    BY <2>1, <2>2 DEF TableInv, LiveInv
<1>2. CASE ForkFails(p)
  <2>1. /\ pc[p] = "piped" /\ pc' = [pc EXCEPT ![p] = "failed"] /\ table' = Closed(table, AllOf(p))
        /\ UNCHANGED <<refs, sockvars, log, want, child, held, told, sigpipe, saved, overlap>>
    BY <1>2 DEF ForkFails
  <2>2. \A k \in Kinds, e \in Sides : Has(p, k, e)' <=> Has(p, k, e) /\ End(p, k, e) \notin AllOf(p)
    <3>1. \A k \in Kinds, e \in Sides : End(p, k, e) \in AllOf(p)
      BY DEF AllOf, Kinds, Sides
    <3> QED
      BY <2>1, <3>1 DEF Has, Streaming, TypeOK
  <2>3. TypeOK'
    BY <2>1, Closes DEF TypeOK, refs, sockvars
  <2> QED
    BY <1>1, <2>1, <2>2, <2>3, RunCloses
<1>3. CASE Ask(p)
  <2> DEFINE W == {Comm(p)} \union {Far(p, k) : k \in want[p]}
  <2>1. /\ pc[p] = "forked" /\ pc' = [pc EXCEPT ![p] = "asking"] /\ table' = Closed(table, W)
        /\ UNCHANGED <<refs, sockvars, log, want, child, held, told>>
    BY <1>3 DEF Ask
  <2>2. ASSUME NEW k \in Kinds, NEW e \in Sides
        PROVE  Has(p, k, e)' <=> Has(p, k, e) /\ End(p, k, e) \notin W
    <3>1. End(p, k, e) \in W <=> \/ k = "comm" /\ e = "w"
                                 \/ k \in want[p] /\ e # IF k = "in" THEN "w" ELSE "r"
      BY <1>1, ClosedEnds
    <3>2. /\ Has(p, k, e) <=> k \in {"comm"} \union want[p]
          /\ Has(p, k, e)' <=> \/ k = "comm" /\ e = "r"
                               \/ k \in want[p] /\ e = IF k = "in" THEN "w" ELSE "r"
      BY <1>1, <2>1 DEF Has, Streaming, TypeOK, refs
    <3>3. "comm" \notin want[p] /\ (e = "r" \/ e = "w")
      BY <1>1 DEF Sides
    <3> QED
      BY <3>1, <3>2, <3>3
  <2>3. TypeOK'
    BY <2>1, Closes DEF TypeOK, refs, sockvars
  <2> QED
    BY <1>1, <2>1, <2>2, <2>3, RunCloses
<1>4. CASE Started(p)
  <2> DEFINE W == {End(p, "comm", "r")}
  <2>1. /\ pc[p] = "asking" /\ pc' = [pc EXCEPT ![p] = "ran"] /\ table' = Closed(table, W)
        /\ UNCHANGED <<refs, sockvars, log, want, child, held, told>>
    BY <1>4 DEF Started
  <2>2. ASSUME NEW k \in Kinds, NEW e \in Sides
        PROVE  Has(p, k, e)' <=> Has(p, k, e) /\ End(p, k, e) \notin W
    <3>1. End(p, k, e) \in W <=> k = "comm" /\ e = "r"
      BY <1>1, ClosedEnds
    <3>2. /\ Has(p, k, e) <=> \/ k = "comm" /\ e = "r"
                              \/ k \in want[p] /\ e = IF k = "in" THEN "w" ELSE "r"
          /\ Has(p, k, e)' <=> k \in want[p] /\ e = IF k = "in" THEN "w" ELSE "r"
      BY <1>1, <2>1 DEF Has, Streaming, TypeOK, refs
    <3> QED
      BY <1>1, <3>1, <3>2
  <2>3. TypeOK'
    BY <2>1, Closes DEF TypeOK, refs, sockvars
  <2> QED
    BY <1>1, <2>1, <2>2, <2>3, RunCloses
<1>5. CASE NotStarted(p)
  <2> DEFINE W == {End(p, "comm", "r")} \union Streams(p)
  <2>1. /\ pc[p] = "asking" /\ pc' = [pc EXCEPT ![p] = "failed"] /\ table' = Closed(table, W)
        /\ UNCHANGED <<refs, sockvars, log, want, child, held, told>>
    BY <1>5 DEF NotStarted
  <2>2. ASSUME NEW k \in Kinds, NEW e \in Sides
        PROVE  Has(p, k, e)' <=> Has(p, k, e) /\ End(p, k, e) \notin W
    <3>1. End(p, k, e) \in W <=> \/ k = "comm" /\ e = "r"
                                 \/ k \in Redirectable /\ e = IF k = "in" THEN "w" ELSE "r"
      BY <1>1, ClosedEnds
    <3>2. /\ Has(p, k, e) <=> \/ k = "comm" /\ e = "r"
                              \/ k \in want[p] /\ e = IF k = "in" THEN "w" ELSE "r"
          /\ ~Has(p, k, e)'
      BY <1>1, <2>1 DEF Has, Streaming, TypeOK, refs
    <3> QED
      BY <1>1, <3>1, <3>2
  <2>3. TypeOK'
    BY <2>1, Closes DEF TypeOK, refs, sockvars
  <2> QED
    BY <1>1, <2>1, <2>2, <2>3, RunCloses
<1> QED
  BY <1>2, <1>3, <1>4, <1>5

\* fork() and what the children do leave the table alone.
LEMMA ForkKeeps ==
  ASSUME TypeOK, TableInv, NEW p \in Procs, Fork(p)
  PROVE  TypeOK' /\ TableInv'
<1>1. /\ pc[p] = "piped" /\ pc' = [pc EXCEPT ![p] = "forked"]
      /\ child' = [child EXCEPT ![p] = "forked"]
      /\ held' = [held EXCEPT ![p] = {table[n] : n \in Numbers} \intersect PipeEnds]
      /\ UNCHANGED <<refs, table, sockvars, log, want, told, sigpipe, saved, overlap>>
  BY DEF Fork
<1>2. TypeOK'
  BY <1>1 DEF TypeOK, refs, sockvars
<1>3. table' = Closed(table, {})
  BY <1>1 DEF Closed, TypeOK
<1>4. \A k \in Kinds, e \in Sides : Has(p, k, e)' <=> Has(p, k, e) /\ End(p, k, e) \notin {}
  BY <1>1 DEF Has, Streaming, TypeOK, refs
<1>5. state[p] = "live" /\ {} \in SUBSET AllOf(p)
  BY <1>1 DEF TableInv, LiveInv
<1> QED
  BY <1>1, <1>2, <1>3, <1>4, <1>5, RunCloses

\* The children have tables of their own.
LEMMA ChildKeeps ==
  ASSUME TypeOK, NEW p \in Procs, Exec(p) \/ ExecFails(p) \/ Exit(p) \/ Wait(p)
  PROVE  TypeOK' /\ UNCHANGED <<refs, table, sockvars, log, pc, want>>
<1>1. UNCHANGED <<refs, table, sockvars, log, pc, want>>
  BY DEF Exec, ExecFails, Exit, Wait
<1>2. /\ child' \in [Procs -> {"none", "forked", "running", "zombie", "reaped"}]
      /\ held' \in [Procs -> SUBSET PipeEnds] /\ told' \in [Procs -> BOOLEAN]
  BY DEF TypeOK, Exec, ExecFails, Exit, Wait
<1> QED
  BY <1>1, <1>2 DEF TypeOK, refs, sockvars

(***************************************************************************)
(* Every step.                                                             *)
(***************************************************************************)
OwnInv == TypeOK /\ (~crossed => TableInv)

\* Nothing is open at first but what the program was given.
LEMMA InitOwnInv == Init => OwnInv
<1> SUFFICES ASSUME Init PROVE OwnInv
  OBVIOUS
<1>1. PICK zero \in {Free, Mine} : table = [n \in Numbers |-> IF n = 0 THEN zero ELSE Free]
  BY DEF Init
<1>2. /\ state = [o \in Objs |-> "new"]
      /\ sock = [s \in Socks |-> NoSock] /\ closed = {} /\ crossed = FALSE
      /\ log = NoNumber
      /\ pc = [p \in Procs |-> "new"] /\ want = [p \in Procs |-> {}]
      /\ child = [p \in Procs |-> "none"] /\ held = [p \in Procs |-> {}] /\ told = [p \in Procs |-> FALSE]
  BY DEF Init, RefInit
<1>3. \A n \in Numbers : table[n] \in {Free, Mine}
  BY <1>1
<1>4. TypeOK
  BY <1>1, <1>2, Apart DEF TypeOK
<1>5. SockInv
  BY <1>2, <1>3, Owners DEF SockInv, Open
<1>6. LogInv
  BY <1>2, <1>3, Owners, NumbersAre DEF LogInv, NoNumber
<1>7. FileInv
  BY <1>3, Owners DEF FileInv
<1>8. \A p \in Procs : EndInv(p)
  BY <1>2, <1>3, Owners DEF EndInv, HeldHere, Has, Streaming
<1>9. LiveInv
  BY <1>2 DEF LiveInv
<1> QED
  BY <1>4, <1>5, <1>6, <1>7, <1>8, <1>9 DEF OwnInv, TableInv

\* Only MakePipes() opens the end of a pipe, of p only.
NoNewEnd == \A n \in Numbers : table'[n] \in Ends => table'[n] = table[n]

\* Each step keeps the invariant of the table.
LEMMA NextOwnInv ==
  ASSUME OwnInv, [Next]_vars
  PROVE  OwnInv' /\ (NoNewEnd \/ \E p \in Procs : MakePipes(p))
<1> DEFINE Good == OwnInv' /\ NoNewEnd
<1>1. CASE UNCHANGED vars
  <2>1. UNCHANGED <<state, table, sock, closed, crossed, log, pc, want, child, held, told>>
    BY <1>1 DEF vars, refs, sockvars, runvars
  <2>2. TypeOK' /\ NoNewEnd
    BY <2>1 DEF OwnInv, TypeOK, NoNewEnd
  <2>3. TableInv => TableInv'
    BY <2>1 DEF TableInv, SockInv, LogInv, FileInv, EndInv, LiveInv, Open, HeldHere, Has, Streaming
  <2> QED
    BY <2>1, <2>2, <2>3 DEF OwnInv
<1>2. CASE Next
  <2>1. ~crossed /\ TypeOK /\ TableInv
    BY <1>2 DEF Next, OwnInv
  <2>2. Free \notin Ends /\ Ends \subseteq NotSocks
    BY Apart, ApartToo DEF NotSocks
  <2>3. ASSUME NEW s \in Socks, CloseSocket(s) \/ DestroySocket(s) PROVE Good
    <3>1. /\ TypeOK'
          /\ \A n \in Numbers : table'[n] # table[n] => table'[n] = Free
          /\ ~crossed' => ~crossed /\ SocketKeeps
      BY <2>1, <2>3, CloseKeeps DEF TableInv
    <3>2. UNCHANGED <<refs, log, runvars>>
      BY <2>3 DEF CloseSocket, DestroySocket
    <3>3. ~crossed' => TableInv'
      BY <2>1, <3>1, <3>2, SocketLeaves
    <3> QED
      BY <2>2, <3>1, <3>3 DEF OwnInv, NoNewEnd
  <2>4. ASSUME NEW s \in Socks, NEW t \in Socks,
               \/ OpenSocket(s) \/ AdoptSocket(s) \/ DetachSocket(s) \/ Pair(s, t) \/ MoveSocket(s, t)
        PROVE  Good
    <3>1. TypeOK' /\ SocketKeeps
      BY <2>1, <2>4, OpenSocketKeeps, AdoptSocketKeeps, DetachSocketKeeps, PairKeeps, MoveSocketOwns DEF TableInv
    <3>2. UNCHANGED <<refs, log, runvars>>
      BY <2>4 DEF OpenSocket, AdoptSocket, DetachSocket, Pair, MoveSocket
    <3>3. TableInv'
      BY <2>1, <3>1, <3>2, SocketLeaves
    <3> QED
      BY <2>2, <3>1, <3>3 DEF OwnInv, NoNewEnd, SocketKeeps, Keeps
  <2>5. CASE CloseMine \/ LogToStderr
    <3>1. TypeOK' /\ TableInv'
      BY <2>1, <2>5, CloseMineKeeps, LogToStderrKeeps
    <3>2. \A n \in Numbers : table'[n] # table[n] => table'[n] = Free
      BY <2>1, <2>5, Closes DEF CloseMine, LogToStderr
    <3> QED
      BY <2>2, <3>1, <3>2 DEF OwnInv, NoNewEnd
  <2>6. CASE LogFails \/ \E net \in BOOLEAN : LogTo(net)
    <3>1. TypeOK' /\ TableInv'
      <4>1. LogFails => CanOpen(1) /\ table' = Opened(<<Lost>>) /\ UNCHANGED <<refs, sockvars, log, runvars>>
        BY DEF LogFails
      <4> QED
        BY <2>1, <2>6, <4>1, LoseKeeps, LogToKeeps
    <3>2. Lost \notin Ends /\ Log \notin Ends
      BY Apart, ApartToo, <2>2
    <3>3. CanOpen(1) /\ (table' = Opened(<<Lost>>) \/ table' = [Closed(table, {Log}) EXCEPT ![Lowest(1)] = Log])
      BY <2>6 DEF LogFails, LogTo
    <3>4. \A n \in Numbers : table'[n] # table[n] => table'[n] \in {Lost, Log, Free}
      <4>1. Lowest(1) \in Numbers /\ Opened(<<Lost>>) = [table EXCEPT ![Lowest(1)] = Lost]
        BY <2>1, <3>3, OpensOne DEF TypeOK
      <4>2. CASE table' = Opened(<<Lost>>)
        BY <2>1, <4>1, <4>2 DEF TypeOK
      <4>3. CASE table' = [Closed(table, {Log}) EXCEPT ![Lowest(1)] = Log]
        <5>1. /\ Closed(table, {Log}) \in [Numbers -> Entries]
              /\ \A n \in Numbers : Closed(table, {Log})[n] \in {table[n], Free}
          BY <2>1, Closes
        <5> QED
          BY <4>1, <4>3, <5>1
      <4> QED
        BY <3>3, <4>2, <4>3
    <3> QED
      BY <2>2, <3>1, <3>2, <3>4 DEF OwnInv, NoNewEnd
  <2>7. CASE Handles
    BY <2>1, <2>7, HandlesKeeps DEF OwnInv, NoNewEnd
  <2>8. ASSUME NEW f \in Files, DetachFile(f) \/ \E v \in Vars : OpenFile(v, f) PROVE Good
    <3>1. TypeOK' /\ TableInv'
      BY <2>1, <2>8, DetachFileKeeps, OpenFileKeeps
    <3>2. Mine \notin Ends /\ File(f) \notin Ends
      BY Apart, ApartToo, <2>2 DEF FileEntries
    <3>3. \A n \in Numbers : table'[n] # table[n] => table'[n] \in {Mine, File(f)}
      <4>1. CASE DetachFile(f)
        BY <4>1 DEF DetachFile
      <4>2. CASE \E v \in Vars : OpenFile(v, f)
        <5>1. CanOpen(1) /\ table' = Opened(<<File(f)>>)
          BY <4>2 DEF OpenFile
        <5>2. Opened(<<File(f)>>) = [table EXCEPT ![Lowest(1)] = File(f)]
          BY <2>1, <5>1, OpensOne DEF TypeOK
        <5> QED
          BY <2>1, <5>1, <5>2 DEF TypeOK
      <4> QED
        BY <2>8, <4>1, <4>2
    <3> QED
      BY <3>1, <3>2, <3>3 DEF OwnInv, NoNewEnd
  <2>9. ASSUME NEW p \in Procs,
               \/ MakePipes(p) \/ Fork(p) \/ ForkFails(p) \/ Exec(p) \/ ExecFails(p) \/ Ask(p)
               \/ Started(p) \/ NotStarted(p) \/ Exit(p) \/ Wait(p)
               \/ \E v \in Vars : NewProc(v, p)
        PROVE  OwnInv' /\ (NoNewEnd \/ \E q \in Procs : MakePipes(q))
    <3>1. CASE MakePipes(p)
      BY <2>1, <3>1, MakePipesKeeps DEF OwnInv
    <3>2. CASE Fork(p)
      BY <2>1, <3>2, ForkKeeps DEF OwnInv, NoNewEnd, Fork
    <3>3. CASE ForkFails(p) \/ Ask(p) \/ Started(p) \/ NotStarted(p)
      BY <2>1, <2>2, <3>3, RunKeeps DEF OwnInv, NoNewEnd
    <3>4. CASE Exec(p) \/ ExecFails(p) \/ Exit(p) \/ Wait(p)
      <4>1. TypeOK' /\ UNCHANGED <<state, table, sock, closed, log, pc, want>>
        BY <2>1, <3>4, ChildKeeps DEF refs, sockvars
      <4>2. TableInv'
        BY <2>1, <4>1 DEF TableInv, SockInv, LogInv, FileInv, EndInv, LiveInv, Open, HeldHere, Has, Streaming
      <4> QED
        BY <4>1, <4>2 DEF OwnInv, NoNewEnd
    <3>5. CASE \E v \in Vars : NewProc(v, p)
      BY <2>1, <3>5, NewProcKeeps DEF OwnInv, NoNewEnd, NewProc
    <3> QED
      BY <2>9, <3>1, <3>2, <3>3, <3>4, <3>5
  <2> QED
    BY <1>2, <2>3, <2>4, <2>5, <2>6, <2>7, <2>8, <2>9 DEF Next
<1> QED
  BY <1>1, <1>2

\* Owned, owner by owner.
LEMMA OwnedIs ==
  ASSUME TypeOK
  PROVE  /\ \A x \in Owned :
              \/ \E s \in Socks : Open(s) /\ x = Sock(s)
              \/ log # NoNumber /\ x = Log
              \/ \E p \in Procs, k \in Kinds, e \in Sides : Has(p, k, e) /\ x = End(p, k, e)
         /\ \A p \in Procs, k \in Kinds, e \in Sides : Has(p, k, e) => End(p, k, e) \in Owned
<1>3. \A x : x \in Owned <=>
               \/ \E s \in OwnedSocks : x = Sock(s)
               \/ log # NoNumber /\ x = Log
               \/ \E p \in Procs : x \in OwnedEnds(p)
  BY DEF Owned
<1>1. ASSUME NEW x \in Owned
      PROVE  \/ \E s \in Socks : Open(s) /\ x = Sock(s)
             \/ log # NoNumber /\ x = Log
             \/ \E p \in Procs, k \in Kinds, e \in Sides : Has(p, k, e) /\ x = End(p, k, e)
  <2>1. \A p \in Procs : want[p] \subseteq Kinds
    BY DEF TypeOK, Redirectable, Kinds
  <2>2. ASSUME NEW p \in Procs, x \in OwnedEnds(p)
        PROVE  \E k \in Kinds, e \in Sides : Has(p, k, e) /\ x = End(p, k, e)
    <3>1. CASE /\ pc[p] \in {"piped", "forked"}
               /\ x \in {End(p, "comm", "r"), Comm(p)} \union {End(p, k, e) : k \in want[p], e \in {"r", "w"}}
      <4>1. \E k \in {"comm"} \union want[p], e \in Sides : x = End(p, k, e)
        BY <3>1 DEF Comm, Sides
      <4> QED
        BY <2>1, <3>1, <4>1 DEF Has, Kinds
    <3>2. CASE pc[p] = "asking" /\ x = End(p, "comm", "r")
      BY <3>2 DEF Has, Kinds, Sides
    <3>3. CASE Streaming(p) /\ x \in {Near(p, k) : k \in want[p]}
      <4>1. PICK k \in want[p] : x = Near(p, k)
        BY <3>3
      <4> DEFINE e == IF k = "in" THEN "w" ELSE "r"
      <4>2. Has(p, k, e) /\ x = End(p, k, e) /\ e \in Sides /\ k \in Kinds
        BY <2>1, <3>3, <4>1 DEF Has, Near, Sides
      <4> QED
        BY <4>2
    <3> QED
      BY <2>2, <3>1, <3>2, <3>3 DEF OwnedEnds
  <2> QED
    BY <1>1, <1>3, <2>2 DEF OwnedSocks, Open
<1>2. ASSUME NEW p \in Procs, NEW k \in Kinds, NEW e \in Sides, Has(p, k, e)
      PROVE  End(p, k, e) \in Owned
  <2>1. End(p, k, e) \in OwnedEnds(p)
    BY <1>2 DEF Has, OwnedEnds, Comm, Near, Sides
  <2> QED
    BY <1>3, <2>1
<1> QED
  BY <1>1, <1>2

\* What the invariant says of the whole table.
LEMMA OwnedIsHeld == OwnInv => NumbersOwned
<1> SUFFICES ASSUME TypeOK, TableInv, ~crossed PROVE NumbersOwned
  BY DEF OwnInv, NumbersOwned
<1>1. ASSUME NEW n \in Numbers, table[n] \notin {Free, Mine, Lost} \union FileEntries
      PROVE  table[n] \in Owned
  <2>1. CASE table[n] \in SockEntries
    <3>1. PICK s \in Socks : table[n] = Sock(s)
      BY <2>1 DEF SockEntries
    <3>2. Open(s)
      BY <3>1 DEF TableInv, SockInv
    <3> QED
      BY <3>1, <3>2 DEF Owned, OwnedSocks, Open
  <2>2. CASE table[n] = Log
    <3>1. log # NoNumber
      BY <2>2, NumbersAre DEF TableInv, LogInv, NoNumber
    <3> QED
      BY <2>2, <3>1 DEF Owned
  <2>3. CASE table[n] \in Ends
    <3>1. PICK p \in Procs, k \in Kinds, e \in Sides : table[n] = End(p, k, e)
      BY <2>3 DEF Ends
    <3>2. Has(p, k, e)
      BY <3>1 DEF TableInv, EndInv, HeldHere
    <3> QED
      BY <3>1, <3>2, OwnedIs
  <2> QED
    BY <1>1, <2>1, <2>2, <2>3, Apart DEF TypeOK, NotSocks
<1>2. ASSUME NEW x \in Owned
      PROVE  x \notin {Free, Mine, Lost} \union FileEntries /\ \E n \in Numbers : table[n] = x
  <2>1. CASE \E s \in Socks : Open(s) /\ x = Sock(s)
    <3>1. PICK s \in Socks : Open(s) /\ x = Sock(s)
      BY <2>1
    <3>2. sock[s] \in Numbers
      BY <3>1 DEF TypeOK, Open, Invalid, NoNumber, NoSock
    <3> QED
      BY <3>1, <3>2, Owners DEF TableInv, SockInv, FileEntries
  <2>2. CASE log # NoNumber /\ x = Log
    BY <2>2, Owners DEF TypeOK, TableInv, LogInv, FileEntries
  <2>3. CASE \E p \in Procs, k \in Kinds, e \in Sides : Has(p, k, e) /\ x = End(p, k, e)
    <3>1. PICK p \in Procs, k \in Kinds, e \in Sides : Has(p, k, e) /\ x = End(p, k, e)
      BY <2>3
    <3> QED
      BY <3>1, Owners DEF TableInv, EndInv, HeldHere, FileEntries
  <2> QED
    BY <2>1, <2>2, <2>3, OwnedIs
<1>3. ASSUME NEW n \in Numbers, NEW m \in Numbers, n # m, table[n] = table[m]
      PROVE  table[n] \in {Free, Mine, Lost}
  <2>1. table[n] \notin SockEntries
    BY <1>3 DEF TableInv, SockInv, SockEntries
  <2>2. table[n] # Log
    BY <1>3 DEF TableInv, LogInv
  <2>3. table[n] \notin FileEntries
    BY <1>3 DEF TableInv, FileInv, FileEntries
  <2>4. table[n] \notin Ends
    BY <1>3 DEF TableInv, EndInv, Ends
  <2> QED
    BY <2>1, <2>2, <2>3, <2>4, Apart DEF TypeOK, NotSocks
<1>4. ASSUME NEW s \in Socks, Open(s) PROVE table[sock[s]] = Sock(s)
  BY <1>4 DEF TableInv, SockInv, TypeOK, Open, Invalid, NoNumber, NoSock
<1>5. \A f \in Files : HeldHere(File(f)) => state[f] = "live"
  BY DEF TableInv, FileInv, HeldHere
<1>6. log # NoNumber => table[log] = Log
  BY DEF TableInv, LogInv, TypeOK
<1>7. {table[n] : n \in Numbers} \ ({Free, Mine, Lost} \union {File(f) : f \in Files}) = Owned
  BY <1>1, <1>2 DEF FileEntries
<1> QED
  BY <1>3, <1>4, <1>5, <1>6, <1>7 DEF NumbersOwned, OwnedSocks, Open

\* Nothing leaks and nothing is closed by another, on any path of any number of
\* sockets, files, outputs and run() (socket.cpp:32-48, logger.cpp:131-181,
\* subprocess.cpp:46-142), until a Socket closes twice what it has closed.
THEOREM OwnersClose == Spec => []NumbersOwned
<1>1. OwnInv /\ [Next]_vars => OwnInv'
  BY NextOwnInv
<1> QED
  BY <1>1, InitOwnInv, OwnedIsHeld, PTL DEF Spec

(***************************************************************************)
(* run() answers.                                                          *)
(***************************************************************************)
\* How far the child is when run() is where it is, and who still has the pipe
\* for the error.
ForkInv ==
  \A p \in Procs :
    /\ pc[p] \in {"new", "piped"} => child[p] = "none"
    /\ child[p] = "forked" => pc[p] \in {"forked", "asking"} /\ Comm(p) \in held[p]
    /\ child[p] = "forked" \/ \A q \in Procs : Comm(q) \notin held[p]
    /\ told[p] => child[p] \in {"zombie", "reaped"}
    /\ pc[p] = "ran" => ~told[p]
    /\ pc[p] = "failed" => child[p] \in {"none", "zombie", "reaped"}
    /\ pc[p] = "asking" => ~HeldHere(Comm(p))
RunInv == OwnInv /\ ForkInv

\* It says what run() may answer.
LEMMA ForkInvAnswers == ForkInv => RunAnswers
BY DEF ForkInv, RunAnswers, CommHolders

\* A step that leaves run() and the children alone.
LEMMA ForkFrame ==
  ASSUME ForkInv, NoNewEnd, UNCHANGED <<pc, child, held, told>>
  PROVE  ForkInv'
<1>1. \A p \in Procs : Comm(p) \in Ends
  BY DEF Comm, Ends, Kinds, Sides
<1> QED
  BY <1>1 DEF ForkInv, NoNewEnd, HeldHere

\* Each step keeps the invariant of the children too.
LEMMA NextRunInv ==
  ASSUME RunInv, [Next]_vars
  PROVE  RunInv'
<1>1. OwnInv' /\ (NoNewEnd \/ \E p \in Procs : MakePipes(p))
  BY NextOwnInv DEF RunInv
<1>2. ForkInv /\ TypeOK
  BY DEF RunInv, OwnInv
<1>3. \A p \in Procs : Comm(p) \in Ends
  BY DEF Comm, Ends, Kinds, Sides
<1>4. ASSUME NEW p \in Procs, MakePipes(p), ~crossed PROVE ForkInv'
  <2>1. \A n \in Numbers : table'[n] # table[n] => table'[n] \in AllOf(p)
    BY <1>2, <1>4, MakePipesKeeps DEF RunInv, OwnInv
  <2>2. /\ pc[p] = "new" /\ pc' = [pc EXCEPT ![p] = "piped"] /\ UNCHANGED <<child, held, told>>
    BY <1>4 DEF MakePipes
  <2>3. \A q \in Procs : q # p => Comm(q) \notin AllOf(p)
    BY Owners DEF AllOf, Comm
  <2>4. ASSUME NEW q \in Procs, pc'[q] = "asking" PROVE ~HeldHere(Comm(q))'
    <3>1. q # p /\ pc[q] = "asking"
      BY <1>2, <2>2, <2>4 DEF TypeOK
    <3> QED
      BY <1>2, <2>1, <2>3, <3>1 DEF ForkInv, HeldHere
  <2> QED
    BY <1>2, <2>2, <2>4 DEF ForkInv, TypeOK
<1>5. ASSUME NoNewEnd, NEW p \in Procs, ~crossed,
             Fork(p) \/ ForkFails(p) \/ Ask(p) \/ Started(p) \/ NotStarted(p) PROVE ForkInv'
  <2>1. \A q \in Procs : HeldHere(Comm(q))' => HeldHere(Comm(q))
    BY <1>3, <1>5 DEF NoNewEnd, HeldHere
  <2>2. CASE Fork(p)
    <3>1. /\ pc[p] = "piped" /\ pc' = [pc EXCEPT ![p] = "forked"]
          /\ child' = [child EXCEPT ![p] = "forked"]
          /\ held' = [held EXCEPT ![p] = {table[n] : n \in Numbers} \intersect PipeEnds]
          /\ UNCHANGED <<table, told>>
      BY <2>2 DEF Fork
    <3>2. HeldHere(Comm(p))
      <4>1. Has(p, "comm", "w")
        BY <3>1 DEF Has
      <4> QED
        BY <1>5, <4>1 DEF RunInv, OwnInv, TableInv, EndInv, Comm, Kinds, Sides
    <3>3. Comm(p) \in held'[p]
      BY <1>2, <3>1, <3>2 DEF TypeOK, HeldHere, PipeEnds
    <3> QED
      BY <1>2, <2>1, <3>1, <3>3 DEF ForkInv, TypeOK
  <2>3. CASE ForkFails(p)
    <3>1. pc[p] = "piped" /\ pc' = [pc EXCEPT ![p] = "failed"] /\ UNCHANGED <<child, held, told>>
      BY <2>3 DEF ForkFails
    <3> QED
      BY <1>2, <2>1, <3>1 DEF ForkInv, TypeOK
  <2>4. CASE Ask(p)
    <3>1. pc[p] = "forked" /\ pc' = [pc EXCEPT ![p] = "asking"] /\ UNCHANGED <<child, held, told>>
      BY <2>4 DEF Ask
    <3>2. ~HeldHere(Comm(p))'
      <4>1. Comm(p) # Free
        BY Owners DEF Comm, Kinds
      <4> QED
        BY <1>2, <2>4, <4>1, Closes DEF Ask, HeldHere
    <3> QED
      BY <1>2, <2>1, <3>1, <3>2 DEF ForkInv, TypeOK
  <2>5. CASE Started(p)
    <3>1. /\ pc[p] = "asking" /\ pc' = [pc EXCEPT ![p] = "ran"] /\ UNCHANGED <<child, held, told>>
          /\ ~told[p] /\ CommHolders(p) = {}
      BY <2>5 DEF Started
    <3>2. child[p] # "forked"
      BY <1>2, <3>1 DEF ForkInv, CommHolders
    <3> QED
      BY <1>2, <2>1, <3>1, <3>2 DEF ForkInv, TypeOK
  <2>6. CASE NotStarted(p)
    <3>1. /\ pc[p] = "asking" /\ pc' = [pc EXCEPT ![p] = "failed"] /\ UNCHANGED <<child, held, told>>
          /\ told[p]
      BY <2>6 DEF NotStarted
    <3> QED
      BY <1>2, <2>1, <3>1 DEF ForkInv, TypeOK
  <2> QED
    BY <1>5, <2>2, <2>3, <2>4, <2>5, <2>6
<1>6. ASSUME NEW p \in Procs, Exec(p) \/ ExecFails(p) \/ Exit(p) \/ Wait(p) PROVE ForkInv'
  <2>1. UNCHANGED <<table, pc>>
    BY <1>6 DEF Exec, ExecFails, Exit, Wait
  <2>2. \A q \in Procs : HeldHere(Comm(q))' <=> HeldHere(Comm(q))
    BY <2>1 DEF HeldHere
  <2>3. CASE Exec(p)
    BY <1>2, <2>1, <2>2, <2>3 DEF Exec, ForkInv, TypeOK
  <2>4. CASE ExecFails(p)
    BY <1>2, <2>1, <2>2, <2>4 DEF ExecFails, ForkInv, TypeOK
  <2>5. CASE Exit(p)
    BY <1>2, <2>1, <2>2, <2>5 DEF Exit, ForkInv, TypeOK
  <2>6. CASE Wait(p)
    BY <1>2, <2>1, <2>2, <2>6 DEF Wait, ForkInv, TypeOK
  <2> QED
    BY <1>6, <2>3, <2>4, <2>5, <2>6
<1>7. ASSUME NoNewEnd, UNCHANGED runvars PROVE ForkInv'
  BY <1>2, <1>7, ForkFrame DEF runvars
<1>8. CASE UNCHANGED vars
  <2>1. NoNewEnd /\ UNCHANGED runvars
    BY <1>8 DEF NoNewEnd, vars
  <2> QED
    BY <1>1, <1>7, <2>1 DEF RunInv
<1>9. CASE Next
  <2>1. \/ \E p \in Procs : \/ MakePipes(p) \/ Fork(p) \/ ForkFails(p) \/ Ask(p) \/ Started(p) \/ NotStarted(p)
                            \/ Exec(p) \/ ExecFails(p) \/ Exit(p) \/ Wait(p)
        \/ UNCHANGED runvars
    <3>1. ASSUME NEW s \in Socks, NEW t \in Socks,
                 \/ OpenSocket(s) \/ AdoptSocket(s) \/ DetachSocket(s) \/ CloseSocket(s) \/ DestroySocket(s)
                 \/ Pair(s, t) \/ MoveSocket(s, t)
          PROVE  UNCHANGED runvars
      BY <3>1 DEF OpenSocket, AdoptSocket, DetachSocket, CloseSocket, DestroySocket, Pair, MoveSocket
    <3>2. ASSUME CloseMine \/ LogToStderr \/ LogFails \/ \E net \in BOOLEAN : LogTo(net)
          PROVE  UNCHANGED runvars
      BY <3>2 DEF CloseMine, LogToStderr, LogFails, LogTo
    <3>3. ASSUME Handles \/ \E f \in Files : DetachFile(f) \/ \E v \in Vars : OpenFile(v, f)
          PROVE  UNCHANGED runvars
      BY <3>3 DEF Handles, DetachFile, OpenFile
    <3>4. ASSUME NEW p \in Procs, \E v \in Vars : NewProc(v, p)
          PROVE  UNCHANGED runvars
      BY <3>4 DEF NewProc
    <3> QED
      BY <1>9, <3>1, <3>2, <3>3, <3>4 DEF Next
  <2>2. ~crossed
    BY <1>9 DEF Next
  <2>3. CASE \E p \in Procs : MakePipes(p)
    BY <1>1, <1>4, <2>2, <2>3 DEF RunInv
  <2>4. CASE NoNewEnd
    BY <1>1, <1>4, <1>5, <1>6, <1>7, <2>1, <2>2, <2>4 DEF RunInv
  <2> QED
    BY <1>1, <2>3, <2>4
<1> QED
  BY <1>8, <1>9

\* run() is not kept waiting by the children of others, and returns only when
\* its program was started (subprocess.cpp:101-142).
THEOREM RunTellsTheTruth == Spec => []RunAnswers
<1>1. Init => RunInv
  <2> SUFFICES ASSUME Init PROVE ForkInv
    BY InitOwnInv DEF RunInv
  <2>1. /\ pc = [p \in Procs |-> "new"] /\ child = [p \in Procs |-> "none"]
        /\ held = [p \in Procs |-> {}] /\ told = [p \in Procs |-> FALSE]
    BY DEF Init
  <2> QED
    BY <2>1 DEF ForkInv
<1>2. RunInv /\ [Next]_vars => RunInv'
  BY NextRunInv
<1>3. RunInv => RunAnswers
  BY ForkInvAnswers DEF RunInv
<1> QED
  BY <1>1, <1>2, <1>3, PTL DEF Spec
=============================================================================
