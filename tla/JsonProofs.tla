----------------------------- MODULE JsonProofs -----------------------------
(***************************************************************************)
(* Json and cJSON: the nodes (JsonTree), and the strings and the buffer of *)
(* the texts (JsonString).                                                 *)
(*                                                                         *)
(* The nodes.  For any variables, nodes and keys each live node of cJSON   *)
(* is owned by one Json, and its lists are whole; what a call has set      *)
(* adrift is not live any more, and nothing is said of it.                 *)
(*                                                                         *)
(* JsonInv is the inductive invariant: the variables that share a holder   *)
(* agree on it, a node to be deleted has one holder and is live or adrift, *)
(* and those that are live are the tops of a forest of all live nodes.     *)
(*                                                                         *)
(* Forest(h, O) says that links lead from live nodes to live nodes, that   *)
(* next and prev agree, that no node has two links to it, that the nodes   *)
(* of O have none, and that every live node is reached from O.  The lemmas *)
(* say what each function of cJSON does to a forest: it deletes a top,     *)
(* makes one, cuts a node off, puts a top in a list, copies one.  The      *)
(* calls of Json are made of these, or take whole trees out (SetAdrift).   *)
(* Induction along a list is that what is reached is the least closed set. *)
(*                                                                         *)
(* The strings.  Each function that runs a pointer over a text is a        *)
(* recursive function; Recursion says that such a function is there, and   *)
(* XIs what the one called x computes at each position.  What is read is   *)
(* then followed unit by unit (a byte, an escape, \uXXXX), forwards from   *)
(* the opening quote or backwards from the closing one, with an inequality *)
(* or a sequence that each unit keeps.                                     *)
(***************************************************************************)
EXTENDS JsonTree, JsonString, FiniteSetTheorems, SequenceTheorems, WellFoundedInduction, TLAPS

Types == Kinds \union {"fresh", "freed", "adrift"}
Ptrs  == Nodes \union {Null}
Cells == [t : Types, next : Ptrs, prev : Ptrs, child : Ptrs, key : Keys \union {""}]
Heaps == [Nodes -> Cells]
LiveIn(h)   == {n \in Nodes : h[n].t \in Kinds}
From(h, S)  == Reach(Links(h), S)

\* Nothing links to the nodes of O.
TopsIn(h, O) == \A n \in O : h[n].prev = Null /\ \A p \in Nodes : h[p].child # n
\* Links are between live nodes, and no two lead to the same.
Linked(h) ==
  /\ \A n \in Nodes \ LiveIn(h) : h[n].next = Null /\ h[n].prev = Null /\ h[n].child = Null
  /\ \A n \in Nodes : h[n].next # Null => h[n].next \in LiveIn(h) /\ h[h[n].next].prev = n
  /\ \A n \in Nodes : h[n].prev # Null => h[n].prev \in LiveIn(h) /\ h[h[n].prev].next = n
  /\ \A n \in Nodes : h[n].child # Null => h[n].child \in LiveIn(h) /\ h[h[n].child].prev = Null
  /\ \A m, n \in Nodes : h[m].child = h[n].child /\ h[m].child # Null => m = n

Forest(h, O) ==
  /\ O \subseteq LiveIn(h)
  /\ TopsIn(h, O)
  /\ Linked(h)
  /\ LiveIn(h) \subseteq From(h, O)

\* The nodes of O are in no list.
Alone(h, O) == \A n \in O : h[n].next = Null

(***************************************************************************)
(* What is reached from a set of nodes                                     *)
(***************************************************************************)
Graphs == [Nodes -> SUBSET Nodes]

\* Reach(to, S) is around S, and the links do not leave it, ...
LEMMA ReachCloses ==
  ASSUME NEW to \in Graphs, NEW S \in SUBSET Nodes
  PROVE  /\ S \subseteq Reach(to, S) /\ Reach(to, S) \subseteq Nodes
         /\ \A n \in Reach(to, S) : to[n] \subseteq Reach(to, S)
BY DEF Reach, Closed, Graphs

\* ... and it is the least such set.
LEMMA ReachLeast ==
  ASSUME NEW to \in Graphs, NEW S \in SUBSET Nodes, NEW T, S \subseteq T,
         \A n \in T \intersect Nodes : to[n] \subseteq T
  PROVE  Reach(to, S) \subseteq T
<1> DEFINE all == S \union UNION Range(to)
<1> DEFINE U == T \intersect all
<1>1. \A n \in Nodes : to[n] \in SUBSET all
  BY DEF Range, Graphs
<1>2. all \subseteq Nodes
  BY DEF Range, Graphs
<1>3. S \subseteq U /\ \A n \in U : to[n] \subseteq U
  BY <1>1, <1>2
<1>4. U \in Closed(to, S)
  <2>1. U = S \union (U \intersect UNION Range(to))
    BY <1>3
  <2> QED
    BY <1>3, <2>1 DEF Closed
<1> QED
  BY <1>4 DEF Reach

\* Who is reached and is not of S has a link from one who is reached.
LEMMA ReachUp ==
  ASSUME NEW to \in Graphs, NEW S \in SUBSET Nodes, NEW n \in Reach(to, S), n \notin S
  PROVE  \E m \in Reach(to, S) : n \in to[m]
<1> DEFINE T == S \union {k \in Reach(to, S) : \E m \in Reach(to, S) : k \in to[m]}
<1>1. /\ S \subseteq Reach(to, S) /\ Reach(to, S) \subseteq Nodes
      /\ \A k \in Reach(to, S) : to[k] \subseteq Reach(to, S)
  BY ReachCloses
<1>2. \A k \in T \intersect Nodes : to[k] \subseteq T
  BY <1>1
<1>3. Reach(to, S) \subseteq T
  <2> HIDE DEF T
  <2>1. S \subseteq T
    BY DEF T
  <2> QED
    BY <1>2, <2>1, ReachLeast
<1> QED
  BY <1>3

\* The graphs of a heap
LEMMA GraphsAre ==
  ASSUME NEW h \in Heaps
  PROVE  /\ Links(h) \in Graphs /\ Nexts(h) \in Graphs /\ Prevs(h) \in Graphs
         /\ \A n \in Nodes : /\ Links(h)[n] = {h[n].next, h[n].child} \ {Null}
                             /\ Nexts(h)[n] = {h[n].next} \ {Null}
                             /\ Prevs(h)[n] = {h[n].prev} \ {Null}
BY NodesAre DEF Graphs, Links, Nexts, Prevs, Heaps, Cells, Ptrs

\* The same three facts of next and child, ...
LEMMA FromCloses ==
  ASSUME NEW h \in Heaps, NEW S \in SUBSET Nodes
  PROVE  /\ S \subseteq From(h, S) /\ From(h, S) \subseteq Nodes
         /\ \A n \in From(h, S) : /\ h[n].next # Null => h[n].next \in From(h, S)
                                  /\ h[n].child # Null => h[n].child \in From(h, S)
<1>1. /\ S \subseteq From(h, S) /\ From(h, S) \subseteq Nodes
      /\ \A n \in From(h, S) : Links(h)[n] \subseteq From(h, S)
  BY GraphsAre, ReachCloses DEF From
<1>2. \A n \in Nodes : Links(h)[n] = {h[n].next, h[n].child} \ {Null}
  BY GraphsAre
<1> QED
  BY <1>1, <1>2

LEMMA FromLeast ==
  ASSUME NEW h \in Heaps, NEW S \in SUBSET Nodes, NEW T, S \subseteq T,
         \A n \in T \intersect Nodes : /\ h[n].next # Null => h[n].next \in T
                                       /\ h[n].child # Null => h[n].child \in T
  PROVE  From(h, S) \subseteq T
<1>1. \A n \in T \intersect Nodes : Links(h)[n] \subseteq T
  BY GraphsAre
<1> QED
  BY <1>1, GraphsAre, ReachLeast DEF From

LEMMA FromUp ==
  ASSUME NEW h \in Heaps, NEW S \in SUBSET Nodes, NEW n \in From(h, S), n \notin S
  PROVE  n # Null /\ \E m \in From(h, S) : n = h[m].next \/ n = h[m].child
<1>1. \E m \in From(h, S) : n \in Links(h)[m]
  BY GraphsAre, ReachUp DEF From
<1> QED
  BY <1>1, GraphsAre, FromCloses

\* ... of next alone, ...
LEMMA ChildrenClose ==
  ASSUME NEW h \in Heaps, NEW p \in Nodes
  PROVE  /\ Children(h, p) \subseteq Nodes
         /\ h[p].child # Null => h[p].child \in Children(h, p)
         /\ \A n \in Children(h, p) : h[n].next # Null => h[n].next \in Children(h, p)
<1> DEFINE S == {h[p].child} \ {Null}
<1>0. S \in SUBSET Nodes
  BY NodesAre DEF Heaps, Cells, Ptrs
<1>1. /\ S \subseteq Children(h, p) /\ Children(h, p) \subseteq Nodes
      /\ \A n \in Children(h, p) : Nexts(h)[n] \subseteq Children(h, p)
  BY <1>0, GraphsAre, ReachCloses DEF Children
<1>2. \A n \in Nodes : Nexts(h)[n] = {h[n].next} \ {Null}
  BY GraphsAre
<1> QED
  BY <1>1, <1>2

\* Induction along a list: what the first child has and each passes on to the
\* next, all have.
LEMMA ChildrenLeast ==
  ASSUME NEW h \in Heaps, NEW p \in Nodes, NEW T,
         h[p].child # Null => h[p].child \in T,
         \A n \in T \intersect Children(h, p) : h[n].next # Null => h[n].next \in T
  PROVE  Children(h, p) \subseteq T
<1> DEFINE S == {h[p].child} \ {Null}
           U == T \intersect Children(h, p)
<1>0. S \in SUBSET Nodes
  BY NodesAre DEF Heaps, Cells, Ptrs
<1>1. /\ Children(h, p) \subseteq Nodes
      /\ h[p].child # Null => h[p].child \in Children(h, p)
      /\ \A n \in Children(h, p) : h[n].next # Null => h[n].next \in Children(h, p)
  BY ChildrenClose
<1>2. S \subseteq U
  BY <1>1
<1>3. \A n \in U \intersect Nodes : Nexts(h)[n] \subseteq U
  BY <1>1, GraphsAre
<1> HIDE DEF U
<1>4. Reach(Nexts(h), S) \subseteq U
  BY <1>0, <1>2, <1>3, GraphsAre, ReachLeast
<1> QED
  BY <1>4 DEF Children, U

\* A child is the first one, or the next of another.
LEMMA ChildrenUp ==
  ASSUME NEW h \in Heaps, NEW p \in Nodes, NEW n \in Children(h, p)
  PROVE  n # Null /\ (n = h[p].child \/ \E m \in Children(h, p) : n = h[m].next)
<1> DEFINE T == {k \in Nodes : k = h[p].child \/ \E m \in Children(h, p) : k = h[m].next}
<1>1. /\ Children(h, p) \subseteq Nodes
      /\ h[p].child # Null => h[p].child \in Children(h, p)
  BY ChildrenClose
<1>2. Children(h, p) \subseteq T
  <2>1. h[p].child # Null => h[p].child \in T
    BY <1>1
  <2>2. \A k \in T \intersect Children(h, p) : h[k].next # Null => h[k].next \in T
    BY DEF Heaps, Cells, Ptrs
  <2> HIDE DEF T
  <2> QED
    BY <2>1, <2>2, ChildrenLeast
<1> QED
  BY <1>1, <1>2, NodesAre

\* ... and of prev.
UpTo(h, c) == Reach(Prevs(h), {c})
LEMMA UpToCloses ==
  ASSUME NEW h \in Heaps, NEW c \in Nodes
  PROVE  /\ c \in UpTo(h, c) /\ UpTo(h, c) \subseteq Nodes
         /\ \A n \in UpTo(h, c) : h[n].prev # Null => h[n].prev \in UpTo(h, c)
<1>1. /\ {c} \subseteq UpTo(h, c) /\ UpTo(h, c) \subseteq Nodes
      /\ \A n \in UpTo(h, c) : Prevs(h)[n] \subseteq UpTo(h, c)
  BY GraphsAre, ReachCloses DEF UpTo
<1>2. \A n \in Nodes : Prevs(h)[n] = {h[n].prev} \ {Null}
  BY GraphsAre
<1> QED
  BY <1>1, <1>2

LEMMA UpToLeast ==
  ASSUME NEW h \in Heaps, NEW c \in Nodes, NEW T, c \in T,
         \A n \in T \intersect Nodes : h[n].prev # Null => h[n].prev \in T
  PROVE  UpTo(h, c) \subseteq T
<1>1. \A n \in T \intersect Nodes : Prevs(h)[n] \subseteq T
  BY GraphsAre
<1>2. {c} \subseteq T /\ {c} \in SUBSET Nodes
  OBVIOUS
<1> QED
  BY <1>1, <1>2, GraphsAre, ReachLeast DEF UpTo

(***************************************************************************)
(* What is reached in a forest                                             *)
(***************************************************************************)
LEMMA CellsAre ==
  ASSUME NEW h \in Heaps, NEW n \in Nodes
  PROVE  /\ h[n].t \in Types /\ h[n].next \in Ptrs /\ h[n].prev \in Ptrs
         /\ h[n].child \in Ptrs /\ h[n].key \in Keys \union {""} /\ n # Null
BY NodesAre DEF Heaps, Cells

\* What a link says of the nodes it joins.
LEMMA LinkJoins ==
  ASSUME NEW h \in Heaps, Linked(h), NEW n \in Nodes, NEW m \in Nodes
  PROVE  /\ m = h[n].next => h[m].prev = n /\ m \in LiveIn(h) /\ n \in LiveIn(h)
         /\ m = h[n].child => h[m].prev = Null /\ m \in LiveIn(h) /\ n \in LiveIn(h)
         /\ n # Null /\ m # Null
BY NodesAre DEF Linked

LEMMA FromGrows ==
  ASSUME NEW h \in Heaps, NEW S \in SUBSET Nodes, NEW T \in SUBSET Nodes, S \subseteq From(h, T)
  PROVE  From(h, S) \subseteq From(h, T)
BY FromCloses, FromLeast

\* Two sets together reach what each reaches.
LEMMA FromUnion ==
  ASSUME NEW h \in Heaps, NEW S \in SUBSET Nodes, NEW T \in SUBSET Nodes
  PROVE  From(h, S \union T) = From(h, S) \union From(h, T)
<1> DEFINE U == From(h, S) \union From(h, T)
<1>1. /\ S \subseteq U /\ T \subseteq U
      /\ \A n \in U \intersect Nodes : /\ h[n].next # Null => h[n].next \in U
                                       /\ h[n].child # Null => h[n].child \in U
  BY FromCloses
<1>2. From(h, S \union T) \subseteq U
  <2> HIDE DEF U
  <2> QED
    BY <1>1, FromLeast
<1>3. S \subseteq From(h, S \union T) /\ T \subseteq From(h, S \union T)
  BY FromCloses
<1> QED
  BY <1>2, <1>3, FromGrows

\* Who is reached from the tops is reached from one of them.
LEMMA FromOne ==
  ASSUME NEW h \in Heaps, NEW O \in SUBSET Nodes
  PROVE  From(h, O) \subseteq UNION {From(h, {o}) : o \in O}
<1> DEFINE T == UNION {From(h, {o}) : o \in O}
<1>1. \A o \in O : /\ {o} \subseteq From(h, {o})
                   /\ \A n \in From(h, {o}) : /\ h[n].next # Null => h[n].next \in From(h, {o})
                                              /\ h[n].child # Null => h[n].child \in From(h, {o})
  <2> TAKE o \in O
  <2>1. {o} \in SUBSET Nodes
    OBVIOUS
  <2> QED
    BY <2>1, FromCloses
<1>2. O \subseteq T
  BY <1>1
<1>3. \A n \in T \intersect Nodes : /\ h[n].next # Null => h[n].next \in T
                                    /\ h[n].child # Null => h[n].child \in T
  BY <1>1
<1> HIDE DEF T
<1>4. From(h, O) \subseteq T
  BY <1>2, <1>3, FromLeast
<1> QED
  BY <1>4 DEF T

\* Two heaps with the same links in what is reached from S reach the same.
LEMMA FromSame ==
  ASSUME NEW h \in Heaps, NEW g \in Heaps, NEW S \in SUBSET Nodes,
         \A n \in From(h, S) : g[n].next = h[n].next /\ g[n].child = h[n].child
  PROVE  From(g, S) = From(h, S)
<1>1. From(g, S) \subseteq From(h, S)
  <2>1. /\ S \subseteq From(h, S)
        /\ \A n \in From(h, S) : /\ g[n].next # Null => g[n].next \in From(h, S)
                                 /\ g[n].child # Null => g[n].child \in From(h, S)
    BY FromCloses
  <2> QED
    BY <2>1, FromLeast
<1>2. From(h, S) \subseteq From(g, S)
  <2>1. /\ S \subseteq From(g, S)
        /\ \A n \in From(g, S) : /\ g[n].next # Null => g[n].next \in From(g, S)
                                 /\ g[n].child # Null => g[n].child \in From(g, S)
    BY FromCloses
  <2>2. \A n \in From(g, S) : /\ h[n].next # Null => h[n].next \in From(g, S)
                              /\ h[n].child # Null => h[n].child \in From(g, S)
    BY <1>1, <2>1
  <2> QED
    BY <2>1, <2>2, FromLeast
<1> QED
  BY <1>1, <1>2

\* Nothing that has no link to it is reached from elsewhere.
LEMMA TopsNotReached ==
  ASSUME NEW h \in Heaps, NEW S \in SUBSET Nodes, NEW O \in SUBSET Nodes,
         Linked(h), TopsIn(h, O), NEW n \in O, n \in From(h, S)
  PROVE  n \in S
<1> SUFFICES ASSUME n \notin S PROVE FALSE
  OBVIOUS
<1>1. PICK m \in From(h, S) : n # Null /\ (n = h[m].next \/ n = h[m].child)
  BY FromUp
<1>2. m \in Nodes /\ m # Null
  BY FromCloses, NodesAre
<1> QED
  BY <1>1, <1>2 DEF TopsIn, Linked

\* Who links to what is reached is reached.
LEMMA FromSource ==
  ASSUME NEW h \in Heaps, NEW S \in SUBSET Nodes, Linked(h),
         NEW n \in From(h, S), n \notin S,
         NEW m \in Nodes, n = h[m].next \/ n = h[m].child
  PROVE  m \in From(h, S)
<1>1. PICK k \in From(h, S) : n # Null /\ (n = h[k].next \/ n = h[k].child)
  BY FromUp
<1>2. k \in Nodes /\ k # Null /\ m # Null
  BY FromCloses, NodesAre
<1> QED
  BY <1>1, <1>2 DEF Linked

\* What is not reached from tops leads to nothing that is.
LEMMA FromApart ==
  ASSUME NEW h \in Heaps, NEW S \in SUBSET Nodes, NEW T \in SUBSET Nodes,
         Linked(h), TopsIn(h, T), S \intersect From(h, T) = {}
  PROVE  From(h, S) \intersect From(h, T) = {}
<1> DEFINE C == Nodes \ From(h, T)
<1>1. S \subseteq C
  OBVIOUS
<1>2. ASSUME NEW n \in C, NEW m \in Nodes, m = h[n].next \/ m = h[n].child PROVE m \in C
  <2> SUFFICES ASSUME m \in From(h, T) PROVE FALSE
    OBVIOUS
  <2>1. m \in T
    BY <1>2, FromSource
  <2> QED
    BY <1>2, <2>1, LinkJoins DEF TopsIn
<1>3. \A n \in C : /\ h[n].next # Null => h[n].next \in C
                   /\ h[n].child # Null => h[n].child \in C
  BY <1>2, CellsAre DEF Ptrs
<1>4. From(h, S) \subseteq C
  <2> HIDE DEF C
  <2>1. C \intersect Nodes = C
    BY DEF C
  <2> QED
    BY <1>1, <1>3, <2>1, FromLeast
<1> QED
  BY <1>4

\* So trees of different tops have no node in common.
LEMMA TreesApart ==
  ASSUME NEW h \in Heaps, NEW O \in SUBSET Nodes, Linked(h), TopsIn(h, O),
         NEW S \in SUBSET O, NEW T \in SUBSET O, S \intersect T = {}
  PROVE  From(h, S) \intersect From(h, T) = {}
<1>1. S \intersect From(h, T) = {}
  BY TopsNotReached
<1>2. TopsIn(h, T)
  BY DEF TopsIn
<1> QED
  BY <1>1, <1>2, FromApart

\* Nobody is below himself.
LEMMA NoCycle ==
  ASSUME NEW h \in Heaps, NEW O, Forest(h, O),
         NEW n \in Nodes, NEW m \in Nodes, m = h[n].next \/ m = h[n].child
  PROVE  n \notin From(h, {m})
<1> DEFINE Z == From(h, {m})
           C == Nodes \ Z
<1> SUFFICES ASSUME n \in Z PROVE FALSE
  OBVIOUS
<1>0. /\ O \in SUBSET Nodes /\ Linked(h) /\ TopsIn(h, O) /\ LiveIn(h) \subseteq From(h, O)
      /\ n \in LiveIn(h)
  BY LinkJoins DEF Forest, LiveIn
<1>1. ASSUME NEW k \in Nodes, NEW l \in Z, l = h[k].next \/ l = h[k].child PROVE k \in Z
  <2>1. CASE l = m
    <3>1. h[n].child = m /\ h[k].child = m => k = n
      BY <1>0, NodesAre DEF Linked
    <3> QED
      BY <1>0, <1>1, <2>1, <3>1, LinkJoins
  <2>2. CASE l # m
    BY <1>0, <1>1, <2>2, FromSource
  <2> QED
    BY <2>1, <2>2
<1>2. ASSUME NEW o \in O PROVE o \in C
  <2> SUFFICES ASSUME o \in Z PROVE FALSE
    BY <1>0
  <2>1. o = m
    BY <1>0, TopsNotReached
  <2> QED
    BY <1>0, <2>1, LinkJoins DEF TopsIn
<1>3. \A k \in C : /\ h[k].next # Null => h[k].next \in C
                   /\ h[k].child # Null => h[k].child \in C
  BY <1>1, CellsAre DEF Ptrs
<1>4. From(h, O) \subseteq C
  <2>1. C \intersect Nodes = C /\ O \subseteq C
    BY <1>0, <1>2
  <2> HIDE DEF C
  <2> QED
    BY <1>0, <1>3, <2>1, FromLeast
<1> QED
  BY <1>0, <1>4

(***************************************************************************)
(* Lists                                                                   *)
(***************************************************************************)
\* The first of a list has no prev and is the child; the others' prev are in
\* the list.
LEMMA ChildrenAre ==
  ASSUME NEW h \in Heaps, Linked(h), NEW p \in Nodes, NEW c \in Children(h, p)
  PROVE  /\ c \in LiveIn(h) /\ p \in LiveIn(h) /\ h[p].child # Null
         /\ h[c].prev = Null => h[p].child = c
         /\ h[c].prev # Null => h[c].prev \in Children(h, p) /\ h[p].child # c
<1>1. c \in Nodes /\ c # Null
  BY ChildrenClose, NodesAre
<1>2. c = h[p].child \/ \E m \in Children(h, p) : c = h[m].next
  BY ChildrenUp
<1>3. h[p].child # Null
  <2> SUFFICES ASSUME h[p].child = Null PROVE FALSE
    OBVIOUS
  <2>1. \A n \in {} \intersect Children(h, p) : h[n].next # Null => h[n].next \in {}
    OBVIOUS
  <2>2. Children(h, p) \subseteq {}
    BY <2>1, ChildrenLeast
  <2> QED
    BY <2>2
<1>4. p \in LiveIn(h)
  BY <1>3 DEF Linked
<1>5. CASE c = h[p].child
  BY <1>1, <1>3, <1>4, <1>5 DEF Linked
<1>6. ASSUME NEW m \in Children(h, p), c = h[m].next
      PROVE  c \in LiveIn(h) /\ h[c].prev = m /\ m # Null /\ h[p].child # c
  <2>1. m \in Nodes /\ m # Null
    BY ChildrenClose, NodesAre
  <2> QED
    BY <1>1, <1>6, <2>1 DEF Linked
<1> QED
  BY <1>2, <1>3, <1>4, <1>5, <1>6

\* Who reaches a node reaches its children.
LEMMA ChildrenReached ==
  ASSUME NEW h \in Heaps, NEW S \in SUBSET Nodes, NEW p \in From(h, S)
  PROVE  Children(h, p) \subseteq From(h, S)
BY FromCloses, ChildrenLeast

\* The children of a node outside the trees T are outside.
LEMMA ChildrenApart ==
  ASSUME NEW h \in Heaps, Linked(h), NEW T \in SUBSET Nodes, TopsIn(h, T),
         NEW p \in Nodes, p \notin From(h, T)
  PROVE  Children(h, p) \intersect From(h, T) = {}
<1>1. p \in From(h, {p}) /\ {p} \in SUBSET Nodes
  BY FromCloses
<1>2. From(h, {p}) \intersect From(h, T) = {}
  BY <1>1, FromApart
<1> QED
  BY <1>1, <1>2, ChildrenReached

\* A list ends: no map of its nodes, which are finitely many, to others of them
\* than the first can tell them all apart.
LEMMA LastIs ==
  ASSUME NEW h \in Heaps, Linked(h), NEW p \in Nodes, h[p].child # Null
  PROVE  LastChild(h, p) \in Children(h, p) /\ h[LastChild(h, p)].next = Null
<1> DEFINE K == Children(h, p)
           f == [c \in K |-> h[c].next]
<1>1. K \subseteq Nodes /\ h[p].child \in K
  BY ChildrenClose
<1>2. \E c \in K : h[c].next = Null
  <2> SUFFICES ASSUME \A c \in K : h[c].next # Null PROVE FALSE
    OBVIOUS
  <2>1. \A c \in K : h[c].next \in K /\ h[h[c].next].prev = c
    BY <1>1, ChildrenClose DEF Linked
  <2>2. f \in Injection(K, K)
    BY <2>1 DEF Injection, IsInjective
  <2>3. IsFiniteSet(K)
    BY <1>1, NodesAre, FS_Subset
  <2> HIDE DEF f
  <2>4. f \in Surjection(K, K)
    BY <2>2, <2>3, FS_Injection
  <2>5. \E c \in K : f[c] = h[p].child
    BY <1>1, <2>4 DEF Surjection
  <2>6. PICK c \in K : h[c].next = h[p].child
    BY <2>5 DEF f
  <2> QED
    BY <1>1, <2>1, <2>6, NodesAre DEF Linked
<1> QED
  BY <1>2 DEF LastChild

(***************************************************************************)
(* What the functions on lists write                                       *)
(***************************************************************************)
\* All but the links of a node.
SameItem(g, h, n) == g[n].t = h[n].t /\ g[n].key = h[n].key

WritesNext(g, h, n, x) ==
  \A m \in Nodes : /\ SameItem(g, h, m) /\ g[m].prev = h[m].prev /\ g[m].child = h[m].child
                   /\ g[m].next = IF m = n THEN x ELSE h[m].next
WritesPrev(g, h, n, x) ==
  \A m \in Nodes : /\ SameItem(g, h, m) /\ g[m].next = h[m].next /\ g[m].child = h[m].child
                   /\ g[m].prev = IF m = n THEN x ELSE h[m].prev
WritesFirst(g, h, p, x, y) ==
  \A m \in Nodes : /\ SameItem(g, h, m) /\ g[m].next = h[m].next /\ g[m].prev = h[m].prev
                   /\ g[m].child = IF m = p /\ h[p].child = x THEN y ELSE h[m].child
WritesBoth(g, h, x) ==
  \A m \in Nodes : /\ SameItem(g, h, m) /\ g[m].child = h[m].child
                   /\ g[m].next = IF m = x THEN Null ELSE h[m].next
                   /\ g[m].prev = IF m = x THEN Null ELSE h[m].prev

LEMMA SetsNext ==
  ASSUME NEW h \in Heaps, NEW n \in Ptrs, NEW x \in Ptrs
  PROVE  SetNext(h, n, x) \in Heaps /\ WritesNext(SetNext(h, n, x), h, n, x)
<1>1. CASE n = Null
  BY <1>1, NodesAre DEF SetNext, SameItem, WritesNext
<1>2. CASE n # Null
  <2>1. PICK c, d : c = h[n] /\ d = [c EXCEPT !.next = x]
    OBVIOUS
  <2>2. n \in Nodes /\ c \in Cells /\ h \in [Nodes -> Cells]
    BY <1>2, <2>1 DEF Ptrs, Heaps
  <2>3. /\ d \in Cells /\ d.next = x
        /\ d.t = c.t /\ d.key = c.key /\ d.prev = c.prev /\ d.child = c.child
    BY <2>1, <2>2 DEF Cells
  <2>4. SetNext(h, n, x) = [h EXCEPT ![n] = d]
    BY <1>2, <2>1 DEF SetNext
  <2>5. SetNext(h, n, x) \in Heaps
    BY <2>2, <2>3, <2>4 DEF Heaps
  <2>6. WritesNext(SetNext(h, n, x), h, n, x)
    BY <2>1, <2>2, <2>3, <2>4 DEF SameItem, WritesNext
  <2> QED
    BY <2>5, <2>6
<1> QED
  BY <1>1, <1>2

LEMMA SetsPrev ==
  ASSUME NEW h \in Heaps, NEW n \in Ptrs, NEW x \in Ptrs
  PROVE  SetPrev(h, n, x) \in Heaps /\ WritesPrev(SetPrev(h, n, x), h, n, x)
<1>1. CASE n = Null
  BY <1>1, NodesAre DEF SetPrev, SameItem, WritesPrev
<1>2. CASE n # Null
  <2>1. PICK c, d : c = h[n] /\ d = [c EXCEPT !.prev = x]
    OBVIOUS
  <2>2. n \in Nodes /\ c \in Cells /\ h \in [Nodes -> Cells]
    BY <1>2, <2>1 DEF Ptrs, Heaps
  <2>3. /\ d \in Cells /\ d.prev = x
        /\ d.t = c.t /\ d.key = c.key /\ d.next = c.next /\ d.child = c.child
    BY <2>1, <2>2 DEF Cells
  <2>4. SetPrev(h, n, x) = [h EXCEPT ![n] = d]
    BY <1>2, <2>1 DEF SetPrev
  <2>5. SetPrev(h, n, x) \in Heaps
    BY <2>2, <2>3, <2>4 DEF Heaps
  <2>6. WritesPrev(SetPrev(h, n, x), h, n, x)
    BY <2>1, <2>2, <2>3, <2>4 DEF SameItem, WritesPrev
  <2> QED
    BY <2>5, <2>6
<1> QED
  BY <1>1, <1>2

LEMMA SetsFirst ==
  ASSUME NEW h \in Heaps, NEW p \in Nodes, NEW x, NEW y \in Ptrs
  PROVE  SetFirst(h, p, x, y) \in Heaps /\ WritesFirst(SetFirst(h, p, x, y), h, p, x, y)
<1>1. CASE h[p].child = x
  <2>1. PICK c, d : c = h[p] /\ d = [c EXCEPT !.child = y]
    OBVIOUS
  <2>2. c \in Cells /\ h \in [Nodes -> Cells]
    BY <2>1 DEF Heaps
  <2>3. /\ d \in Cells /\ d.child = y
        /\ d.t = c.t /\ d.key = c.key /\ d.next = c.next /\ d.prev = c.prev
    BY <2>1, <2>2 DEF Cells
  <2>4. SetFirst(h, p, x, y) = [h EXCEPT ![p] = d]
    BY <1>1, <2>1 DEF SetFirst
  <2>5. SetFirst(h, p, x, y) \in Heaps
    BY <2>2, <2>3, <2>4 DEF Heaps
  <2>6. WritesFirst(SetFirst(h, p, x, y), h, p, x, y)
    BY <1>1, <2>1, <2>2, <2>3, <2>4 DEF SameItem, WritesFirst
  <2> QED
    BY <2>5, <2>6
<1>2. CASE h[p].child # x
  BY <1>2 DEF SetFirst, SameItem, WritesFirst
<1> QED
  BY <1>1, <1>2

LEMMA Unlinks ==
  ASSUME NEW h \in Heaps, NEW x \in Nodes
  PROVE  Unlink(h, x) \in Heaps /\ WritesBoth(Unlink(h, x), h, x)
<1>1. x \in Ptrs /\ Null \in Ptrs
  BY DEF Ptrs
<1>2. PICK g, k : g = SetNext(h, x, Null) /\ k = SetPrev(g, x, Null)
  OBVIOUS
<1>3. g \in Heaps /\ WritesNext(g, h, x, Null)
  BY <1>1, <1>2, SetsNext
<1>4. k \in Heaps /\ WritesPrev(k, g, x, Null)
  BY <1>1, <1>2, <1>3, SetsPrev
<1>5. WritesBoth(k, h, x)
  BY <1>3, <1>4 DEF WritesBoth, WritesNext, WritesPrev, SameItem
<1>6. k = Unlink(h, x)
  BY <1>2 DEF Unlink
<1> QED
  BY <1>4, <1>5, <1>6

\* x behind the last child of p, or as its only child
Behind(g, h, p, x, last) ==
  \A m \in Nodes :
    /\ SameItem(g, h, m)
    /\ g[m].next = IF h[p].child # Null /\ m = last THEN x ELSE h[m].next
    /\ g[m].prev = IF h[p].child # Null /\ m = x THEN last ELSE h[m].prev
    /\ g[m].child = IF h[p].child = Null /\ m = p THEN x ELSE h[m].child

\* cJSON_AddItemToArray()
LEMMA AddItemWrites ==
  ASSUME NEW h \in Heaps, Linked(h), NEW p \in Nodes, NEW x \in Nodes
  PROVE  /\ AddItemToArray(h, p, x) \in Heaps
         /\ Behind(AddItemToArray(h, p, x), h, p, x, LastChild(h, p))
<1>0. x \in Ptrs /\ x # Null
  BY NodesAre DEF Ptrs
<1>1. CASE h[p].child = Null
  <2>1. AddItemToArray(h, p, x) = SetFirst(h, p, Null, x)
    BY <1>1 DEF AddItemToArray, SetFirst
  <2>2. PICK g : g = SetFirst(h, p, Null, x)
    OBVIOUS
  <2>3. g \in Heaps /\ WritesFirst(g, h, p, Null, x)
    BY <1>0, <2>2, SetsFirst
  <2>4. Behind(g, h, p, x, LastChild(h, p))
    BY <1>1, <2>3 DEF Behind, WritesFirst
  <2> QED
    BY <2>1, <2>2, <2>3, <2>4
<1>2. CASE h[p].child # Null
  <2>1. PICK last : last = LastChild(h, p)
    OBVIOUS
  <2>2. last \in Ptrs /\ last # Null
    BY <1>2, <2>1, LastIs, ChildrenClose, NodesAre DEF Ptrs
  <2>3. PICK g, k : g = SetNext(h, last, x) /\ k = SetPrev(g, x, last)
    OBVIOUS
  <2>4. AddItemToArray(h, p, x) = k
    BY <1>0, <1>2, <2>1, <2>2, <2>3 DEF AddItemToArray, SetNext, SetPrev
  <2>5. g \in Heaps /\ WritesNext(g, h, last, x)
    BY <1>0, <2>2, <2>3, SetsNext
  <2>6. k \in Heaps /\ WritesPrev(k, g, x, last)
    BY <1>0, <2>2, <2>3, <2>5, SetsPrev
  <2>7. Behind(k, h, p, x, last)
    BY <1>2, <2>5, <2>6 DEF Behind, WritesNext, WritesPrev, SameItem
  <2> QED
    BY <2>1, <2>4, <2>6, <2>7
<1> QED
  BY <1>1, <1>2

\* x out of the list of p
Detached(g, h, p, x) ==
  \A m \in Nodes :
    /\ SameItem(g, h, m)
    /\ g[m].next = IF m = x THEN Null ELSE IF m = h[x].prev THEN h[x].next ELSE h[m].next
    /\ g[m].prev = IF m = x THEN Null ELSE IF m = h[x].next THEN h[x].prev ELSE h[m].prev
    /\ g[m].child = IF m = p /\ h[p].child = x THEN h[x].next ELSE h[m].child

\* cJSON_DetachItemViaPointer()
LEMMA DetachWrites ==
  ASSUME NEW h \in Heaps, NEW p \in Nodes, NEW x \in Nodes
  PROVE  DetachItem(h, p, x) \in Heaps /\ Detached(DetachItem(h, p, x), h, p, x)
<1>1. PICK prev, next : prev = h[x].prev /\ next = h[x].next
  OBVIOUS
<1>2. prev \in Ptrs /\ next \in Ptrs
  BY <1>1, CellsAre
<1>3. PICK g1, g2, g3, g : /\ g1 = SetNext(h, prev, next) /\ g2 = SetPrev(g1, next, prev)
                           /\ g3 = SetFirst(g2, p, x, next) /\ g = Unlink(g3, x)
  OBVIOUS
<1>4. g1 \in Heaps /\ WritesNext(g1, h, prev, next)
  BY <1>2, <1>3, SetsNext
<1>5. g2 \in Heaps /\ WritesPrev(g2, g1, next, prev)
  BY <1>2, <1>3, <1>4, SetsPrev
<1>6. g3 \in Heaps /\ WritesFirst(g3, g2, p, x, next)
  BY <1>2, <1>3, <1>5, SetsFirst
<1>7. g \in Heaps /\ WritesBoth(g, g3, x)
  BY <1>3, <1>6, Unlinks
<1>8. g = DetachItem(h, p, x)
  BY <1>1, <1>3 DEF DetachItem
<1>9. Detached(g, h, p, x)
  BY <1>1, <1>4, <1>5, <1>6, <1>7 DEF Detached, WritesNext, WritesPrev, WritesFirst, WritesBoth, SameItem
<1> QED
  BY <1>7, <1>8, <1>9

\* x in front of after in the list of p
InFront(g, h, p, after, x) ==
  \A m \in Nodes :
    /\ SameItem(g, h, m)
    /\ g[m].next = IF m = x THEN after ELSE IF m = h[after].prev THEN x ELSE h[m].next
    /\ g[m].prev = IF m = after THEN x ELSE IF m = x THEN h[after].prev ELSE h[m].prev
    /\ g[m].child = IF m = p /\ h[p].child = after THEN x ELSE h[m].child

\* cJSON_InsertItemInArray()
LEMMA InsertWrites ==
  ASSUME NEW h \in Heaps, NEW p \in Nodes, NEW x \in Nodes, NEW after \in Nodes,
         h[after].prev # x,
         h[p].child = after => h[after].prev = Null
  PROVE  InsertItem(h, p, after, x) \in Heaps /\ InFront(InsertItem(h, p, after, x), h, p, after, x)
<1>1. PICK prev : prev = h[after].prev
  OBVIOUS
<1>2. prev \in Ptrs /\ x \in Ptrs /\ after \in Ptrs
  BY <1>1, CellsAre DEF Ptrs
<1>3. PICK g1, g2, g3 : /\ g1 = SetNext(h, x, after) /\ g2 = SetPrev(g1, x, prev)
                        /\ g3 = SetPrev(g2, after, x)
  OBVIOUS
<1>4. g1 \in Heaps /\ WritesNext(g1, h, x, after)
  BY <1>2, <1>3, SetsNext
<1>5. g2 \in Heaps /\ WritesPrev(g2, g1, x, prev)
  BY <1>2, <1>3, <1>4, SetsPrev
<1>6. g3 \in Heaps /\ WritesPrev(g3, g2, after, x)
  BY <1>2, <1>3, <1>5, SetsPrev
<1>7. CASE h[p].child = after
  <2>1. PICK g : g = SetFirst(g3, p, after, x)
    OBVIOUS
  <2>2. InsertItem(h, p, after, x) = g
    BY <1>1, <1>3, <1>7, <2>1 DEF InsertItem
  <2>3. g \in Heaps /\ WritesFirst(g, g3, p, after, x)
    BY <1>2, <1>6, <2>1, SetsFirst
  <2>4. InFront(g, h, p, after, x)
    BY <1>1, <1>4, <1>5, <1>6, <1>7, <2>3, NodesAre DEF InFront, WritesNext, WritesPrev, WritesFirst, SameItem
  <2> QED
    BY <2>2, <2>3, <2>4
<1>8. CASE h[p].child # after
  <2>1. PICK g : g = SetNext(g3, prev, x)
    OBVIOUS
  <2>2. InsertItem(h, p, after, x) = g
    BY <1>1, <1>3, <1>8, <2>1 DEF InsertItem
  <2>3. g \in Heaps /\ WritesNext(g, g3, prev, x)
    BY <1>2, <1>6, <2>1, SetsNext
  <2>4. InFront(g, h, p, after, x)
    BY <1>1, <1>4, <1>5, <1>6, <1>8, <2>3 DEF InFront, WritesNext, WritesPrev, SameItem
  <2> QED
    BY <2>2, <2>3, <2>4
<1> QED
  BY <1>7, <1>8

\* x in the place of old, which is out of the list
InPlace(g, h, p, old, x) ==
  \A m \in Nodes :
    /\ SameItem(g, h, m)
    /\ g[m].next = IF m = old THEN Null ELSE IF m = h[old].prev THEN x
                   ELSE IF m = x THEN h[old].next ELSE h[m].next
    /\ g[m].prev = IF m = old THEN Null ELSE IF m = h[old].next THEN x
                   ELSE IF m = x THEN h[old].prev ELSE h[m].prev
    /\ g[m].child = IF m = p /\ h[p].child = old THEN x ELSE h[m].child

\* cJSON_ReplaceItemViaPointer(), before it deletes the old item
LEMMA ReplaceWrites ==
  ASSUME NEW h \in Heaps, NEW p \in Nodes, NEW x \in Nodes, NEW old \in Nodes, x # old
  PROVE  \E g \in Heaps : InPlace(g, h, p, old, x) /\ ReplaceItem(h, p, old, x) = Delete(g, old)
<1>1. PICK prev, next : prev = h[old].prev /\ next = h[old].next
  OBVIOUS
<1>2. prev \in Ptrs /\ next \in Ptrs /\ x \in Ptrs
  BY <1>1, CellsAre DEF Ptrs
<1>3. PICK g1, g2, g3, g4, g5, g :
        /\ g1 = SetNext(h, x, next) /\ g2 = SetPrev(g1, x, prev)
        /\ g3 = SetPrev(g2, next, x) /\ g4 = SetNext(g3, prev, x)
        /\ g5 = SetFirst(g4, p, old, x) /\ g = Unlink(g5, old)
  OBVIOUS
<1>4. g1 \in Heaps /\ WritesNext(g1, h, x, next)
  BY <1>2, <1>3, SetsNext
<1>5. g2 \in Heaps /\ WritesPrev(g2, g1, x, prev)
  BY <1>2, <1>3, <1>4, SetsPrev
<1>6. g3 \in Heaps /\ WritesPrev(g3, g2, next, x)
  BY <1>2, <1>3, <1>5, SetsPrev
<1>7. g4 \in Heaps /\ WritesNext(g4, g3, prev, x)
  BY <1>2, <1>3, <1>6, SetsNext
<1>8. g5 \in Heaps /\ WritesFirst(g5, g4, p, old, x)
  BY <1>2, <1>3, <1>7, SetsFirst
<1>9. g \in Heaps /\ WritesBoth(g, g5, old)
  BY <1>3, <1>8, Unlinks
<1>10. InPlace(g, h, p, old, x)
  BY <1>1, <1>4, <1>5, <1>6, <1>7, <1>8, <1>9
     DEF InPlace, WritesNext, WritesPrev, WritesFirst, WritesBoth, SameItem
<1>11. ReplaceItem(h, p, old, x) = Delete(g, old)
  BY <1>1, <1>3 DEF ReplaceItem
<1> QED
  BY <1>9, <1>10, <1>11

(***************************************************************************)
(* What they do to a forest                                                *)
(***************************************************************************)
\* Types that stay live and links that stay leave a forest as it is.
LEMMA ForestSame ==
  ASSUME NEW h \in Heaps, NEW g \in Heaps, NEW O, Forest(h, O),
         LiveIn(g) = LiveIn(h),
         \A m \in Nodes : /\ g[m].next = h[m].next
                          /\ g[m].prev = h[m].prev
                          /\ g[m].child = h[m].child
  PROVE  Forest(g, O) /\ \A S \in SUBSET Nodes : From(g, S) = From(h, S)
<1>1. \A S \in SUBSET Nodes : From(g, S) = From(h, S)
  BY FromSame, FromCloses
<1>2. O \in SUBSET Nodes
  BY DEF Forest, LiveIn
<1>3. Linked(g)
  <2>1. \A n \in LiveIn(h) : n \in Nodes
    BY DEF LiveIn
  <2> QED
    BY <2>1 DEF Linked, Forest
<1>4. TopsIn(g, O)
  BY <1>2 DEF TopsIn, Forest
<1> QED
  BY <1>1, <1>2, <1>3, <1>4 DEF Forest

\* A node that was freed, or that is not followed
LEMMA DeadAre ==
  ASSUME NEW c \in {Freed, Adrift}
  PROVE  /\ c.t \in {"freed", "adrift"} /\ c.next = Null /\ c.prev = Null /\ c.child = Null
         /\ c.t \notin Kinds /\ c \in Cells
<1>1. CASE c = Freed
  BY <1>1 DEF Freed, Cell, Kinds, Cells, Types, Ptrs
<1>2. CASE c = Adrift
  BY <1>2 DEF Adrift, Cell, Kinds, Cells, Types, Ptrs
<1> QED
  BY <1>1, <1>2

\* Links lead from live nodes to live nodes.
LEMMA FromLive ==
  ASSUME NEW h \in Heaps, Linked(h), NEW S \in SUBSET Nodes, S \subseteq LiveIn(h)
  PROVE  From(h, S) \subseteq LiveIn(h)
<1>1. \A m \in LiveIn(h) : /\ h[m].next # Null => h[m].next \in LiveIn(h)
                           /\ h[m].child # Null => h[m].child \in LiveIn(h)
  BY DEF Linked, LiveIn
<1> QED
  BY <1>1, FromLeast

\* The trees of the tops S become cells c.
Cut(h, S, c) == [n \in Nodes |-> IF n \in From(h, S) THEN c ELSE h[n]]

\* Without the trees of some tops a forest is one of the others.
LEMMA ForestCuts ==
  ASSUME NEW h \in Heaps, NEW O, Forest(h, O), NEW S \in SUBSET O, NEW c \in {Freed, Adrift}
  PROVE  /\ Cut(h, S, c) \in Heaps
         /\ Forest(Cut(h, S, c), O \ S)
         /\ LiveIn(Cut(h, S, c)) = LiveIn(h) \ From(h, S)
         /\ \A n \in Nodes \ From(h, S) : Cut(h, S, c)[n] = h[n]
         /\ \A n \in From(h, S) : Cut(h, S, c)[n] = c
         /\ From(h, S) \subseteq LiveIn(h) /\ O \intersect From(h, S) = S
<1>1. PICK g : g = Cut(h, S, c)
  OBVIOUS
<1> DEFINE F == From(h, S)
<1>2. /\ O \in SUBSET Nodes /\ S \in SUBSET Nodes /\ O \subseteq LiveIn(h)
      /\ TopsIn(h, O) /\ Linked(h) /\ LiveIn(h) \subseteq From(h, O)
  BY DEF Forest, LiveIn
<1>3. S \subseteq F /\ F \subseteq Nodes /\ F \subseteq LiveIn(h)
  BY <1>2, FromCloses, FromLive
<1>4. (\A n \in Nodes \ F : g[n] = h[n]) /\ \A n \in F : g[n] = c
  BY <1>1, <1>3 DEF Cut
<1>5. g \in Heaps
  BY <1>1, DeadAre DEF Cut, Heaps
<1>6. LiveIn(g) = LiveIn(h) \ F
  BY <1>3, <1>4, DeadAre DEF LiveIn
<1>7. From(h, O \ S) \intersect F = {}
  BY <1>2, TreesApart
<1>8. From(g, O \ S) = From(h, O \ S)
  <2>1. O \ S \in SUBSET Nodes
    BY <1>2
  <2>2. From(h, O \ S) \subseteq Nodes
    BY <2>1, FromCloses
  <2>3. \A n \in From(h, O \ S) : g[n].next = h[n].next /\ g[n].child = h[n].child
    BY <1>4, <1>7, <2>2
  <2> QED
    BY <1>5, <2>1, <2>3, FromSame
<1>9. LiveIn(g) \subseteq From(g, O \ S)
  <2>1. From(h, (O \ S) \union S) = From(h, O \ S) \union F
    BY <1>2, FromUnion
  <2>2. (O \ S) \union S = O
    OBVIOUS
  <2> QED
    BY <1>2, <1>6, <1>8, <2>1, <2>2
<1>10. O \ S \subseteq LiveIn(g) /\ O \intersect F = S
  <2>1. \A o \in O : o \in F => o \in S
    BY <1>2, TopsNotReached
  <2> QED
    BY <1>2, <1>3, <1>6, <2>1
<1>11. ASSUME NEW n \in Nodes \ F
       PROVE  /\ h[n].next # Null => h[n].next \notin F
              /\ h[n].child # Null => h[n].child \notin F
              /\ h[n].prev # Null => h[n].prev \notin F
  <2>1. \A m \in F : m = h[n].next \/ m = h[n].child => m \in S
    BY <1>2, FromSource
  <2>2. h[n].next \notin S /\ h[n].child \notin S
    BY <1>2, LinkJoins, NodesAre DEF TopsIn
  <2>3. h[n].prev # Null => h[n].prev \in Nodes /\ h[h[n].prev].next = n
    BY <1>2 DEF Linked, LiveIn
  <2>4. h[n].prev # Null => h[n].prev \notin F
    BY <1>2, <2>3, FromCloses, NodesAre
  <2> QED
    BY <2>1, <2>2, <2>4
<1>12. Linked(g)
  <2>1. \A n \in F : g[n].next = Null /\ g[n].prev = Null /\ g[n].child = Null
    BY <1>4, DeadAre
  <2>2. \A n \in LiveIn(h) : n \in Nodes
    BY DEF LiveIn
  <2> HIDE DEF F
  <2> QED
    BY <1>2, <1>3, <1>4, <1>6, <1>11, <2>1, <2>2 DEF Linked
<1>13. TopsIn(g, O \ S)
  <2>1. \A n \in O \ S : n \in Nodes \ F /\ n # Null
    BY <1>2, <1>6, <1>10, NodesAre
  <2> HIDE DEF F
  <2>2. \A n \in O \ S : g[n].prev = Null
    BY <1>2, <1>4, <2>1 DEF TopsIn
  <2>3. \A m \in Nodes : g[m].child = Null \/ g[m].child = h[m].child
    BY <1>4, DeadAre
  <2> QED
    BY <1>2, <2>1, <2>2, <2>3 DEF TopsIn
<1> QED
  BY <1>1, <1>3, <1>4, <1>5, <1>6, <1>9, <1>10, <1>12, <1>13 DEF Forest

\* A forest of lists that start at their tops: what cJSON's functions leave.
Trees(h, O) == Forest(h, O) /\ Alone(h, O)

Same(g, h, m) == /\ SameItem(g, h, m) /\ g[m].next = h[m].next
                 /\ g[m].prev = h[m].prev /\ g[m].child = h[m].child
\* What is put below p is x with its tree, and no other node is written.
Grows(g, h, p, x) == /\ Below(g, p) \subseteq Below(h, p) \union From(h, {x})
                     /\ \A m \in Nodes \ (Below(h, p) \union {x}) : Same(g, h, m)
\* No node but those of C is written.
Writes(g, h, C) == \A m \in Nodes \ C : g[m] = h[m]
\* What is adrift stays so.
AdriftIn(h) == {n \in Nodes : h[n].t = "adrift"}
Lasts(g, h) == AdriftIn(h) \subseteq AdriftIn(g)

\* What a forest of trees gives
LEMMA TreesAre ==
  ASSUME NEW h, NEW O, Trees(h, O)
  PROVE  /\ O \in SUBSET Nodes /\ O \subseteq LiveIn(h) /\ LiveIn(h) \subseteq Nodes
         /\ Forest(h, O) /\ TopsIn(h, O) /\ Linked(h) /\ LiveIn(h) \subseteq From(h, O)
         /\ \A o \in O : h[o].next = Null
BY DEF Trees, Forest, Alone, LiveIn

\* Types that stay keep the live nodes live.
LEMMA KeptLive ==
  ASSUME NEW h, NEW g, \A m \in Nodes : SameItem(g, h, m)
  PROVE  LiveIn(g) = LiveIn(h) /\ Lasts(g, h)
BY DEF LiveIn, SameItem, Lasts, AdriftIn

Takes(g, h, S, c) == /\ \A n \in Nodes \ From(h, S) : g[n] = h[n]
                     /\ \A n \in From(h, S) : g[n] = c
\* Without the trees of some tops the others stay as they were.
LEMMA TreesCut ==
  ASSUME NEW h \in Heaps, NEW O, Trees(h, O), NEW S \in SUBSET O, NEW c \in {Freed, Adrift}
  PROVE  /\ Cut(h, S, c) \in Heaps
         /\ Trees(Cut(h, S, c), O \ S) /\ Lasts(Cut(h, S, c), h)
         /\ Takes(Cut(h, S, c), h, S, c)
         /\ From(h, S) \subseteq LiveIn(h)
         /\ O \intersect From(h, S) = S
         /\ LiveIn(Cut(h, S, c)) = LiveIn(h) \ From(h, S)
<1>1. PICK g : g = Cut(h, S, c)
  OBVIOUS
<1>2. /\ O \in SUBSET Nodes /\ O \subseteq LiveIn(h) /\ Forest(h, O)
      /\ \A o \in O : h[o].next = Null
  BY TreesAre
<1>3. /\ g \in Heaps /\ Forest(g, O \ S) /\ LiveIn(g) = LiveIn(h) \ From(h, S)
      /\ \A n \in Nodes \ From(h, S) : g[n] = h[n]
      /\ \A n \in From(h, S) : g[n] = c
      /\ From(h, S) \subseteq LiveIn(h) /\ O \intersect From(h, S) = S
  BY <1>1, <1>2, ForestCuts
<1>4. Alone(g, O \ S)
  BY <1>2, <1>3 DEF Alone
<1>5. Lasts(g, h)
  BY <1>3 DEF Lasts, AdriftIn, LiveIn, Kinds
<1> QED
  BY <1>1, <1>3, <1>4, <1>5 DEF Trees, Takes

\* cJSON_CreateArray() and the like make a new top.
LEMMA ForestCreates ==
  ASSUME NEW h \in Heaps, NEW O, Trees(h, O), NEW n \in FreshNodes(h), NEW t \in Kinds
  PROVE  /\ Create(h, n, t) \in Heaps
         /\ Trees(Create(h, n, t), O \union {n})
         /\ LiveIn(Create(h, n, t)) = LiveIn(h) \union {n}
         /\ Writes(Create(h, n, t), h, {n})
         /\ From(Create(h, n, t), {n}) = {n}
         /\ Lasts(Create(h, n, t), h)
<1>1. PICK g, c : g = Create(h, n, t) /\ c = Cell(t, Null, Null, Null, "")
  OBVIOUS
<1>2. n \in Nodes /\ h[n].t = "fresh" /\ n \notin LiveIn(h) /\ n # Null
  BY NodesAre DEF FreshNodes, LiveIn, Kinds
<1>3. c \in Cells /\ c.t = t /\ c.next = Null /\ c.prev = Null /\ c.child = Null
  BY <1>1 DEF Cell, Cells, Types, Ptrs
<1>4. g \in Heaps /\ g[n] = c /\ \A m \in Nodes \ {n} : g[m] = h[m]
  BY <1>1, <1>2, <1>3 DEF Create, Heaps
<1>5. LiveIn(g) = LiveIn(h) \union {n}
  BY <1>2, <1>3, <1>4 DEF LiveIn
<1>6. /\ O \in SUBSET Nodes /\ O \subseteq LiveIn(h) /\ LiveIn(h) \subseteq Nodes
      /\ TopsIn(h, O) /\ Linked(h) /\ LiveIn(h) \subseteq From(h, O)
      /\ \A o \in O : h[o].next = Null
  BY TreesAre
<1>7. Linked(g)
  BY <1>2, <1>3, <1>4, <1>5, <1>6 DEF Linked
<1>8. TopsIn(g, O \union {n})
  <2>1. \A m \in Nodes : h[m].child # n
    BY <1>2, <1>6 DEF Linked
  <2> QED
    BY <1>2, <1>3, <1>4, <1>6, <2>1, NodesAre DEF TopsIn
<1>9. \A m \in Nodes : g[m].next = h[m].next /\ g[m].child = h[m].child
  BY <1>2, <1>3, <1>4, <1>6 DEF Linked
<1>10. O \union {n} \in SUBSET Nodes
  BY <1>2, <1>6
<1>11. LiveIn(g) \subseteq From(g, O \union {n})
  <2>1. From(g, O) = From(h, O)
    BY <1>4, <1>6, <1>9, FromSame, FromCloses
  <2>2. From(g, O \union {n}) = From(g, O) \union From(g, {n}) /\ n \in From(g, {n})
    BY <1>2, <1>4, <1>6, FromUnion, FromCloses
  <2> QED
    BY <1>5, <1>6, <2>1, <2>2
<1>12. From(g, {n}) = {n}
  <2>1. n \in From(g, {n})
    BY <1>2, <1>4, FromCloses
  <2>2. From(g, {n}) \subseteq {n}
    BY <1>2, <1>3, <1>4, FromLeast
  <2> QED
    BY <2>1, <2>2
<1>13. Alone(g, O \union {n})
  BY <1>3, <1>4, <1>6 DEF Alone
<1>14. Lasts(g, h)
  BY <1>2, <1>4 DEF Lasts, AdriftIn
<1>15. Writes(g, h, {n})
  BY <1>4 DEF Writes
<1> QED
  BY <1>1, <1>4, <1>5, <1>6, <1>7, <1>8, <1>11, <1>12, <1>13, <1>14, <1>15 DEF Trees, Forest

\* What is below p is p, its child, and what that leads to.
LEMMA BelowLeast ==
  ASSUME NEW h \in Heaps, NEW p \in Nodes, NEW T, h[p].child # Null => h[p].child \in T,
         \A n \in T \intersect Nodes : /\ h[n].next # Null => h[n].next \in T
                                       /\ h[n].child # Null => h[n].child \in T
  PROVE  Below(h, p) \subseteq {p} \union T
<1>1. PICK S : S = {h[p].child} \ {Null}
  OBVIOUS
<1>2. S \in SUBSET Nodes /\ S \subseteq T
  BY <1>1, CellsAre DEF Ptrs
<1>3. From(h, S) \subseteq T
  BY <1>2, FromLeast
<1> QED
  BY <1>1, <1>3 DEF Below, From

LEMMA BelowCloses ==
  ASSUME NEW h \in Heaps, NEW p \in Nodes
  PROVE  /\ p \in Below(h, p) /\ Below(h, p) \subseteq Nodes
         /\ Children(h, p) \subseteq Below(h, p)
         /\ h[p].child # Null => h[p].child \in Below(h, p)
         /\ \A n \in Below(h, p) \ {p} : /\ h[n].next # Null => h[n].next \in Below(h, p)
                                         /\ h[n].child # Null => h[n].child \in Below(h, p)
<1>1. PICK S : S = {h[p].child} \ {Null}
  OBVIOUS
<1>2. S \in SUBSET Nodes
  BY <1>1, CellsAre DEF Ptrs
<1>3. Below(h, p) = {p} \union From(h, S)
  BY <1>1 DEF Below, From
<1>4. /\ S \subseteq From(h, S) /\ From(h, S) \subseteq Nodes
      /\ \A n \in From(h, S) : /\ h[n].next # Null => h[n].next \in From(h, S)
                               /\ h[n].child # Null => h[n].child \in From(h, S)
  BY <1>2, FromCloses
<1>5. Children(h, p) \subseteq From(h, S)
  BY <1>1, <1>4, ChildrenLeast
<1> QED
  BY <1>1, <1>3, <1>4, <1>5

\* It depends on no other nodes.
LEMMA BelowSame ==
  ASSUME NEW h \in Heaps, NEW g \in Heaps, NEW c \in Nodes, \A m \in Below(h, c) : Same(g, h, m)
  PROVE  Below(g, c) = Below(h, c)
<1>1. PICK S : S = {h[c].child} \ {Null}
  OBVIOUS
<1>2. S \in SUBSET Nodes
  BY <1>1, CellsAre DEF Ptrs
<1>3. Below(h, c) = {c} \union From(h, S)
  BY <1>1 DEF Below, From
<1>4. g[c].child = h[c].child /\ \A n \in From(h, S) : g[n].next = h[n].next /\ g[n].child = h[n].child
  BY <1>3 DEF Same
<1>5. From(g, S) = From(h, S)
  BY <1>2, <1>4, FromSame
<1>6. Below(g, c) = {c} \union From(g, S)
  BY <1>1, <1>4 DEF Below, From
<1> QED
  BY <1>3, <1>5, <1>6

\* The list of a node outside the tree of a top leads to nothing in it.
LEMMA ListApart ==
  ASSUME NEW h \in Heaps, NEW O, Trees(h, O), NEW x \in O,
         NEW p \in LiveIn(h), p \notin From(h, {x})
  PROVE  /\ p \in From(h, O \ {x}) /\ x \notin Children(h, p)
         /\ Children(h, p) \subseteq From(h, O \ {x})
<1>1. /\ O \in SUBSET Nodes /\ TopsIn(h, O) /\ Linked(h) /\ LiveIn(h) \subseteq From(h, O)
  BY TreesAre
<1>2. O \ {x} \in SUBSET Nodes /\ {x} \in SUBSET Nodes /\ O = (O \ {x}) \union {x}
  BY <1>1
<1>3. From(h, O) = From(h, O \ {x}) \union From(h, {x})
  BY <1>2, FromUnion
<1>4. p \in From(h, O \ {x})
  BY <1>1, <1>3
<1>5. Children(h, p) \subseteq From(h, O \ {x})
  BY <1>2, <1>4, ChildrenReached
<1>6. x \notin From(h, O \ {x})
  BY <1>1, <1>2, TopsNotReached
<1> QED
  BY <1>4, <1>5, <1>6

\* The tops are in no list.
LEMMA TopsNotListed ==
  ASSUME NEW h \in Heaps, NEW O, Trees(h, O), NEW p \in Nodes, NEW x \in Children(h, p)
  PROVE  x \notin O
<1>1. TopsIn(h, O) /\ Linked(h)
  BY TreesAre
<1> QED
  BY <1>1, ChildrenAre DEF TopsIn

\* add_item_to_array() puts a top at the end of a list.
LEMMA ForestAppends ==
  ASSUME NEW h \in Heaps, NEW O, Trees(h, O), NEW x \in O,
         NEW p \in LiveIn(h), p \notin From(h, {x})
  PROVE  /\ AddItemToArray(h, p, x) \in Heaps
         /\ Trees(AddItemToArray(h, p, x), O \ {x})
         /\ \A m \in Nodes : SameItem(AddItemToArray(h, p, x), h, m)
         /\ Grows(AddItemToArray(h, p, x), h, p, x)
<1>1. PICK g, last : g = AddItemToArray(h, p, x) /\ last = LastChild(h, p)
  OBVIOUS
<1>2. /\ O \in SUBSET Nodes /\ O \subseteq LiveIn(h) /\ LiveIn(h) \subseteq Nodes
      /\ Forest(h, O) /\ TopsIn(h, O) /\ Linked(h) /\ LiveIn(h) \subseteq From(h, O)
      /\ \A o \in O : h[o].next = Null
  BY TreesAre
<1>3. x \in Nodes /\ p \in Nodes /\ O \ {x} \in SUBSET Nodes /\ x # Null
  BY <1>2, NodesAre
<1>4. g \in Heaps /\ Behind(g, h, p, x, last)
  BY <1>1, <1>2, <1>3, AddItemWrites
<1>5. h[p].child # Null => last \in Children(h, p) /\ h[last].next = Null
  BY <1>1, <1>2, <1>3, LastIs
<1>6. h[p].child # Null => last \in Nodes /\ last \notin O /\ last # x /\ last # Null /\ last \in LiveIn(h)
  BY <1>2, <1>3, <1>5, TopsNotListed, ChildrenClose, ChildrenAre, NodesAre
<1>7. \A m \in Nodes : SameItem(g, h, m)
  BY <1>4 DEF Behind
<1>8. LiveIn(g) = LiveIn(h)
  BY <1>7, KeptLive
<1>9. p # x
  BY <1>3, FromCloses
<1>10. h[x].prev = Null /\ h[x].next = Null /\ \A m \in Nodes : h[m].child # x /\ h[m].next # x
  BY <1>2, <1>3, NodesAre DEF TopsIn, Linked, LiveIn
<1>11. Linked(g)
  <2>1. CASE h[p].child = Null
    <3>1. \A m \in Nodes : /\ g[m].next = h[m].next /\ g[m].prev = h[m].prev
                           /\ g[m].child = IF m = p THEN x ELSE h[m].child
      BY <1>4, <2>1 DEF Behind
    <3> QED
      BY <1>2, <1>3, <1>8, <1>10, <3>1 DEF Linked
  <2>2. CASE h[p].child # Null
    <3>1. \A m \in Nodes : /\ g[m].next = IF m = last THEN x ELSE h[m].next
                           /\ g[m].prev = IF m = x THEN last ELSE h[m].prev
                           /\ g[m].child = h[m].child
      BY <1>4, <2>2 DEF Behind
    <3>2. \A n \in Nodes \ LiveIn(g) : g[n].next = Null /\ g[n].prev = Null /\ g[n].child = Null
      BY <1>2, <1>6, <1>8, <2>2, <3>1 DEF Linked
    <3>3. \A n \in Nodes : g[n].next # Null => g[n].next \in LiveIn(g) /\ g[g[n].next].prev = n
      BY <1>2, <1>3, <1>8, <1>10, <3>1 DEF Linked
    <3>4. \A n \in Nodes : g[n].prev # Null => g[n].prev \in LiveIn(g) /\ g[g[n].prev].next = n
      BY <1>2, <1>3, <1>5, <1>6, <1>8, <2>2, <3>1, NodesAre DEF Linked
    <3>5. \A n \in Nodes : g[n].child # Null => g[n].child \in LiveIn(g) /\ g[g[n].child].prev = Null
      BY <1>2, <1>8, <1>10, <3>1 DEF Linked
    <3>6. \A m, n \in Nodes : g[m].child = g[n].child /\ g[m].child # Null => m = n
      BY <1>2, <3>1 DEF Linked
    <3> QED
      BY <3>2, <3>3, <3>4, <3>5, <3>6 DEF Linked
  <2> QED
    BY <2>1, <2>2
<1>12. TopsIn(g, O \ {x})
  BY <1>2, <1>3, <1>4 DEF TopsIn, Behind
<1>13. Alone(g, O \ {x})
  BY <1>2, <1>4, <1>6 DEF Alone, Behind
<1>14. LiveIn(g) \subseteq From(g, O \ {x})
  <2>1. PICK T : T = From(g, O \ {x})
    OBVIOUS
  <2>2. /\ O \ {x} \subseteq T /\ T \subseteq Nodes
        /\ \A n \in T : /\ g[n].next # Null => g[n].next \in T
                        /\ g[n].child # Null => g[n].child \in T
    BY <1>3, <1>4, <2>1, FromCloses
  <2>3. \A n \in T : /\ h[n].next # Null => h[n].next \in T
                     /\ h[n].child # Null => h[n].child \in T
    BY <1>4, <1>5, <2>2 DEF Behind
  <2>4. From(h, O \ {x}) \subseteq T
    BY <1>3, <2>2, <2>3, FromLeast
  <2>5. p \in T /\ Children(h, p) \subseteq T
    BY <2>4, ListApart
  <2>6. x \in T
    BY <1>3, <1>4, <1>5, <1>6, <2>2, <2>5 DEF Behind
  <2>7. O \subseteq T
    BY <2>2, <2>6
  <2>8. From(h, O) \subseteq T
    BY <1>2, <2>3, <2>7, FromLeast
  <2> QED
    BY <1>2, <1>8, <2>1, <2>8
<1>15. Grows(g, h, p, x)
  <2>1. PICK B, F, T : B = Below(h, p) /\ F = From(h, {x}) /\ T = (B \ {p}) \union F
    OBVIOUS
  <2>2. /\ p \in B /\ B \subseteq Nodes /\ Children(h, p) \subseteq B
        /\ h[p].child # Null => h[p].child \in B
        /\ \A n \in B \ {p} : /\ h[n].next # Null => h[n].next \in B
                              /\ h[n].child # Null => h[n].child \in B
    BY <1>3, <2>1, BelowCloses
  <2>3. /\ x \in F /\ F \subseteq Nodes /\ p \notin F
        /\ \A n \in F : /\ h[n].next # Null => h[n].next \in F
                        /\ h[n].child # Null => h[n].child \in F
    BY <1>3, <2>1, FromCloses
  <2>4. ASSUME NEW m \in Nodes \ (B \union {x}) PROVE Same(g, h, m)
    <3>1. m # p /\ m # x /\ (h[p].child # Null => m # last)
      BY <1>5, <2>2, <2>4
    <3> QED
      BY <1>4, <3>1 DEF Behind, Same
  <2>5. p \notin From(h, {h[p].child} \ {Null})
    <3>1. CASE h[p].child = Null
      <4>1. PICK S : S = {h[p].child} \ {Null}
        OBVIOUS
      <4>2. S \in SUBSET Nodes /\ S \subseteq {}
        BY <3>1, <4>1
      <4>3. From(h, S) \subseteq {}
        BY <4>2, FromLeast
      <4> QED
        BY <4>1, <4>3
    <3>2. CASE h[p].child # Null
      <4>1. PICK c : c = h[p].child
        OBVIOUS
      <4>2. c \in Nodes /\ {c} = {h[p].child} \ {Null}
        BY <1>3, <3>2, <4>1, CellsAre DEF Ptrs
      <4>3. p \notin From(h, {c})
        BY <1>2, <1>3, <4>1, <4>2, NoCycle
      <4> QED
        BY <4>2, <4>3
    <3> QED
      BY <3>1, <3>2
  <2>6. Below(g, p) \subseteq {p} \union T
    <3>1. PICK S : S = {h[p].child} \ {Null}
      OBVIOUS
    <3>2. S \in SUBSET Nodes
      BY <1>3, <3>1, CellsAre DEF Ptrs
    <3>3. B = {p} \union From(h, S)
      BY <2>1, <3>1 DEF Below, From
    <3>4. T = From(h, S) \union F
      BY <2>1, <2>5, <3>1, <3>3
    <3>5. /\ S \subseteq From(h, S) /\ From(h, S) \subseteq Nodes
          /\ \A n \in From(h, S) : /\ h[n].next # Null => h[n].next \in From(h, S)
                                   /\ h[n].child # Null => h[n].child \in From(h, S)
      BY <3>2, FromCloses
    <3>6. g[p].child # Null => g[p].child \in T
      BY <1>3, <1>4, <2>3, <3>1, <3>4, <3>5 DEF Behind
    <3>7. \A n \in T : n \in Nodes /\ n # p
      BY <2>1, <2>2, <2>3
    <3>8. \A n \in T : /\ g[n].next # Null => g[n].next \in T
                       /\ g[n].child # Null => g[n].child \in T
      BY <1>4, <2>3, <3>4, <3>5, <3>7 DEF Behind
    <3> QED
      BY <1>3, <1>4, <3>6, <3>8, BelowLeast
  <2>7. Below(g, p) \subseteq B \union F
    BY <2>1, <2>2, <2>6
  <2> QED
    BY <2>1, <2>4, <2>7 DEF Grows
<1>16. O \ {x} \subseteq LiveIn(g)
  BY <1>2, <1>8
<1> QED
  BY <1>1, <1>4, <1>7, <1>11, <1>12, <1>13, <1>14, <1>15, <1>16 DEF Trees, Forest

\* Nobody is reached from a child or from what is behind it that leads to it.
LEMMA ParentAbove ==
  ASSUME NEW h \in Heaps, NEW O, Trees(h, O), NEW p \in Nodes, NEW x \in Children(h, p)
  PROVE  p \notin From(h, {x}) /\ h[x].prev \notin From(h, {x})
<1>1. /\ x \in Nodes /\ h[p].child # Null /\ h[p].child \in Nodes /\ h[x].prev \in Ptrs
      /\ Linked(h) /\ Forest(h, O)
  BY TreesAre, ChildrenAre, ChildrenClose, CellsAre DEF LiveIn, Linked
<1>2. PICK c : c = h[p].child
  OBVIOUS
<1>3. p \notin From(h, {c})
  BY <1>1, <1>2, NoCycle
<1>4. c \in Nodes /\ {c} \in SUBSET Nodes /\ {x} \in SUBSET Nodes
  BY <1>1, <1>2
<1>5. c \in From(h, {c})
  BY <1>4, FromCloses
<1>6. \A n \in From(h, {c}) : h[n].next # Null => h[n].next \in From(h, {c})
  BY <1>4, FromCloses
<1>7. Children(h, p) \subseteq From(h, {c})
  BY <1>2, <1>5, <1>6, ChildrenLeast
<1>8. From(h, {x}) \subseteq From(h, {c})
  BY <1>4, <1>7, FromGrows
<1>9. h[x].prev \notin From(h, {x})
  <2>1. CASE h[x].prev = Null
    BY <1>4, <2>1, FromCloses, NodesAre
  <2>2. CASE h[x].prev # Null
    <3>1. PICK q : q = h[x].prev
      OBVIOUS
    <3>2. q \in Nodes /\ x = h[q].next
      BY <1>1, <2>2, <3>1 DEF Linked, Ptrs
    <3> QED
      BY <1>1, <3>1, <3>2, NoCycle
  <2> QED
    BY <2>1, <2>2
<1> QED
  BY <1>3, <1>8, <1>9

\* What a heap has at a child x of p.
LEMMA ChildHas ==
  ASSUME NEW h \in Heaps, NEW O, Trees(h, O), NEW p \in Nodes, NEW x \in Children(h, p)
  PROVE  /\ x \in Nodes /\ x \in LiveIn(h) /\ x # Null /\ p # Null /\ p \in LiveIn(h) /\ x \notin O /\ p # x
         /\ h[x].prev = Null => h[p].child = x
         /\ h[x].prev # Null => /\ h[p].child # x /\ h[x].prev \in Children(h, p) /\ h[x].prev \in Nodes
                                /\ h[h[x].prev].next = x
         /\ h[x].next # Null => /\ h[x].next \in Children(h, p) /\ h[x].next \in Nodes
                                /\ h[h[x].next].prev = x
         /\ h[x].next # x /\ h[x].prev # x
         /\ h[x].next # Null => h[x].next # h[x].prev
<1>1. Linked(h) /\ Forest(h, O)
  BY TreesAre
<1>2. /\ x \in Nodes /\ x \in LiveIn(h) /\ x # Null /\ p # Null /\ p \in LiveIn(h) /\ x \notin O
      /\ h[x].prev = Null => h[p].child = x
      /\ h[x].prev # Null => h[p].child # x /\ h[x].prev \in Children(h, p)
      /\ h[x].next # Null => h[x].next \in Children(h, p)
      /\ Children(h, p) \subseteq Nodes
  BY <1>1, ChildrenAre, TopsNotListed, ChildrenClose, NodesAre
<1>3. /\ h[x].prev # Null => h[x].prev \in Nodes /\ h[h[x].prev].next = x
      /\ h[x].next # Null => h[x].next \in Nodes /\ h[h[x].next].prev = x
  BY <1>1, <1>2 DEF Linked
<1>4. p \notin From(h, {x}) /\ h[x].prev \notin From(h, {x})
  BY ParentAbove
<1>5. x \in From(h, {x}) /\ (h[x].next # Null => h[x].next \in From(h, {x}))
  BY <1>2, FromCloses
<1>6. h[x].next # x
  BY <1>2, <1>3, <1>4, <1>5
<1>7. h[x].next # Null => h[x].next # h[x].prev
  BY <1>4, <1>5
<1> QED
  BY <1>2, <1>3, <1>4, <1>5, <1>6, <1>7


\* cJSON_DetachItemViaPointer() makes a child a top.
LEMMA ForestDetaches ==
  ASSUME NEW h \in Heaps, NEW O, Trees(h, O), NEW p \in Nodes, NEW x \in Children(h, p)
  PROVE  /\ DetachItem(h, p, x) \in Heaps
         /\ Trees(DetachItem(h, p, x), O \union {x})
         /\ \A m \in Nodes : SameItem(DetachItem(h, p, x), h, m)
<1>1. PICK g, prev, next : g = DetachItem(h, p, x) /\ prev = h[x].prev /\ next = h[x].next
  OBVIOUS
<1>2. /\ O \in SUBSET Nodes /\ O \subseteq LiveIn(h) /\ LiveIn(h) \subseteq Nodes
      /\ Forest(h, O) /\ TopsIn(h, O) /\ Linked(h) /\ LiveIn(h) \subseteq From(h, O)
      /\ \A o \in O : h[o].next = Null
  BY TreesAre
<1>3. /\ x \in Nodes /\ x \in LiveIn(h) /\ x # Null /\ p # Null /\ p \in LiveIn(h) /\ x \notin O /\ p # x
      /\ prev = Null => h[p].child = x
      /\ prev # Null => h[p].child # x /\ prev \in Children(h, p) /\ prev \in Nodes /\ h[prev].next = x
      /\ next # Null => next \in Children(h, p) /\ next \in Nodes /\ h[next].prev = x
      /\ next # x /\ prev # x
      /\ next # Null => next # prev
  BY <1>1, ChildHas
<1>4. g \in Heaps /\ Detached(g, h, p, x)
  BY <1>1, <1>3, DetachWrites
<1>5. \A m \in Nodes :
        /\ g[m].next = IF m = x THEN Null ELSE IF m = prev THEN next ELSE h[m].next
        /\ g[m].prev = IF m = x THEN Null ELSE IF m = next THEN prev ELSE h[m].prev
        /\ g[m].child = IF m = p /\ h[p].child = x THEN next ELSE h[m].child
  BY <1>1, <1>4 DEF Detached
<1>6. \A m \in Nodes : SameItem(g, h, m)
  BY <1>4 DEF Detached
<1>7. LiveIn(g) = LiveIn(h)
  BY <1>6, KeptLive
<1>8. \A m \in Nodes : m # Null
  BY NodesAre
<1>9. next # Null => next \in LiveIn(h)
  BY <1>1, <1>2, <1>3 DEF Linked
<1>10. prev # Null => prev \in LiveIn(h)
  BY <1>1, <1>2, <1>3 DEF Linked
<1>11. Linked(g)
  <2>1. \A n \in Nodes \ LiveIn(g) : g[n].next = Null /\ g[n].prev = Null /\ g[n].child = Null
    <3>1. \A n \in Nodes \ LiveIn(h) : n # x /\ n # p /\ n # prev /\ n # next
      BY <1>3, <1>8, <1>9, <1>10
    <3> QED
      BY <1>2, <1>5, <1>7, <3>1 DEF Linked
  <2>2. \A n \in Nodes : g[n].next # Null => g[n].next \in LiveIn(g) /\ g[g[n].next].prev = n
    <3>1. \A n \in Nodes : n # x /\ n # prev /\ h[n].next # Null => h[n].next # x /\ h[n].next # next
      BY <1>1, <1>2, <1>3, <1>8 DEF Linked
    <3> QED
      BY <1>1, <1>2, <1>3, <1>5, <1>7, <1>9, <3>1 DEF Linked
  <2>3. \A n \in Nodes : g[n].prev # Null => g[n].prev \in LiveIn(g) /\ g[g[n].prev].next = n
    <3>1. \A n \in Nodes : n # x /\ n # next /\ h[n].prev # Null => h[n].prev # x /\ h[n].prev # prev
      BY <1>1, <1>2, <1>3, <1>8 DEF Linked
    <3> QED
      BY <1>1, <1>2, <1>3, <1>5, <1>7, <1>10, <3>1 DEF Linked
  <2>4. \A n \in Nodes : g[n].child # Null => g[n].child \in LiveIn(g) /\ g[g[n].child].prev = Null
    <3>1. \A n \in Nodes : n # p /\ h[n].child # Null => h[n].child # x \/ prev # Null
      BY <1>2, <1>3 DEF Linked
    <3>2. \A n \in Nodes : h[n].child # Null => h[n].child # next
      BY <1>2, <1>3 DEF Linked
    <3> QED
      BY <1>2, <1>3, <1>5, <1>7, <1>9, <3>1, <3>2 DEF Linked
  <2>5. \A m, n \in Nodes : g[m].child = g[n].child /\ g[m].child # Null => m = n
    <3>1. \A n \in Nodes : h[n].child # Null => h[n].child # next
      BY <1>2, <1>3 DEF Linked
    <3> QED
      BY <1>2, <1>3, <1>5, <3>1 DEF Linked
  <2> QED
    BY <2>1, <2>2, <2>3, <2>4, <2>5 DEF Linked
<1>12. TopsIn(g, O \union {x})
  <2>1. \A m \in Nodes : m # p => h[m].child # x \/ prev # Null
    BY <1>2, <1>3 DEF Linked
  <2>2. \A m \in Nodes : h[m].child = x => h[x].prev = Null
    BY <1>2, <1>3 DEF Linked
  <2>3. \A m \in Nodes : g[m].child # x
    BY <1>1, <1>2, <1>3, <1>5, <2>1, <2>2 DEF Linked
  <2>4. \A o \in O : o # next
    BY <1>1, <1>2, <1>3, <1>8 DEF TopsIn
  <2>5. \A o \in O : o \in Nodes /\ o # x /\ o # Null
    BY <1>2, <1>3, <1>8
  <2>6. \A o \in O : g[o].prev = Null
    BY <1>2, <1>5, <2>4, <2>5 DEF TopsIn
  <2>7. \A o \in O : \A m \in Nodes : g[m].child # o
    BY <1>2, <1>5, <2>4, <2>5 DEF TopsIn
  <2>8. g[x].prev = Null
    BY <1>3, <1>5
  <2> QED
    BY <2>3, <2>6, <2>7, <2>8 DEF TopsIn
<1>13. Alone(g, O \union {x})
  <2>1. \A o \in O : o # prev
    BY <1>2, <1>3, <1>8
  <2> QED
    BY <1>2, <1>3, <1>5, <2>1 DEF Alone
<1>14. LiveIn(g) \subseteq From(g, O \union {x})
  <2>1. PICK T, F : T = From(g, O \union {x}) /\ F = From(h, {x})
    OBVIOUS
  <2>2. O \union {x} \in SUBSET Nodes /\ {x} \in SUBSET Nodes
    BY <1>2, <1>3
  <2>3. /\ O \union {x} \subseteq T /\ T \subseteq Nodes
        /\ \A n \in T : /\ g[n].next # Null => g[n].next \in T
                        /\ g[n].child # Null => g[n].child \in T
    BY <1>4, <2>1, <2>2, FromCloses
  <2>4. /\ x \in F /\ F \subseteq Nodes
        /\ \A n \in F : /\ h[n].next # Null => h[n].next \in F
                        /\ h[n].child # Null => h[n].child \in F
    BY <2>1, <2>2, FromCloses
  <2>5. p \notin F /\ prev \notin F
    BY <1>1, <2>1, ParentAbove
  <2>6. From(h, O) \subseteq T \union F
    <3>1. PICK C : C = T \union F
      OBVIOUS
    <3>2. \A n \in C : /\ h[n].next # Null => h[n].next \in C
                       /\ h[n].child # Null => h[n].child \in C
      <4>1. \A n \in T : n \in Nodes /\ n # Null
        BY <1>8, <2>3
      <4>2. x \in T
        BY <2>3
      <4>3. \A n \in T : h[n].next # Null => h[n].next \in T \union F
        BY <1>3, <1>5, <2>3, <2>4, <4>1, <4>2
      <4>4. \A n \in T : h[n].child # Null => h[n].child \in T \union F
        BY <1>3, <1>5, <2>3, <4>1, <4>2
      <4> QED
        BY <2>4, <3>1, <4>3, <4>4
    <3>3. O \subseteq C
      BY <2>3, <3>1
    <3>4. From(h, O) \subseteq C
      BY <1>2, <3>2, <3>3, FromLeast
    <3> QED
      BY <3>1, <3>4
  <2>7. p \in T /\ (prev # Null => prev \in T)
    BY <1>2, <1>3, <1>10, <2>5, <2>6
  <2>8. next # Null => next \in T
    BY <1>3, <1>5, <2>3, <2>7
  <2>9. \A n \in T : /\ h[n].next # Null => h[n].next \in T
                     /\ h[n].child # Null => h[n].child \in T
    <3>1. \A n \in T : n \in Nodes /\ n # Null
      BY <1>8, <2>3
    <3>2. x \in T
      BY <2>3
    <3>3. \A n \in T : h[n].next # Null => h[n].next \in T
      BY <1>1, <1>3, <1>5, <2>3, <2>8, <3>1, <3>2
    <3>4. \A n \in T : h[n].child # Null => h[n].child \in T
      BY <1>5, <2>3, <3>1, <3>2
    <3> QED
      BY <3>3, <3>4
  <2>10. From(h, O) \subseteq T
    BY <1>2, <2>3, <2>9, FromLeast
  <2> QED
    BY <1>2, <1>7, <2>1, <2>10
<1>15. O \union {x} \subseteq LiveIn(g)
  BY <1>2, <1>3, <1>7
<1> QED
  BY <1>1, <1>4, <1>6, <1>11, <1>12, <1>13, <1>14, <1>15 DEF Trees, Forest

\* cJSON_InsertItemInArray() puts a top in front of a child.
LEMMA ForestInserts ==
  ASSUME NEW h \in Heaps, NEW O, Trees(h, O), NEW x \in O,
         NEW p \in LiveIn(h), p \notin From(h, {x}), NEW after \in Children(h, p)
  PROVE  /\ InsertItem(h, p, after, x) \in Heaps
         /\ Trees(InsertItem(h, p, after, x), O \ {x})
         /\ \A m \in Nodes : SameItem(InsertItem(h, p, after, x), h, m)
<1>1. PICK g, prev : g = InsertItem(h, p, after, x) /\ prev = h[after].prev
  OBVIOUS
<1>2. /\ O \in SUBSET Nodes /\ O \subseteq LiveIn(h) /\ LiveIn(h) \subseteq Nodes
      /\ Forest(h, O) /\ TopsIn(h, O) /\ Linked(h) /\ LiveIn(h) \subseteq From(h, O)
      /\ \A o \in O : h[o].next = Null
  BY TreesAre
<1>3. /\ after \in Nodes /\ after \in LiveIn(h) /\ after # Null /\ after \notin O
      /\ prev = Null => h[p].child = after
      /\ prev # Null => h[p].child # after /\ prev \in Children(h, p) /\ prev \in Nodes /\ h[prev].next = after
      /\ after # prev
  BY <1>1, <1>2, ChildHas
<1>4. \A m \in Nodes : m # Null
  BY NodesAre
<1>5. /\ x \in Nodes /\ p \in Nodes /\ p # x /\ x # after /\ x # prev /\ x # Null /\ {x} \in SUBSET Nodes
      /\ p \in From(h, O \ {x}) /\ Children(h, p) \subseteq From(h, O \ {x})
  BY <1>2, <1>3, <1>4, ListApart, FromCloses
<1>6. g \in Heaps /\ InFront(g, h, p, after, x)
  BY <1>1, <1>3, <1>5, InsertWrites
<1>7. \A m \in Nodes :
        /\ g[m].next = IF m = x THEN after ELSE IF m = prev THEN x ELSE h[m].next
        /\ g[m].prev = IF m = after THEN x ELSE IF m = x THEN prev ELSE h[m].prev
        /\ g[m].child = IF m = p /\ h[p].child = after THEN x ELSE h[m].child
  BY <1>1, <1>6 DEF InFront
<1>8. \A m \in Nodes : SameItem(g, h, m)
  BY <1>6 DEF InFront
<1>9. LiveIn(g) = LiveIn(h)
  BY <1>8, KeptLive
<1>10. prev # Null => prev \in LiveIn(h)
  BY <1>1, <1>2, <1>3 DEF Linked
<1>11. \A m \in Nodes : h[m].next # x /\ h[m].prev # x /\ h[m].child # x
  BY <1>2, <1>4, <1>5 DEF TopsIn, Linked
<1>12. Linked(g)
  <2>1. \A n \in Nodes \ LiveIn(g) : g[n].next = Null /\ g[n].prev = Null /\ g[n].child = Null
    <3>1. \A n \in Nodes \ LiveIn(h) : n # x /\ n # p /\ n # prev /\ n # after
      BY <1>2, <1>3, <1>4, <1>10
    <3> QED
      BY <1>2, <1>7, <1>9, <3>1 DEF Linked
  <2>2. \A n \in Nodes : g[n].next # Null => g[n].next \in LiveIn(g) /\ g[g[n].next].prev = n
    <3>1. \A n \in Nodes : n # prev /\ h[n].next # Null => h[n].next # after
      BY <1>1, <1>2, <1>3, <1>4 DEF Linked
    <3> QED
      BY <1>2, <1>3, <1>5, <1>7, <1>9, <1>11, <3>1 DEF Linked
  <2>3. \A n \in Nodes : g[n].prev # Null => g[n].prev \in LiveIn(g) /\ g[g[n].prev].next = n
    <3>1. \A n \in Nodes : n # after /\ h[n].prev # Null => h[n].prev # prev
      BY <1>1, <1>2, <1>3, <1>4 DEF Linked
    <3> QED
      BY <1>1, <1>2, <1>3, <1>5, <1>7, <1>9, <1>10, <1>11, <3>1 DEF Linked
  <2>4. \A n \in Nodes : g[n].child # Null => g[n].child \in LiveIn(g) /\ g[g[n].child].prev = Null
    <3>1. \A n \in Nodes : h[n].child = after => n = p
      BY <1>1, <1>2, <1>3 DEF Linked
    <3> QED
      BY <1>2, <1>3, <1>5, <1>7, <1>9, <1>11, <3>1 DEF Linked
  <2>5. \A m, n \in Nodes : g[m].child = g[n].child /\ g[m].child # Null => m = n
    BY <1>2, <1>5, <1>7, <1>11 DEF Linked
  <2> QED
    BY <2>1, <2>2, <2>3, <2>4, <2>5 DEF Linked
<1>13. TopsIn(g, O \ {x})
  BY <1>2, <1>3, <1>7 DEF TopsIn
<1>14. Alone(g, O \ {x})
  <2>1. \A o \in O : o # prev
    BY <1>2, <1>3, <1>4
  <2> QED
    BY <1>2, <1>7, <2>1 DEF Alone
<1>15. LiveIn(g) \subseteq From(g, O \ {x})
  <2>1. PICK T : T = From(g, O \ {x})
    OBVIOUS
  <2>2. O \ {x} \in SUBSET Nodes
    BY <1>2
  <2>3. /\ O \ {x} \subseteq T /\ T \subseteq Nodes
        /\ \A n \in T : /\ g[n].next # Null => g[n].next \in T
                        /\ g[n].child # Null => g[n].child \in T
    BY <1>6, <2>1, <2>2, FromCloses
  <2>4. \A n \in T : n \in Nodes /\ n # Null
    BY <1>4, <2>3
  <2>5. x \in T => after \in T
    BY <1>3, <1>5, <1>7, <2>3
  <2>6. \A n \in T : /\ h[n].next # Null => h[n].next \in T
                     /\ h[n].child # Null => h[n].child \in T
    <3>1. \A n \in T : h[n].next # Null => h[n].next \in T
      BY <1>2, <1>3, <1>5, <1>7, <2>3, <2>4, <2>5
    <3>2. \A n \in T : h[n].child # Null => h[n].child \in T
      BY <1>3, <1>5, <1>7, <2>3, <2>4, <2>5
    <3> QED
      BY <3>1, <3>2
  <2>7. From(h, O \ {x}) \subseteq T
    BY <2>2, <2>3, <2>6, FromLeast
  <2>8. p \in T /\ (prev # Null => prev \in T)
    BY <1>3, <1>5, <2>7
  <2>9. x \in T
    BY <1>3, <1>5, <1>7, <2>3, <2>8
  <2>10. O \subseteq T
    BY <2>3, <2>9
  <2>11. From(h, O) \subseteq T
    BY <1>2, <2>6, <2>10, FromLeast
  <2> QED
    BY <1>2, <1>9, <2>1, <2>11
<1>16. O \ {x} \subseteq LiveIn(g)
  BY <1>2, <1>9
<1> QED
  BY <1>1, <1>6, <1>8, <1>12, <1>13, <1>14, <1>15, <1>16 DEF Trees, Forest

\* A top in the place of a child, which becomes a top.
LEMMA ForestSwaps ==
  ASSUME NEW h \in Heaps, NEW g \in Heaps, NEW O, Trees(h, O), NEW x \in O,
         NEW p \in LiveIn(h), p \notin From(h, {x}), NEW old \in Children(h, p),
         InPlace(g, h, p, old, x)
  PROVE  Trees(g, (O \ {x}) \union {old}) /\ \A m \in Nodes : SameItem(g, h, m)
<1>1. PICK prev, next : prev = h[old].prev /\ next = h[old].next
  OBVIOUS
<1>2. /\ O \in SUBSET Nodes /\ O \subseteq LiveIn(h) /\ LiveIn(h) \subseteq Nodes
      /\ Forest(h, O) /\ TopsIn(h, O) /\ Linked(h) /\ LiveIn(h) \subseteq From(h, O)
      /\ \A o \in O : h[o].next = Null
  BY TreesAre
<1>3. /\ old \in Nodes /\ old \in LiveIn(h) /\ old # Null /\ old \notin O /\ p # old
      /\ prev = Null => h[p].child = old
      /\ prev # Null => h[p].child # old /\ prev \in Children(h, p) /\ prev \in Nodes /\ h[prev].next = old
      /\ next # Null => next \in Children(h, p) /\ next \in Nodes /\ h[next].prev = old
      /\ next # old /\ prev # old
      /\ next # Null => next # prev
  BY <1>1, <1>2, ChildHas
<1>4. \A m \in Nodes : m # Null
  BY NodesAre
<1>5. /\ x \in Nodes /\ p \in Nodes /\ p # x /\ x # old /\ x # prev /\ x # next /\ x # Null /\ {x} \in SUBSET Nodes
      /\ p \in From(h, O \ {x}) /\ Children(h, p) \subseteq From(h, O \ {x})
  <2>1. x \in Nodes /\ p \in Nodes /\ x # Null /\ {x} \in SUBSET Nodes
    BY <1>2, <1>4
  <2>2. /\ p \in From(h, O \ {x}) /\ Children(h, p) \subseteq From(h, O \ {x})
        /\ x \notin Children(h, p)
    BY ListApart
  <2>3. p # x
    BY <2>1, FromCloses
  <2>4. x # old /\ x # prev /\ x # next
    BY <1>3, <2>1, <2>2
  <2> QED
    BY <2>1, <2>2, <2>3, <2>4
<1>6. \A m \in Nodes :
        /\ g[m].next = IF m = old THEN Null ELSE IF m = prev THEN x
                       ELSE IF m = x THEN next ELSE h[m].next
        /\ g[m].prev = IF m = old THEN Null ELSE IF m = next THEN x
                       ELSE IF m = x THEN prev ELSE h[m].prev
        /\ g[m].child = IF m = p /\ h[p].child = old THEN x ELSE h[m].child
  BY <1>1 DEF InPlace
<1>7. \A m \in Nodes : SameItem(g, h, m)
  BY DEF InPlace
<1>8. LiveIn(g) = LiveIn(h)
  BY <1>7, KeptLive
<1>9. /\ prev # Null => prev \in LiveIn(h)
      /\ next # Null => next \in LiveIn(h)
  BY <1>1, <1>2, <1>3 DEF Linked
<1>10. \A m \in Nodes : h[m].next # x /\ h[m].prev # x /\ h[m].child # x
  BY <1>2, <1>4, <1>5 DEF TopsIn, Linked
<1>11. Linked(g)
  <2>1. \A n \in Nodes \ LiveIn(g) : g[n].next = Null /\ g[n].prev = Null /\ g[n].child = Null
    <3>1. \A n \in Nodes \ LiveIn(h) : n # x /\ n # p /\ n # prev /\ n # next /\ n # old
      BY <1>2, <1>3, <1>4, <1>9
    <3> QED
      BY <1>2, <1>6, <1>8, <3>1 DEF Linked
  <2>2. \A n \in Nodes : g[n].next # Null => g[n].next \in LiveIn(g) /\ g[g[n].next].prev = n
    <3>1. \A n \in Nodes : n # prev /\ h[n].next # Null => h[n].next # old
      BY <1>1, <1>2, <1>3, <1>4 DEF Linked
    <3>2. \A n \in Nodes : n # old /\ h[n].next # Null => h[n].next # next
      BY <1>1, <1>2, <1>3, <1>4 DEF Linked
    <3> QED
      BY <1>1, <1>2, <1>3, <1>5, <1>6, <1>8, <1>9, <1>10, <3>1, <3>2 DEF Linked
  <2>3. \A n \in Nodes : g[n].prev # Null => g[n].prev \in LiveIn(g) /\ g[g[n].prev].next = n
    <3>1. \A n \in Nodes : n # next /\ h[n].prev # Null => h[n].prev # old
      BY <1>1, <1>2, <1>3, <1>4 DEF Linked
    <3>2. \A n \in Nodes : n # old /\ h[n].prev # Null => h[n].prev # prev
      BY <1>1, <1>2, <1>3, <1>4 DEF Linked
    <3> QED
      BY <1>1, <1>2, <1>3, <1>5, <1>6, <1>8, <1>9, <1>10, <3>1, <3>2 DEF Linked
  <2>4. \A n \in Nodes : g[n].child # Null => g[n].child \in LiveIn(g) /\ g[g[n].child].prev = Null
    <3>1. \A n \in Nodes : h[n].child # Null => h[n].child # next
      BY <1>2, <1>3 DEF Linked
    <3> QED
      BY <1>2, <1>3, <1>5, <1>6, <1>8, <1>10, <3>1 DEF Linked
  <2>5. \A m, n \in Nodes : g[m].child = g[n].child /\ g[m].child # Null => m = n
    BY <1>2, <1>5, <1>6, <1>10 DEF Linked
  <2> QED
    BY <2>1, <2>2, <2>3, <2>4, <2>5 DEF Linked
<1>12. TopsIn(g, (O \ {x}) \union {old})
  <2>1. \A m \in Nodes : h[m].child = old => m = p /\ prev = Null
    BY <1>1, <1>2, <1>3 DEF Linked
  <2>2. \A m \in Nodes : g[m].child # old
    BY <1>3, <1>5, <1>6, <2>1
  <2>3. \A o \in O \ {x} : o \in Nodes /\ o # old /\ o # Null /\ o # next
    BY <1>1, <1>2, <1>3, <1>4 DEF TopsIn
  <2>4. \A o \in O \ {x} : g[o].prev = Null
    BY <1>2, <1>6, <2>3 DEF TopsIn
  <2>5. \A o \in O \ {x} : \A m \in Nodes : g[m].child # o
    BY <1>2, <1>5, <1>6, <2>3 DEF TopsIn
  <2>6. g[old].prev = Null
    BY <1>3, <1>6
  <2> QED
    BY <2>2, <2>4, <2>5, <2>6 DEF TopsIn
<1>13. Alone(g, (O \ {x}) \union {old})
  <2>1. \A o \in O : o # prev /\ o \in Nodes
    BY <1>2, <1>3, <1>4
  <2> QED
    BY <1>2, <1>3, <1>6, <2>1 DEF Alone
<1>14. LiveIn(g) \subseteq From(g, (O \ {x}) \union {old})
  <2>1. PICK P, T, F : P = (O \ {x}) \union {old} /\ T = From(g, P) /\ F = From(h, {old})
    OBVIOUS
  <2>2. P \in SUBSET Nodes /\ {old} \in SUBSET Nodes /\ O \ {x} \in SUBSET Nodes /\ O \ {x} \subseteq P /\ old \in P
    BY <1>2, <1>3, <2>1
  <2>3. /\ P \subseteq T /\ T \subseteq Nodes
        /\ \A n \in T : /\ g[n].next # Null => g[n].next \in T
                        /\ g[n].child # Null => g[n].child \in T
    BY <2>1, <2>2, FromCloses
  <2>4. /\ old \in F /\ F \subseteq Nodes
        /\ \A n \in F : /\ h[n].next # Null => h[n].next \in F
                        /\ h[n].child # Null => h[n].child \in F
    BY <2>1, <2>2, FromCloses
  <2>5. \A n \in T : n \in Nodes /\ n # Null
    BY <1>4, <2>3
  <2>6. old \in T
    BY <2>2, <2>3
  <2>7. p \notin F /\ prev \notin F
    BY <1>1, <1>5, <2>1, ParentAbove
  <2>8. From(h, O \ {x}) \subseteq T \union F
    <3>1. PICK C : C = T \union F
      OBVIOUS
    <3>2. \A n \in T : h[n].next # Null => h[n].next \in T \union F
      BY <1>2, <1>3, <1>5, <1>6, <2>3, <2>4, <2>5, <2>6
    <3>3. \A n \in T : h[n].child # Null => h[n].child \in T \union F
      BY <1>3, <1>5, <1>6, <2>3, <2>5, <2>6
    <3>4. \A n \in C : /\ h[n].next # Null => h[n].next \in C
                       /\ h[n].child # Null => h[n].child \in C
      BY <2>4, <3>1, <3>2, <3>3
    <3>5. O \ {x} \subseteq C
      BY <2>2, <2>3, <3>1
    <3>6. From(h, O \ {x}) \subseteq C
      BY <2>2, <3>4, <3>5, FromLeast
    <3> QED
      BY <3>1, <3>6
  <2>9. p \in T /\ (prev # Null => prev \in T)
    BY <1>3, <1>5, <2>7, <2>8
  <2>10. x \in T
    BY <1>3, <1>5, <1>6, <2>3, <2>9
  <2>11. next # Null => next \in T
    BY <1>5, <1>6, <2>3, <2>10
  <2>12. \A n \in T : /\ h[n].next # Null => h[n].next \in T
                      /\ h[n].child # Null => h[n].child \in T
    <3>1. \A n \in T : h[n].next # Null => h[n].next \in T
      BY <1>1, <1>2, <1>3, <1>6, <2>3, <2>5, <2>6, <2>11
    <3>2. \A n \in T : h[n].child # Null => h[n].child \in T
      BY <1>6, <2>3, <2>5, <2>6
    <3> QED
      BY <3>1, <3>2
  <2>13. O \subseteq T
    BY <2>2, <2>3, <2>10
  <2>14. From(h, O) \subseteq T
    BY <1>2, <2>12, <2>13, FromLeast
  <2> QED
    BY <1>2, <1>8, <2>1, <2>14
<1>15. (O \ {x}) \union {old} \subseteq LiveIn(g)
  BY <1>2, <1>3, <1>8
<1> QED
  BY <1>7, <1>11, <1>12, <1>13, <1>14, <1>15 DEF Trees, Forest

(***************************************************************************)
(* Deleting and copying trees                                              *)
(***************************************************************************)
\* The tree of x is freed, and no other node is written.
Frees(g, h, x) == /\ \A n \in Nodes \ From(h, {x}) : g[n] = h[n]
                  /\ \A n \in From(h, {x}) : g[n] = Freed

\* cJSON_Delete() of a top
LEMMA TreesDelete ==
  ASSUME NEW h \in Heaps, NEW O, Trees(h, O), NEW x \in O
  PROVE  /\ Delete(h, x) \in Heaps
         /\ Trees(Delete(h, x), O \ {x})
         /\ Frees(Delete(h, x), h, x)
         /\ From(h, {x}) \subseteq LiveIn(h)
         /\ LiveIn(Delete(h, x)) = LiveIn(h) \ From(h, {x})
         /\ Lasts(Delete(h, x), h)
<1>1. PICK g, S, c : g = Delete(h, x) /\ S = {x} /\ c = Freed
  OBVIOUS
<1>2. Forest(h, O) /\ S \in SUBSET O /\ c \in {Freed, Adrift}
  BY <1>1, TreesAre
<1>3. g = Cut(h, S, c)
  BY <1>1 DEF Delete, Cut, From
<1>4. /\ g \in Heaps /\ Trees(g, O \ S) /\ Lasts(g, h) /\ Takes(g, h, S, c)
      /\ From(h, S) \subseteq LiveIn(h) /\ LiveIn(g) = LiveIn(h) \ From(h, S)
  BY <1>2, <1>3, TreesCut
<1> QED
  BY <1>1, <1>4 DEF Frees, Takes

\* What hangs below a node that is in no list is its tree.
LEMMA BelowIs ==
  ASSUME NEW h \in Heaps, NEW n \in Nodes
  PROVE  /\ Below(h, n) \subseteq From(h, {n})
         /\ h[n].next = Null => Below(h, n) = From(h, {n})
<1>1. PICK S : S = {h[n].child} \ {Null}
  OBVIOUS
<1>2. S \in SUBSET Nodes /\ {n} \in SUBSET Nodes
  BY <1>1, CellsAre DEF Ptrs
<1>3. Below(h, n) = {n} \union From(h, S)
  BY <1>1 DEF Below, From
<1>4. /\ n \in From(h, {n}) /\ S \subseteq From(h, {n})
      /\ S \subseteq From(h, S)
      /\ \A m \in From(h, S) : /\ h[m].next # Null => h[m].next \in From(h, S)
                               /\ h[m].child # Null => h[m].child \in From(h, S)
  BY <1>1, <1>2, FromCloses
<1>5. From(h, S) \subseteq From(h, {n})
  BY <1>2, <1>4, FromGrows
<1>6. ASSUME h[n].next = Null PROVE From(h, {n}) \subseteq Below(h, n)
  <2>1. PICK T : T = {n} \union From(h, S)
    OBVIOUS
  <2>2. \A m \in T : /\ h[m].next # Null => h[m].next \in T
                     /\ h[m].child # Null => h[m].child \in T
    BY <1>1, <1>4, <1>6, <2>1
  <2>3. {n} \subseteq T
    BY <2>1
  <2>4. From(h, {n}) \subseteq T
    BY <1>2, <2>2, <2>3, FromLeast
  <2> QED
    BY <1>3, <2>1, <2>4
<1> QED
  BY <1>3, <1>4, <1>5, <1>6

\* What is below a node is a tree in itself.
LEMMA BelowAre ==
  ASSUME NEW h \in Heaps, NEW O, Trees(h, O), NEW n \in LiveIn(h)
  PROVE  /\ n \in Below(h, n) /\ Below(h, n) \subseteq LiveIn(h)
         /\ h[n].child # Null => h[n].child \in Below(h, n) \ {n}
         /\ \A a \in Below(h, n) \ {n} :
              /\ h[a].next # Null => h[a].next \in Below(h, n) \ {n}
              /\ h[a].prev # Null => h[a].prev \in Below(h, n) \ {n}
              /\ h[a].child # Null => h[a].child \in Below(h, n) \ {n}
<1>1. PICK S : S = {h[n].child} \ {Null}
  OBVIOUS
<1>2. n \in Nodes /\ Linked(h) /\ Forest(h, O) /\ LiveIn(h) \subseteq Nodes
  BY TreesAre
<1>3. S \in SUBSET Nodes /\ S \subseteq LiveIn(h)
  <2>1. h[n].child # Null => h[n].child \in LiveIn(h)
    BY <1>2 DEF Linked
  <2> QED
    BY <1>1, <1>2, <2>1
<1>4. Below(h, n) = {n} \union From(h, S)
  BY <1>1 DEF Below, From
<1>5. /\ S \subseteq From(h, S) /\ From(h, S) \subseteq Nodes
      /\ \A m \in From(h, S) : /\ h[m].next # Null => h[m].next \in From(h, S)
                               /\ h[m].child # Null => h[m].child \in From(h, S)
  BY <1>3, FromCloses
<1>6. n \notin From(h, S)
  <2>1. CASE S = {}
    <3>1. From(h, S) \subseteq {}
      BY <1>3, <2>1, FromLeast
    <3> QED
      BY <3>1
  <2>2. CASE S # {}
    <3>1. PICK c : c = h[n].child
      OBVIOUS
    <3>2. S = {c} /\ c \in Nodes
      BY <1>1, <1>3, <2>2, <3>1
    <3> QED
      BY <1>2, <3>1, <3>2, NoCycle
  <2> QED
    BY <2>1, <2>2
<1>7. From(h, S) \subseteq LiveIn(h)
  <2>1. \A m \in LiveIn(h) : /\ h[m].next # Null => h[m].next \in LiveIn(h)
                             /\ h[m].child # Null => h[m].child \in LiveIn(h)
    BY <1>2 DEF Linked
  <2> QED
    BY <1>3, <2>1, FromLeast
<1>8. ASSUME NEW a \in From(h, S), h[a].prev # Null PROVE h[a].prev \in From(h, S)
  <2>1. PICK q : q = h[a].prev
    OBVIOUS
  <2>2. a \in Nodes
    BY <1>5
  <2>3. q \in Nodes /\ h[q].next = a
    BY <1>2, <1>8, <2>1, <2>2 DEF Linked
  <2>4. a \notin S
    BY <1>1, <1>2, <1>8, <2>2 DEF Linked
  <2> QED
    BY <1>2, <1>3, <2>1, <2>3, <2>4, FromSource
<1> QED
  BY <1>1, <1>4, <1>5, <1>6, <1>7, <1>8

\* Unused places, another for each node
Fits(h, B, f) ==
  /\ \A a \in B : f[a] \in FreshNodes(h)
  /\ \A a, b \in B : f[a] = f[b] => a = b
Copies(g, h, n, f) ==
  /\ \A a \in Below(h, n) :
       /\ g[f[a]].t = h[a].t /\ g[f[a]].key = h[a].key
       /\ g[f[a]].next = IF a = n \/ h[a].next = Null THEN Null ELSE f[h[a].next]
       /\ g[f[a]].prev = IF a = n \/ h[a].prev = Null THEN Null ELSE f[h[a].prev]
       /\ g[f[a]].child = IF h[a].child = Null THEN Null ELSE f[h[a].child]
  /\ \A m \in Nodes : (\A a \in Below(h, n) : f[a] # m) => g[m] = h[m]

\* cJSON_Duplicate()
LEMMA DuplicateWrites ==
  ASSUME NEW h \in Heaps, NEW O, Trees(h, O), NEW n \in LiveIn(h), NEW f, Fits(h, Below(h, n), f)
  PROVE  Duplicate(h, n, f) \in Heaps /\ Copies(Duplicate(h, n, f), h, n, f)
<1> DEFINE B         == Below(h, n)
           at(m)     == IF m = Null THEN Null ELSE f[m]
           CopyOf(a) == IF a = n THEN Cell(h[n].t, Null, Null, at(h[n].child), h[n].key)
                        ELSE Cell(h[a].t, at(h[a].next), at(h[a].prev), at(h[a].child), h[a].key)
           Of(m)     == CHOOSE a \in B : f[a] = m
<1>1. PICK g : g = Duplicate(h, n, f)
  OBVIOUS
<1>2. g = [m \in Nodes |-> IF \E a \in B : f[a] = m THEN CopyOf(Of(m)) ELSE h[m]]
  BY <1>1 DEF Duplicate
<1>3. /\ n \in B /\ B \subseteq Nodes
      /\ h[n].child # Null => h[n].child \in B
      /\ \A a \in B \ {n} : /\ h[a].next # Null => h[a].next \in B
                            /\ h[a].prev # Null => h[a].prev \in B
                            /\ h[a].child # Null => h[a].child \in B
  BY BelowAre, TreesAre
<1>4. \A a \in B : f[a] \in Nodes /\ \A b \in B : f[a] = f[b] => a = b
  BY DEF Fits, FreshNodes
<1>5. ASSUME NEW a \in B
      PROVE  /\ CopyOf(a) \in Cells
             /\ CopyOf(a).t = h[a].t /\ CopyOf(a).key = h[a].key
             /\ CopyOf(a).next = IF a = n \/ h[a].next = Null THEN Null ELSE f[h[a].next]
             /\ CopyOf(a).prev = IF a = n \/ h[a].prev = Null THEN Null ELSE f[h[a].prev]
             /\ CopyOf(a).child = IF h[a].child = Null THEN Null ELSE f[h[a].child]
  <2>1. h[a].t \in Types /\ h[a].key \in Keys \union {""} /\ Null \in Ptrs
    BY <1>3, CellsAre DEF Ptrs
  <2>2. at(h[a].child) \in Ptrs
    BY <1>3, <1>4 DEF Ptrs
  <2>3. CASE a = n
    <3>1. PICK c, t, key, z : c = at(h[a].child) /\ t = h[a].t /\ key = h[a].key /\ z = Cell(t, Null, Null, c, key)
      OBVIOUS
    <3>2. CopyOf(a) = z
      BY <2>3, <3>1
    <3>3. /\ z \in Cells /\ z.t = t /\ z.next = Null /\ z.prev = Null /\ z.child = c /\ z.key = key
      <4> HIDE DEF at
      <4>1. c \in Ptrs /\ t \in Types /\ key \in Keys \union {""} /\ Null \in Ptrs
        BY <2>1, <2>2, <3>1
      <4>2. z = Cell(t, Null, Null, c, key)
        BY <3>1
      <4> QED
        BY ONLY <4>1, <4>2 DEF Cell, Cells
    <3> HIDE DEF CopyOf
    <3> QED
      BY <2>3, <3>1, <3>2, <3>3
  <2>4. CASE a # n
    <3>1. PICK c, next, prev, t, key, z :
            /\ c = at(h[a].child) /\ next = at(h[a].next) /\ prev = at(h[a].prev)
            /\ t = h[a].t /\ key = h[a].key /\ z = Cell(t, next, prev, c, key)
      OBVIOUS
    <3>2. CopyOf(a) = z
      BY <2>4, <3>1
    <3>3. at(h[a].next) \in Ptrs /\ at(h[a].prev) \in Ptrs
      BY <1>3, <1>4, <2>4 DEF Ptrs
    <3>4. /\ z \in Cells /\ z.t = t /\ z.next = next /\ z.prev = prev /\ z.child = c /\ z.key = key
      <4> HIDE DEF at
      <4>1. c \in Ptrs /\ next \in Ptrs /\ prev \in Ptrs /\ t \in Types /\ key \in Keys \union {""}
        BY <2>1, <2>2, <3>1, <3>3
      <4>2. z = Cell(t, next, prev, c, key)
        BY <3>1
      <4> QED
        BY ONLY <4>1, <4>2 DEF Cell, Cells
    <3> HIDE DEF CopyOf
    <3> QED
      BY <2>4, <3>1, <3>2, <3>4
  <2> QED
    BY <2>3, <2>4
<1> HIDE DEF CopyOf, at
<1>6. ASSUME NEW a \in B PROVE g[f[a]] = CopyOf(a)
  <2>1. Of(f[a]) = a
    BY <1>4
  <2> HIDE DEF Of
  <2> QED
    BY <1>2, <1>4, <2>1
<1>7. \A m \in Nodes : (\A a \in B : f[a] # m) => g[m] = h[m]
  BY <1>2
<1>8. g \in Heaps
  <2>1. ASSUME NEW m \in Nodes PROVE g[m] \in Cells
    <3>1. CASE \E a \in B : f[a] = m
      BY <1>5, <1>6, <3>1
    <3>2. CASE \A a \in B : f[a] # m
      BY <1>7, <3>2 DEF Heaps
    <3> QED
      BY <3>1, <3>2
  <2>2. g = [m \in Nodes |-> g[m]]
    BY <1>2
  <2> QED
    BY <2>1, <2>2 DEF Heaps
<1>9. Copies(g, h, n, f)
  BY <1>5, <1>6, <1>7 DEF Copies
<1> QED
  BY <1>1, <1>8, <1>9

\* cJSON_Duplicate() makes a new tree and leaves the others.
Aside(g, h, r) == \A m \in LiveIn(h) : g[m] = h[m] /\ m \notin From(g, {r})

\* A copy is a tree of its own; the original and all others stay as they are.
LEMMA ForestCopies ==
  ASSUME NEW h \in Heaps, NEW O, Trees(h, O), NEW n \in LiveIn(h), NEW f, Fits(h, Below(h, n), f)
  PROVE  /\ Duplicate(h, n, f) \in Heaps
         /\ Trees(Duplicate(h, n, f), O \union {f[n]})
         /\ f[n] \in Nodes /\ f[n] \notin LiveIn(h)
         /\ Aside(Duplicate(h, n, f), h, f[n])
         /\ Writes(Duplicate(h, n, f), h, {f[a] : a \in Below(h, n)})
         /\ Lasts(Duplicate(h, n, f), h)
<1>1. PICK g, B, r : g = Duplicate(h, n, f) /\ B = Below(h, n) /\ r = f[n]
  OBVIOUS
<1>2. /\ O \in SUBSET Nodes /\ O \subseteq LiveIn(h) /\ LiveIn(h) \subseteq Nodes
      /\ Forest(h, O) /\ TopsIn(h, O) /\ Linked(h) /\ LiveIn(h) \subseteq From(h, O)
      /\ \A o \in O : h[o].next = Null
  BY TreesAre
<1>3. g \in Heaps /\ Copies(g, h, n, f)
  BY <1>1, DuplicateWrites
<1>4. /\ n \in B /\ B \subseteq LiveIn(h)
      /\ h[n].child # Null => h[n].child \in B \ {n}
      /\ \A a \in B \ {n} : /\ h[a].next # Null => h[a].next \in B \ {n}
                            /\ h[a].prev # Null => h[a].prev \in B \ {n}
                            /\ h[a].child # Null => h[a].child \in B \ {n}
  BY <1>1, BelowAre
<1>5. \A m \in Nodes : m # Null
  BY NodesAre
<1>6. /\ \A a \in B : /\ f[a] \in Nodes /\ h[f[a]].t = "fresh" /\ f[a] \notin LiveIn(h) /\ f[a] # Null
      /\ \A a, b \in B : f[a] = f[b] => a = b
  BY <1>1, <1>5 DEF Fits, FreshNodes, LiveIn, Kinds
<1>7. \A a \in B : /\ g[f[a]].t = h[a].t
                   /\ g[f[a]].next = IF a = n \/ h[a].next = Null THEN Null ELSE f[h[a].next]
                   /\ g[f[a]].prev = IF a = n \/ h[a].prev = Null THEN Null ELSE f[h[a].prev]
                   /\ g[f[a]].child = IF h[a].child = Null THEN Null ELSE f[h[a].child]
  BY <1>1, <1>3 DEF Copies
<1>8. \A m \in Nodes : (\A a \in B : f[a] # m) => g[m] = h[m]
  BY <1>1, <1>3 DEF Copies
<1>9. \A m \in LiveIn(h) : g[m] = h[m]
  BY <1>2, <1>6, <1>8
<1>10. /\ \A m \in LiveIn(g) : m \in Nodes /\ (m \in LiveIn(h) \/ \E a \in B : f[a] = m)
       /\ LiveIn(h) \subseteq LiveIn(g)
       /\ \A a \in B : f[a] \in LiveIn(g)
  <2>1. \A m \in Nodes : (\A a \in B : f[a] # m) => (m \in LiveIn(g) <=> m \in LiveIn(h))
    BY <1>8 DEF LiveIn
  <2>2. \A a \in B : f[a] \in LiveIn(g)
    BY <1>4, <1>6, <1>7 DEF LiveIn
  <2> QED
    BY <1>2, <1>6, <2>1, <2>2 DEF LiveIn
<1>11. \A m \in Nodes : (\A a \in B : f[a] # m) => /\ g[m] = h[m]
                                                   /\ m \in LiveIn(g) => m \in LiveIn(h)
  BY <1>8, <1>10
<1>12. \A a \in B : /\ a \in Nodes
                    /\ h[a].next # Null /\ a # n => h[a].next \in B /\ h[a].next # n /\ h[h[a].next].prev = a
                    /\ h[a].prev # Null /\ a # n => h[a].prev \in B /\ h[a].prev # n /\ h[h[a].prev].next = a
                    /\ h[a].child # Null => h[a].child \in B /\ h[a].child # n /\ h[h[a].child].prev = Null
  BY <1>2, <1>4 DEF Linked
<1>13. Linked(g)
  <2>1. \A m \in Nodes \ LiveIn(g) : g[m].next = Null /\ g[m].prev = Null /\ g[m].child = Null
    BY <1>2, <1>8, <1>10 DEF Linked
  <2>2. \A m \in Nodes : g[m].next # Null => g[m].next \in LiveIn(g) /\ g[g[m].next].prev = m
    <3>1. ASSUME NEW a \in B, g[f[a]].next # Null
          PROVE  g[f[a]].next \in LiveIn(g) /\ g[g[f[a]].next].prev = f[a]
      <4>1. a # n /\ h[a].next # Null /\ g[f[a]].next = f[h[a].next]
        BY <1>7, <3>1
      <4>2. PICK b : b = h[a].next
        OBVIOUS
      <4>3. b \in B /\ b # n /\ h[b].prev = a /\ a # Null
        BY <1>5, <1>12, <4>1, <4>2
      <4>4. g[f[b]].prev = f[a]
        BY <1>7, <4>3
      <4> QED
        BY <1>10, <4>1, <4>2, <4>3, <4>4
    <3>2. ASSUME NEW m \in Nodes, \A a \in B : f[a] # m, g[m].next # Null
          PROVE  g[m].next \in LiveIn(g) /\ g[g[m].next].prev = m
      <4>1. g[m] = h[m]
        BY <1>8, <3>2
      <4>2. h[m].next \in LiveIn(h) /\ h[h[m].next].prev = m
        BY <1>2, <3>2, <4>1 DEF Linked
      <4> QED
        BY <1>9, <1>10, <4>1, <4>2
    <3> QED
      BY <3>1, <3>2
  <2>3. \A m \in Nodes : g[m].prev # Null => g[m].prev \in LiveIn(g) /\ g[g[m].prev].next = m
    <3>1. ASSUME NEW a \in B, g[f[a]].prev # Null
          PROVE  g[f[a]].prev \in LiveIn(g) /\ g[g[f[a]].prev].next = f[a]
      <4>1. a # n /\ h[a].prev # Null /\ g[f[a]].prev = f[h[a].prev]
        BY <1>7, <3>1
      <4>2. PICK b : b = h[a].prev
        OBVIOUS
      <4>3. b \in B /\ b # n /\ h[b].next = a /\ a # Null
        BY <1>5, <1>12, <4>1, <4>2
      <4>4. g[f[b]].next = f[a]
        BY <1>7, <4>3
      <4> QED
        BY <1>10, <4>1, <4>2, <4>3, <4>4
    <3>2. ASSUME NEW m \in Nodes, \A a \in B : f[a] # m, g[m].prev # Null
          PROVE  g[m].prev \in LiveIn(g) /\ g[g[m].prev].next = m
      <4>1. g[m] = h[m]
        BY <1>8, <3>2
      <4>2. h[m].prev \in LiveIn(h) /\ h[h[m].prev].next = m
        BY <1>2, <3>2, <4>1 DEF Linked
      <4> QED
        BY <1>9, <1>10, <4>1, <4>2
    <3> QED
      BY <3>1, <3>2
  <2>4. \A m \in Nodes : g[m].child # Null => g[m].child \in LiveIn(g) /\ g[g[m].child].prev = Null
    <3>1. ASSUME NEW a \in B, g[f[a]].child # Null
          PROVE  g[f[a]].child \in LiveIn(g) /\ g[g[f[a]].child].prev = Null
      <4>1. h[a].child # Null /\ g[f[a]].child = f[h[a].child]
        BY <1>7, <3>1
      <4>2. PICK b : b = h[a].child
        OBVIOUS
      <4>3. b \in B /\ h[b].prev = Null
        BY <1>12, <4>1, <4>2
      <4>4. g[f[b]].prev = Null
        BY <1>7, <4>3
      <4> QED
        BY <1>10, <4>1, <4>2, <4>3, <4>4
    <3>2. ASSUME NEW m \in Nodes, \A a \in B : f[a] # m, g[m].child # Null
          PROVE  g[m].child \in LiveIn(g) /\ g[g[m].child].prev = Null
      <4>1. g[m] = h[m]
        BY <1>8, <3>2
      <4>2. h[m].child \in LiveIn(h) /\ h[h[m].child].prev = Null
        BY <1>2, <3>2, <4>1 DEF Linked
      <4> QED
        BY <1>9, <1>10, <4>1, <4>2
    <3> QED
      BY <3>1, <3>2
  <2>5. \A l, m \in Nodes : g[l].child = g[m].child /\ g[l].child # Null => l = m
    <3> SUFFICES ASSUME NEW l \in Nodes, NEW m \in Nodes, g[l].child = g[m].child, g[l].child # Null
                 PROVE  l = m
      OBVIOUS
    <3>1. CASE (\A a \in B : f[a] # l) /\ (\A a \in B : f[a] # m)
      BY <1>2, <1>8, <3>1 DEF Linked
    <3>2. ASSUME NEW a \in B PROVE g[f[a]].child # Null => \E b \in B : g[f[a]].child = f[b] /\ b = h[a].child
      BY <1>7, <1>12
    <3>3. ASSUME NEW k \in Nodes, \A a \in B : f[a] # k, g[k].child # Null PROVE g[k].child \in LiveIn(h)
      BY <1>2, <1>8, <3>3 DEF Linked
    <3>4. CASE \E a, b \in B : f[a] = l /\ f[b] = m
      <4>1. PICK a \in B, b \in B : f[a] = l /\ f[b] = m
        BY <3>4
      <4>2. h[a].child = h[b].child /\ h[a].child # Null
        BY <1>6, <1>7, <1>12, <4>1
      <4>3. a = b
        BY <1>2, <1>12, <4>2 DEF Linked
      <4> QED
        BY <4>1, <4>3
    <3> QED
      BY <1>6, <3>1, <3>2, <3>3, <3>4
  <2> QED
    BY <2>1, <2>2, <2>3, <2>4, <2>5 DEF Linked
<1>14. TopsIn(g, O \union {r})
  <2>1. ASSUME NEW m \in Nodes PROVE g[m].child # r
    <3>1. CASE \E a \in B : f[a] = m
      BY <1>1, <1>4, <1>6, <1>7, <1>12, <3>1
    <3>2. CASE \A a \in B : f[a] # m
      BY <1>1, <1>2, <1>4, <1>6, <1>8, <3>2 DEF Linked
    <3> QED
      BY <3>1, <3>2
  <2>2. ASSUME NEW o \in O, NEW m \in Nodes PROVE g[m].child # o
    <3>1. o \in LiveIn(h) /\ o # Null
      BY <1>2, <1>5
    <3>2. CASE \E a \in B : f[a] = m
      BY <1>6, <1>7, <1>12, <3>1, <3>2
    <3>3. CASE \A a \in B : f[a] # m
      BY <1>2, <1>8, <3>3 DEF TopsIn
    <3> QED
      BY <3>2, <3>3
  <2>3. \A o \in O : g[o].prev = Null
    BY <1>2, <1>9 DEF TopsIn
  <2>4. g[r].prev = Null
    BY <1>1, <1>4, <1>7
  <2> QED
    BY <2>1, <2>2, <2>3, <2>4 DEF TopsIn
<1>15. Alone(g, O \union {r})
  BY <1>1, <1>2, <1>4, <1>7, <1>9 DEF Alone
<1>16. r \in Nodes /\ r \notin LiveIn(h) /\ {r} \in SUBSET Nodes /\ O \union {r} \in SUBSET Nodes
  BY <1>1, <1>2, <1>4, <1>6
<1>17. \A a \in B : f[a] \in From(g, {r})
  <2>1. PICK U, S : U = {a \in B : f[a] \in From(g, {r})} /\ S = {h[n].child} \ {Null}
    OBVIOUS
  <2>2. /\ r \in From(g, {r})
        /\ \A m \in From(g, {r}) : /\ g[m].next # Null => g[m].next \in From(g, {r})
                                   /\ g[m].child # Null => g[m].child \in From(g, {r})
    BY <1>3, <1>16, FromCloses
  <2>3. ASSUME NEW a \in U
        PROVE  /\ a # n /\ h[a].next # Null => h[a].next \in U
               /\ h[a].child # Null => h[a].child \in U
    <3>1. a \in B /\ f[a] \in From(g, {r})
      BY <2>1, <2>3
    <3>2. ASSUME a # n, h[a].next # Null PROVE h[a].next \in U
      <4>1. h[a].next \in B /\ g[f[a]].next = f[h[a].next]
        BY <1>7, <1>12, <3>1, <3>2
      <4> QED
        BY <1>6, <2>1, <2>2, <3>1, <4>1
    <3>3. ASSUME h[a].child # Null PROVE h[a].child \in U
      <4>1. h[a].child \in B /\ g[f[a]].child = f[h[a].child]
        BY <1>7, <1>12, <3>1, <3>3
      <4> QED
        BY <1>6, <2>1, <2>2, <3>1, <4>1
    <3> QED
      BY <3>2, <3>3
  <2>4. n \in U
    BY <1>1, <1>4, <2>1, <2>2
  <2>5. PICK V : V = U \ {n}
    OBVIOUS
  <2>6. S \subseteq V /\ S \in SUBSET Nodes
    BY <1>12, <2>1, <2>3, <2>4, <2>5
  <2>7. \A a \in V : /\ h[a].next # Null => h[a].next \in V
                     /\ h[a].child # Null => h[a].child \in V
    BY <1>12, <2>1, <2>3, <2>5
  <2>8. From(h, S) \subseteq V
    BY <2>6, <2>7, FromLeast
  <2>9. B = {n} \union From(h, S)
    BY <1>1, <2>1 DEF Below, From
  <2> QED
    BY <2>1, <2>4, <2>5, <2>8, <2>9
<1>18. From(g, O) = From(h, O)
  <2>1. From(h, O) \subseteq LiveIn(h)
    <3>1. \A m \in LiveIn(h) : /\ h[m].next # Null => h[m].next \in LiveIn(h)
                               /\ h[m].child # Null => h[m].child \in LiveIn(h)
      BY <1>2 DEF Linked
    <3> QED
      BY <1>2, <3>1, FromLeast
  <2> QED
    BY <1>2, <1>3, <1>9, <2>1, FromSame
<1>19. LiveIn(g) \subseteq From(g, O \union {r})
  <2>1. From(g, O \union {r}) = From(g, O) \union From(g, {r})
    BY <1>2, <1>3, <1>16, FromUnion
  <2> QED
    BY <1>2, <1>10, <1>17, <1>18, <2>1
<1>20. \A m \in LiveIn(h) : m \notin From(g, {r})
  <2>1. PICK P : P = O \union {r}
    OBVIOUS
  <2>2. O \in SUBSET P /\ {r} \in SUBSET P /\ O \intersect {r} = {} /\ P \in SUBSET Nodes /\ TopsIn(g, P)
    BY <1>2, <1>14, <1>16, <2>1
  <2>3. From(g, O) \intersect From(g, {r}) = {}
    BY <1>3, <1>13, <2>2, TreesApart
  <2> QED
    BY <1>2, <1>18, <2>3
<1>21. Lasts(g, h)
  <2>1. \A m \in AdriftIn(h) : m \in Nodes /\ h[m].t = "adrift" /\ \A a \in B : f[a] # m
    BY <1>1 DEF AdriftIn, Fits, FreshNodes
  <2> QED
    BY <1>8, <2>1 DEF Lasts, AdriftIn
<1>22. O \union {r} \subseteq LiveIn(g)
  BY <1>1, <1>2, <1>4, <1>10
<1>23. Aside(g, h, r) /\ Writes(g, h, {f[a] : a \in B})
  BY <1>8, <1>9, <1>20 DEF Aside, Writes
<1>24. Trees(g, O \union {r})
  BY <1>13, <1>14, <1>15, <1>19, <1>22 DEF Trees, Forest
<1> QED
  BY <1>1, <1>3, <1>16, <1>21, <1>23, <1>24

\* add_item_to_object() writes the key first.
SameTypes(g, h) == \A m \in Nodes : g[m].t = h[m].t

\* cJSON_AddItemToObject() of a top
LEMMA ForestAddsKeyed ==
  ASSUME NEW h \in Heaps, NEW O, Trees(h, O), NEW x \in O,
         NEW p \in LiveIn(h), p \notin From(h, {x}), NEW k \in Keys \union {""}
  PROVE  /\ AddItemToObject(h, p, k, x) \in Heaps
         /\ Trees(AddItemToObject(h, p, k, x), O \ {x})
         /\ SameTypes(AddItemToObject(h, p, k, x), h)
         /\ Grows(AddItemToObject(h, p, k, x), h, p, x)
<1>1. PICK e, g : e = [h EXCEPT ![x].key = k] /\ g = AddItemToArray(e, p, x)
  OBVIOUS
<1>2. O \in SUBSET Nodes /\ x \in Nodes /\ {x} \in SUBSET Nodes /\ Forest(h, O) /\ Alone(h, O)
      /\ TopsIn(h, O) /\ Linked(h)
  BY TreesAre DEF Trees
<1>3. /\ e \in Heaps
      /\ \A m \in Nodes : /\ e[m].next = h[m].next /\ e[m].prev = h[m].prev
                          /\ e[m].child = h[m].child /\ e[m].t = h[m].t
      /\ \A m \in Nodes \ {x} : e[m] = h[m]
  BY <1>1, <1>2 DEF Heaps, Cells
<1>4. LiveIn(e) = LiveIn(h)
  BY <1>3 DEF LiveIn
<1>5. Forest(e, O) /\ \A S \in SUBSET Nodes : From(e, S) = From(h, S)
  BY <1>2, <1>3, <1>4, ForestSame
<1>6. Trees(e, O)
  BY <1>2, <1>3, <1>5 DEF Trees, Alone
<1>7. p \in LiveIn(e) /\ p \notin From(e, {x})
  BY <1>2, <1>4, <1>5
<1>8. /\ g \in Heaps /\ Trees(g, O \ {x})
      /\ \A m \in Nodes : SameItem(g, e, m)
      /\ Grows(g, e, p, x)
  BY <1>1, <1>3, <1>6, <1>7, ForestAppends
<1>9. Grows(g, h, p, x)
  <2>1. PICK S : S = {h[p].child} \ {Null}
    OBVIOUS
  <2>2. p \in Nodes /\ S \in SUBSET Nodes /\ e[p].child = h[p].child
    <3>1. p \in Nodes
      BY DEF LiveIn
    <3>2. h[p].child \in Nodes \union {Null} /\ e[p].child = h[p].child
      BY <1>3, <3>1, CellsAre DEF Ptrs
    <3> QED
      BY <2>1, <3>1, <3>2
  <2>3. From(e, S) = From(h, S) /\ From(e, {x}) = From(h, {x})
    BY <1>2, <1>5, <2>2
  <2>4. Below(e, p) = Below(h, p)
    BY <2>1, <2>2, <2>3 DEF Below, From
  <2>5. ASSUME NEW m \in Nodes \ (Below(h, p) \union {x}) PROVE Same(g, h, m)
    <3>1. Same(g, e, m) /\ e[m] = h[m]
      BY <1>3, <1>8, <2>4, <2>5 DEF Grows
    <3> QED
      BY <3>1 DEF Same, SameItem
  <2> QED
    BY <1>8, <2>3, <2>4, <2>5 DEF Grows
<1>10. SameTypes(g, h)
  BY <1>3, <1>8 DEF SameItem, SameTypes
<1>11. g = AddItemToObject(h, p, k, x)
  BY <1>1 DEF AddItemToObject
<1> QED
  BY <1>8, <1>9, <1>10, <1>11

\* What is below a node and what is behind it are apart.
LEMMA SiblingsApart ==
  ASSUME NEW h \in Heaps, NEW O, Trees(h, O), NEW c \in LiveIn(h), NEW m \in Nodes, m = h[c].next
  PROVE  /\ Below(h, c) \intersect From(h, {m}) = {}
         /\ From(h, {m}) \subseteq From(h, {c})
<1>1. c \in Nodes /\ Linked(h) /\ Forest(h, O) /\ {m} \in SUBSET Nodes /\ {c} \in SUBSET Nodes
      /\ c # Null /\ m # Null
  BY TreesAre, NodesAre
<1>2. PICK S, D : S = {h[c].child} \ {Null} /\ D = From(h, {m})
  OBVIOUS
<1>3. S \in SUBSET Nodes
  <2>1. h[c].child \in Ptrs
    BY <1>1, CellsAre
  <2> QED
    BY <1>2, <2>1 DEF Ptrs
<1>4. Below(h, c) = {c} \union From(h, S)
  BY <1>2 DEF Below, From
<1>5. c \notin D
  BY <1>1, <1>2, NoCycle
<1>6. c \notin From(h, S)
  <2>1. PICK b : b = h[c].child
    OBVIOUS
  <2>2. CASE b = Null
    <3>1. From(h, S) \subseteq {}
      BY <1>2, <1>3, <2>1, <2>2, FromLeast
    <3> QED
      BY <3>1
  <2>3. CASE b # Null
    <3>1. b \in Nodes /\ S = {b}
      BY <1>2, <1>3, <2>1, <2>3
    <3> QED
      BY <1>1, <2>1, <3>1, NoCycle
  <2> QED
    BY <2>2, <2>3
<1>7. ASSUME NEW l \in Nodes, l # c, l \notin D, NEW d \in Nodes, d = h[l].next \/ d = h[l].child
      PROVE  d \notin D
  <2>1. SUFFICES ASSUME d \in D PROVE FALSE
    OBVIOUS
  <2>2. d # m
    BY <1>1, <1>7, LinkJoins
  <2>3. d \notin {m}
    BY <2>2
  <2> QED
    BY <1>1, <1>2, <1>7, <2>1, <2>3, FromSource
<1>8. PICK C : C = From(h, S) \ D
  OBVIOUS
<1>9. /\ S \subseteq From(h, S) /\ From(h, S) \subseteq Nodes
      /\ \A l \in From(h, S) : /\ h[l].next # Null => h[l].next \in From(h, S)
                               /\ h[l].child # Null => h[l].child \in From(h, S)
  BY <1>3, FromCloses
<1>10. \A l \in C : /\ h[l].next # Null => h[l].next \in C
                    /\ h[l].child # Null => h[l].child \in C
  <2>1. \A l \in C : l \in Nodes /\ l # c /\ l \notin D /\ l \in From(h, S)
    BY <1>6, <1>8, <1>9
  <2> QED
    BY <1>7, <1>8, <1>9, <2>1
<1>11. S \subseteq C
  <2>1. ASSUME NEW b \in S PROVE b \notin D
    <3>1. b = h[c].child /\ b \in Nodes
      BY <1>2, <1>3
    <3>2. b # m
      BY <1>1, <3>1, LinkJoins
    <3>3. b \notin {m}
      BY <3>2
    <3>4. SUFFICES ASSUME b \in D PROVE FALSE
      OBVIOUS
    <3>5. c \in D
      BY <1>1, <1>2, <3>1, <3>3, <3>4, FromSource
    <3> QED
      BY <1>5, <3>5
  <2> QED
    BY <1>8, <1>9, <2>1
<1>12. From(h, S) \subseteq C
  BY <1>3, <1>10, <1>11, FromLeast
<1>13. D \subseteq From(h, {c})
  <2>1. {m} \subseteq From(h, {c})
    BY <1>1, FromCloses
  <2> QED
    BY <1>1, <1>2, <2>1, FromGrows
<1> QED
  BY <1>2, <1>4, <1>5, <1>8, <1>12, <1>13

\* The first of a key in a list is there, if one has the key.
LEMMA FirstFoundIs ==
  ASSUME NEW h \in Heaps, Linked(h), NEW p \in Nodes, NEW k, Found(h, p, k) # {}
  PROVE  FirstFound(h, p, k) \in Found(h, p, k)
<1> DEFINE First(x) == UpTo(h, x) \intersect Found(h, p, k) = {x}
           T == {c \in Nodes : UpTo(h, c) \intersect Found(h, p, k) = {} \/ \E x \in Found(h, p, k) : First(x)}
<1>1. PICK y : y \in Found(h, p, k)
  OBVIOUS
<1>2. Found(h, p, k) \subseteq Children(h, p) /\ Children(h, p) \subseteq Nodes
  BY ChildrenClose DEF Found
<1>3. h[p].child # Null => h[p].child \in T
  <2>1. PICK c : c = h[p].child
    OBVIOUS
  <2>2. ASSUME c # Null PROVE c \in T
    <3>1. c \in Nodes /\ h[c].prev = Null
      BY <2>1, <2>2 DEF Linked, LiveIn
    <3>2. UpTo(h, c) \subseteq {c}
      BY <3>1, UpToLeast
    <3>3. c \in UpTo(h, c)
      BY <3>1, UpToCloses
    <3> QED
      BY <3>1, <3>2, <3>3
  <2> QED
    BY <2>1, <2>2
<1>4. ASSUME NEW n \in T \intersect Children(h, p), h[n].next # Null PROVE h[n].next \in T
  <2>1. PICK c : c = h[n].next
    OBVIOUS
  <2>2. c \in Nodes /\ h[c].prev = n /\ n \in Nodes
    BY <1>2, <1>4, <2>1 DEF Linked, LiveIn
  <2>3. UpTo(h, c) \subseteq {c} \union UpTo(h, n)
    <3>1. PICK U : U = {c} \union UpTo(h, n)
      OBVIOUS
    <3>2. \A m \in U : h[m].prev # Null => h[m].prev \in U
      BY <2>2, <3>1, UpToCloses
    <3>3. UpTo(h, c) \subseteq U
      BY <2>2, <3>1, <3>2, UpToLeast
    <3> QED
      BY <3>1, <3>3
  <2>4. c \in UpTo(h, c)
    BY <2>2, UpToCloses
  <2>5. CASE \E x \in Found(h, p, k) : First(x)
    BY <2>1, <2>2, <2>5
  <2>6. CASE UpTo(h, n) \intersect Found(h, p, k) = {}
    BY <2>1, <2>2, <2>3, <2>4, <2>6
  <2> QED
    BY <2>5, <2>6
<1> HIDE DEF T
<1>5. Children(h, p) \subseteq T
  BY <1>3, <1>4, ChildrenLeast
<1>6. y \in UpTo(h, y)
  BY <1>1, <1>2, UpToCloses
<1>7. \E x \in Found(h, p, k) : First(x)
  BY <1>1, <1>2, <1>5, <1>6 DEF T
<1> QED
  BY <1>7 DEF FirstFound, UpTo

\* A list has nobody that is below one of it.
LEMMA ListNotBelow ==
  ASSUME NEW h \in Heaps, NEW O, Trees(h, O), NEW p \in Nodes, NEW c \in Children(h, p)
  PROVE  p \notin Below(h, c) /\ Children(h, p) \intersect Below(h, c) = {c}
<1>1. /\ c \in Nodes /\ c \in LiveIn(h) /\ p # c /\ h[p].child # Null /\ h[p].child \in Nodes
      /\ Linked(h) /\ {c} \in SUBSET Nodes
  <2>1. Linked(h)
    BY TreesAre
  <2>2. c \in Nodes /\ c \in LiveIn(h) /\ p # c
    BY ChildHas
  <2>3. h[p].child # Null
    BY <2>1, ChildrenAre
  <2>4. h[p].child \in Nodes
    BY <2>1, <2>3 DEF Linked, LiveIn
  <2> QED
    BY <2>1, <2>2, <2>3, <2>4
<1>2. PICK S : S = {h[c].child} \ {Null}
  OBVIOUS
<1>3. S \in SUBSET Nodes
  <2>1. h[c].child \in Ptrs
    BY <1>1, CellsAre
  <2> QED
    BY <1>2, <2>1 DEF Ptrs
<1>4. Below(h, c) = {c} \union From(h, S)
  BY <1>2 DEF Below, From
<1>5. p \notin Below(h, c)
  BY <1>1, ParentAbove, BelowIs
<1>6. PICK T : T = Nodes \ From(h, S)
  OBVIOUS
<1>7. h[p].child \in T
  <2>1. PICK d : d = h[p].child
    OBVIOUS
  <2>2. d \in Nodes /\ d # Null
    BY <1>1, <2>1
  <2>3. d \notin S
    BY <1>1, <1>2, <2>1, <2>2 DEF Linked
  <2>4. d \notin From(h, S)
    BY <1>1, <1>3, <1>4, <1>5, <2>1, <2>3, FromSource
  <2> QED
    BY <1>6, <2>1, <2>2, <2>4
<1>8. ASSUME NEW n \in T \intersect Children(h, p), h[n].next # Null PROVE h[n].next \in T
  <2>1. PICK d : d = h[n].next
    OBVIOUS
  <2>2. n \in Nodes /\ n # Null
    BY <1>6, <1>8, NodesAre
  <2>3. d \in Nodes /\ h[d].prev = n
    BY <1>1, <1>8, <2>1, <2>2 DEF Linked, LiveIn
  <2>4. d \notin S
    BY <1>1, <1>2, <2>2, <2>3 DEF Linked
  <2>5. d \notin From(h, S)
    BY <1>1, <1>3, <1>6, <1>8, <2>1, <2>2, <2>4, FromSource
  <2> QED
    BY <1>6, <2>1, <2>3, <2>5
<1>9. Children(h, p) \subseteq T
  BY <1>7, <1>8, ChildrenLeast
<1> QED
  BY <1>4, <1>5, <1>6, <1>9

(***************************************************************************)
(* cJSONUtils_MergePatch()                                                 *)
(***************************************************************************)
\* What a merge leaves: the patch, which is the nodes W.
Stays(g, h, W) == \A m \in W : Same(g, h, m)
StaysFresh(g, h, C) == \A m \in Nodes \ C : h[m].t = "fresh" => g[m].t = "fresh"
\* ... apart from what is below the target.
Apart(h, W, base) == W \intersect Below(h, base) = {}

\* Of two nodes that are not below each other nothing else is.
LEMMA BelowApart ==
  ASSUME NEW h \in Heaps, NEW O, Trees(h, O), NEW a \in LiveIn(h), NEW b \in LiveIn(h),
         a \notin Below(h, b), b \notin Below(h, a)
  PROVE  Apart(h, Below(h, a), b)
<1>1. a \in Nodes /\ b \in Nodes /\ a # b /\ Linked(h)
  <2>1. a \in Nodes /\ b \in Nodes /\ Linked(h)
    BY TreesAre
  <2>2. a \in Below(h, a)
    BY <2>1, BelowCloses
  <2> QED
    BY <2>1, <2>2
<1>2. PICK S, T, C : /\ S = {h[a].child} \ {Null} /\ T = {h[b].child} \ {Null}
                     /\ C = From(h, S) \ From(h, T)
  OBVIOUS
<1>3. S \in SUBSET Nodes /\ T \in SUBSET Nodes
  BY <1>1, <1>2, CellsAre DEF Ptrs
<1>4. Below(h, a) = {a} \union From(h, S) /\ Below(h, b) = {b} \union From(h, T)
  BY <1>2 DEF Below, From
<1>5. /\ S \subseteq From(h, S) /\ From(h, S) \subseteq Nodes
      /\ \A n \in From(h, S) : /\ h[n].next # Null => h[n].next \in From(h, S)
                               /\ h[n].child # Null => h[n].child \in From(h, S)
  BY <1>3, FromCloses
<1>6. ASSUME NEW n \in Nodes, n \notin From(h, T), n # b, NEW m \in Nodes, m = h[n].next \/ m = h[n].child
      PROVE  m \notin From(h, T)
  <2>1. m \notin T
    <3>1. SUFFICES ASSUME m \in T PROVE FALSE
      OBVIOUS
    <3>2. m = h[b].child
      BY <1>2, <3>1
    <3>3. h[m].prev = Null /\ m # Null
      BY <1>1, <3>2, LinkJoins
    <3>4. m # h[n].next
      BY <1>1, <3>3, LinkJoins
    <3> QED
      BY <1>1, <1>6, <3>2, <3>3, <3>4 DEF Linked
  <2> QED
    BY <1>1, <1>3, <1>6, <2>1, FromSource
<1>7. S \subseteq C
  <2>1. \A m \in S : m \in Nodes /\ m = h[a].child
    BY <1>2, <1>3
  <2>2. a \notin From(h, T)
    BY <1>4
  <2>3. \A m \in S : m \notin From(h, T)
    BY <1>1, <1>6, <2>1, <2>2
  <2> QED
    BY <1>2, <1>5, <2>3
<1>8. \A n \in C : /\ h[n].next # Null => h[n].next \in C
                   /\ h[n].child # Null => h[n].child \in C
  <2>1. \A n \in C : n \in Nodes /\ n \notin From(h, T) /\ n # b /\ n \in From(h, S)
    BY <1>2, <1>4, <1>5
  <2> QED
    BY <1>2, <1>5, <1>6, <2>1
<1>9. From(h, S) \subseteq C
  BY <1>3, <1>7, <1>8, FromLeast
<1> QED
  BY <1>1, <1>2, <1>4, <1>9 DEF Apart

\* The heap g after a part of the merge into base
Merging(g, h, O, base, W) ==
  g \in Heaps /\ Trees(g, O) /\ Lasts(g, h) /\ base \in LiveIn(g) /\ Stays(g, h, W) /\ Apart(g, W, base)

LEMMA MergingAgain ==
  ASSUME NEW h, NEW g, NEW e, NEW O, NEW base, NEW W, Merging(g, h, O, base, W), Merging(e, g, O, base, W)
  PROVE  Merging(e, h, O, base, W)
BY DEF Merging, Lasts, Stays, Same, SameItem

\* A child is detached and deleted.
LEMMA ForestDropsChild ==
  ASSUME NEW h \in Heaps, NEW O, Trees(h, O), NEW base \in LiveIn(h), NEW x \in Children(h, base)
  PROVE  /\ StaysFresh(Delete(DetachItem(h, base, x), x), h, {})
         /\ \A W \in SUBSET Nodes :
              Apart(h, W, base) => Merging(Delete(DetachItem(h, base, x), x), h, O, base, W)
<1>1. PICK d, g, P : d = DetachItem(h, base, x) /\ g = Delete(d, x) /\ P = O \union {x}
  OBVIOUS
<1>2. base \in Nodes /\ O \in SUBSET Nodes /\ x \in Nodes /\ x \notin O /\ {x} \in SUBSET Nodes
  BY TreesAre, ChildHas DEF LiveIn
<1>3. d \in Heaps /\ Trees(d, P) /\ (\A m \in Nodes : SameItem(d, h, m)) /\ Detached(d, h, base, x)
  BY <1>1, <1>2, ForestDetaches, DetachWrites
<1>4. LiveIn(d) = LiveIn(h) /\ Lasts(d, h)
  BY <1>3, KeptLive
<1>5. PICK F : F = From(d, {x})
  OBVIOUS
<1>6. g \in Heaps /\ Trees(g, O) /\ Lasts(g, d) /\ F \subseteq LiveIn(d)
      /\ (\A n \in Nodes \ F : g[n] = d[n]) /\ \A n \in F : g[n] = Freed
  <2>1. x \in P /\ P \ {x} = O
    BY <1>1, <1>2
  <2> QED
    <3>1. /\ g \in Heaps /\ Trees(g, P \ {x}) /\ Lasts(g, d) /\ Frees(g, d, x)
          /\ From(d, {x}) \subseteq LiveIn(d)
      BY <1>1, <1>3, <2>1, TreesDelete
    <3> QED
      BY <1>5, <2>1, <3>1 DEF Frees
<1>7. Lasts(g, h)
  BY <1>4, <1>6 DEF Lasts
<1>8. StaysFresh(g, h, {})
  BY <1>3, <1>6 DEF StaysFresh, SameItem, LiveIn, Kinds
<1>9. PICK B, prev, next : B = Below(h, base) /\ prev = h[x].prev /\ next = h[x].next
  OBVIOUS
<1>10. /\ base \in B /\ B \subseteq Nodes /\ Children(h, base) \subseteq B
       /\ h[base].child # Null => h[base].child \in B \ {base}
       /\ \A n \in B \ {base} : /\ h[n].next # Null => h[n].next \in B \ {base}
                                /\ h[n].child # Null => h[n].child \in B \ {base}
  BY <1>2, <1>9, BelowAre, BelowCloses
<1>11. /\ x \in B \ {base} /\ (prev # Null => prev \in B) /\ (next # Null => next \in B \ {base})
       /\ base # prev
  <2>1. Linked(h) /\ x # base /\ (prev # Null => prev \in Children(h, base)) /\ base # Null
    BY <1>2, <1>9, TreesAre, ChildHas, NodesAre
  <2>2. base # prev
    <3>1. prev # Null => prev # base
      BY <1>2, <2>1, ChildHas
    <3> QED
      BY <2>1, <3>1
  <2> QED
    BY <1>9, <1>10, <2>1, <2>2
<1>12. \A m \in Nodes :
         /\ d[m].next = IF m = x THEN Null ELSE IF m = prev THEN next ELSE h[m].next
         /\ d[m].prev = IF m = x THEN Null ELSE IF m = next THEN prev ELSE h[m].prev
         /\ d[m].child = IF m = base /\ h[base].child = x THEN next ELSE h[m].child
  BY <1>3, <1>9 DEF Detached
<1>13. F \subseteq B \ {base}
  <2>1. PICK T : T = B \ {base}
    OBVIOUS
  <2>2. {x} \subseteq T /\ T \subseteq Nodes
    BY <1>10, <1>11, <2>1
  <2>3. \A n \in T : /\ d[n].next # Null => d[n].next \in T
                     /\ d[n].child # Null => d[n].child \in T
    BY <1>10, <1>11, <1>12, <2>1
  <2>4. F \subseteq T
    BY <1>2, <1>3, <1>5, <2>2, <2>3, FromLeast
  <2> QED
    BY <2>1, <2>4
<1>14. base \in LiveIn(g)
  BY <1>2, <1>4, <1>6, <1>13 DEF LiveIn
<1>15. Below(g, base) \subseteq B
  <2>1. PICK T : T = B \ {base}
    OBVIOUS
  <2>2. Freed.next = Null /\ Freed.child = Null
    BY DeadAre
  <2>3. \A n \in T : /\ g[n].next # Null => g[n].next \in T
                     /\ g[n].child # Null => g[n].child \in T
    BY <1>6, <1>10, <1>11, <1>12, <2>1, <2>2
  <2>4. g[base].child # Null => g[base].child \in T
    BY <1>2, <1>6, <1>10, <1>11, <1>12, <1>13, <2>1
  <2>5. Below(g, base) \subseteq {base} \union T
    BY <1>2, <1>6, <2>3, <2>4, BelowLeast
  <2> QED
    BY <1>10, <2>1, <2>5
<1>16. ASSUME NEW W \in SUBSET Nodes, Apart(h, W, base) PROVE Merging(g, h, O, base, W)
  <2>1. W \intersect B = {}
    BY <1>9, <1>16 DEF Apart
  <2>2. \A m \in W : m \in Nodes /\ m # x /\ m # base /\ (m = prev => m = Null) /\ (m = next => m = Null)
    BY <1>10, <1>11, <2>1
  <2>3. \A m \in W : Same(d, h, m)
    BY <1>3, <1>12, <2>2, NodesAre DEF Same
  <2>4. \A m \in W : g[m] = d[m]
    BY <1>6, <1>13, <2>1, <2>2
  <2>5. Stays(g, h, W)
    BY <2>3, <2>4 DEF Stays, Same, SameItem
  <2>6. Apart(g, W, base)
    BY <1>15, <2>1 DEF Apart
  <2> QED
    BY <1>6, <1>7, <1>14, <2>5, <2>6 DEF Merging
<1> QED
  BY <1>1, <1>8, <1>16

\* One member of the patch
Fitting(h, c, f) == h[c].t # "null" => Fits(h, Below(h, c), f)
Written(h, c, f) == IF h[c].t = "null" THEN {} ELSE {f[a] : a \in Below(h, c)}

\* One member of a merge patch: only what is below base changes.
LEMMA ForestMerges ==
  ASSUME NEW h \in Heaps, NEW O, Trees(h, O), NEW base \in LiveIn(h), NEW c \in LiveIn(h), NEW f,
         NEW W \in SUBSET LiveIn(h), Below(h, c) \subseteq W, Apart(h, W, base), Fitting(h, c, f)
  PROVE  /\ Merging(MergeMember(h, base, c, f), h, O, base, W)
         /\ StaysFresh(MergeMember(h, base, c, f), h, Written(h, c, f))
<1>1. PICK old, w, e : /\ old = FirstFound(h, base, h[c].key)
                       /\ w = IF Found(h, base, h[c].key) = {} THEN h
                              ELSE Delete(DetachItem(h, base, old), old)
                       /\ e = IF h[c].t = "null" THEN w
                              ELSE AddItemToObject(Duplicate(w, c, f), base, h[c].key, f[c])
  OBVIOUS
<1>2. e = MergeMember(h, base, c, f)
  BY <1>1 DEF MergeMember
<1>3. O \in SUBSET Nodes /\ base \in Nodes /\ Linked(h) /\ LiveIn(h) \subseteq Nodes /\ W \in SUBSET Nodes
  BY TreesAre
<1>4. Merging(w, h, O, base, W) /\ StaysFresh(w, h, {})
  <2>1. CASE Found(h, base, h[c].key) = {}
    <3>1. w = h
      BY <1>1, <2>1
    <3> QED
      BY <3>1 DEF Merging, Stays, Same, SameItem, Lasts, StaysFresh
  <2>2. CASE Found(h, base, h[c].key) # {}
    <3>1. w = Delete(DetachItem(h, base, old), old)
      BY <1>1, <2>2
    <3>2. old \in Found(h, base, h[c].key)
      BY <1>1, <1>3, <2>2, FirstFoundIs
    <3>3. old \in Children(h, base)
      BY <3>2 DEF Found
    <3> QED
      BY <1>3, <3>1, <3>3, ForestDropsChild
  <2> QED
    BY <2>1, <2>2
<1>5. /\ w \in Heaps /\ Trees(w, O) /\ Lasts(w, h) /\ base \in LiveIn(w)
      /\ (\A m \in W : Same(w, h, m)) /\ Apart(w, W, base)
  BY <1>4 DEF Merging, Stays
<1>6. c \in Nodes /\ c \in W /\ W \subseteq LiveIn(w) /\ Below(w, c) = Below(h, c)
  <2>1. c \in Nodes /\ c \in Below(h, c)
    BY <1>3, BelowCloses
  <2>2. W \subseteq LiveIn(w)
    BY <1>3, <1>5 DEF LiveIn, Same, SameItem
  <2>3. Below(w, c) = Below(h, c)
    BY <1>5, <2>1, BelowSame
  <2> QED
    BY <2>1, <2>2, <2>3
<1>7. CASE h[c].t = "null"
  BY <1>1, <1>2, <1>4, <1>7 DEF Written
<1>8. CASE h[c].t # "null"
  <2>1. PICK d, B, r, P, k : /\ d = Duplicate(w, c, f) /\ B = Below(w, c) /\ r = f[c] /\ P = O \union {r}
                             /\ k = h[c].key
    OBVIOUS
  <2>2. Fits(w, B, f)
    <3>1. \A m \in FreshNodes(h) : m \in FreshNodes(w)
      BY <1>4 DEF StaysFresh, FreshNodes
    <3> QED
      BY <1>6, <1>8, <2>1, <3>1 DEF Fits, Fitting
  <2>3. /\ d \in Heaps /\ Trees(d, P)
        /\ r \in Nodes /\ r \notin LiveIn(w)
        /\ Aside(d, w, r) /\ Writes(d, w, {f[a] : a \in B})
        /\ Lasts(d, w)
    <3>1. Fits(w, Below(w, c), f) /\ c \in LiveIn(w)
      BY <1>6, <2>1, <2>2
    <3>2. /\ d \in Heaps /\ Trees(d, O \union {f[c]})
          /\ f[c] \in Nodes /\ f[c] \notin LiveIn(w)
          /\ Aside(d, w, f[c]) /\ Writes(d, w, {f[a] : a \in Below(w, c)})
          /\ Lasts(d, w)
      BY <1>5, <2>1, <3>1, ForestCopies
    <3> QED
      BY <2>1, <3>2
  <2>4. base \in LiveIn(d) /\ base \notin From(d, {r})
    BY <1>3, <1>5, <2>3 DEF LiveIn, Aside
  <2>5. k \in Keys \union {""} /\ r \in P /\ P \ {r} = O /\ e = AddItemToObject(d, base, k, r)
    <3>1. O \subseteq LiveIn(w)
      BY <1>5, TreesAre
    <3> QED
      BY <1>1, <1>6, <1>8, <2>1, <2>3, <3>1, CellsAre
  <2>6. e \in Heaps /\ Trees(e, O) /\ SameTypes(e, d) /\ Grows(e, d, base, r)
    BY <2>3, <2>4, <2>5, ForestAddsKeyed
  <2>7. Below(d, base) = Below(w, base)
    <3>1. \A m \in Below(w, base) : m \in LiveIn(w)
      BY <1>5, BelowAre
    <3>2. \A m \in Below(w, base) : Same(d, w, m)
      BY <2>3, <3>1 DEF Aside, Same, SameItem
    <3> QED
      BY <1>3, <1>5, <2>3, <3>2, BelowSame
  <2>8. Stays(e, w, W)
    <3>1. ASSUME NEW m \in W PROVE Same(e, w, m)
      <4>1. m \in Nodes /\ m # r /\ m \notin Below(d, base) /\ d[m] = w[m]
        BY <1>3, <1>5, <1>6, <2>3, <2>7 DEF Apart, Aside
      <4>2. Same(e, d, m)
        BY <2>6, <4>1 DEF Grows
      <4> QED
        BY <4>1, <4>2 DEF Same, SameItem
    <3> QED
      BY <3>1 DEF Stays
  <2>9. Apart(e, W, base)
    <3>1. W \intersect From(d, {r}) = {}
      BY <1>6, <2>3 DEF Aside
    <3> QED
      BY <1>5, <2>6, <2>7, <3>1 DEF Apart, Grows
  <2>10. base \in LiveIn(e) /\ Lasts(e, w)
    BY <1>3, <2>3, <2>4, <2>6 DEF LiveIn, Lasts, AdriftIn, SameTypes
  <2>11. Merging(e, h, O, base, W)
    <3>1. Merging(e, w, O, base, W)
      BY <2>6, <2>8, <2>9, <2>10 DEF Merging
    <3> QED
      BY <1>4, <3>1, MergingAgain
  <2>12. StaysFresh(e, h, {f[a] : a \in B})
    BY <1>4, <2>3, <2>6 DEF StaysFresh, Writes, SameTypes
  <2> QED
    BY <1>2, <1>6, <1>8, <2>1, <2>11, <2>12 DEF Written
<1> QED
  BY <1>7, <1>8

\* Of the subsets of a finite set, some of a kind are least.
LEMMA LeastSet ==
  ASSUME NEW S, IsFiniteSet(S), NEW T \in SUBSET SUBSET S, T # {}
  PROVE  \E A \in T : \A B \in T : B \subseteq A => B = A
<1> DEFINE R == StrictSubsetOrdering(S)
           F == FiniteSubsetsOf(S)
<1>1. IsWellFoundedOn(R, F)
  BY FS_StrictSubsetOrderingWellFounded
<1>2. T \subseteq F
  BY FS_Subset DEF FiniteSubsetsOf
<1> HIDE DEF R, F
<1>3. \E A \in T : \A B \in T : ~(<<B, A>> \in R)
  BY <1>1, <1>2, WFMin
<1>4. ASSUME NEW A \in T, NEW B \in T, B \subseteq A, B # A PROVE <<B, A>> \in R
  BY <1>4 DEF R, StrictSubsetOrdering
<1> QED
  BY <1>3, <1>4

\* The heaps after each member of the patch: c's is made of the one before it.
After(h, base, f, g, c) == MergeMember(IF h[c].prev = Null THEN h ELSE g[h[c].prev], base, c, f)
AreMerged(h, base, patch, f, g) == g = [c \in Children(h, patch) |-> After(h, base, f, g, c)]

\* The heaps after each member: the list has no cycle, so there is such a
\* function.
LEMMA MergedExists ==
  ASSUME NEW h \in Heaps, Linked(h), NEW base, NEW patch \in Nodes, NEW f
  PROVE  \E g : AreMerged(h, base, patch, f, g)
<1> DEFINE K == Children(h, patch)
           Good(D) == /\ \A d \in D : h[d].prev = Null \/ h[d].prev \in D
                      /\ \E g : /\ g = [c \in K |-> g[c]]
                                /\ \A d \in D : g[d] = After(h, base, f, g, d)
           T == {K \ D : D \in {D \in SUBSET K : Good(D)}}
<1>1. K \subseteq Nodes /\ IsFiniteSet(K)
  BY ChildrenClose, NodesAre, FS_Subset
<1>2. K \ {} \in T
  <2>1. Good({})
    <3>1. PICK g : g = [c \in K |-> h]
      OBVIOUS
    <3>2. g = [c \in K |-> g[c]]
      BY <3>1
    <3> QED
      BY <3>2
  <2> HIDE DEF Good
  <2> QED
    BY <2>1
<1>3. T \in SUBSET SUBSET K
  OBVIOUS
<1>4. PICK A \in T : \A B \in T : B \subseteq A => B = A
  <2> HIDE DEF T, K
  <2> QED
    BY <1>1, <1>2, <1>3, LeastSet
<1>5. PICK D \in SUBSET K : A = K \ D /\ Good(D)
  <2> HIDE DEF Good
  <2> QED
    BY <1>4
<1>6. PICK g : g = [c \in K |-> g[c]] /\ \A d \in D : g[d] = After(h, base, f, g, d)
  BY <1>5
<1>7. K \subseteq D
  <2>1. SUFFICES ASSUME ~(K \subseteq D) PROVE FALSE
    OBVIOUS
  <2>2. PICK c \in K : c \notin D /\ (h[c].prev = Null \/ h[c].prev \in D)
    <3>1. SUFFICES ASSUME \A c \in K : h[c].prev = Null \/ h[c].prev \in D => c \in D PROVE FALSE
      OBVIOUS
    <3>2. h[patch].child # Null => h[patch].child \in D
      <4>1. h[patch].child # Null => h[patch].child \in K /\ h[h[patch].child].prev = Null
        BY ChildrenClose DEF Linked
      <4> QED
        BY <3>1, <4>1
    <3>3. \A n \in D \intersect K : h[n].next # Null => h[n].next \in D
      <4>1. \A n \in K : h[n].next # Null => h[n].next \in K /\ h[h[n].next].prev = n
        BY <1>1, ChildrenClose DEF Linked
      <4> HIDE DEF K
      <4> QED
        BY <3>1, <4>1
    <3>4. K \subseteq D
      BY <3>2, <3>3, ChildrenLeast
    <3> QED
      BY <2>1, <3>4
  <2>3. PICK E, k : E = D \union {c} /\ k = [d \in K |-> IF d = c THEN After(h, base, f, g, c) ELSE g[d]]
    OBVIOUS
  <2> HIDE DEF K
  <2>4. \A d \in E : h[d].prev = Null \/ h[d].prev \in D
    BY <1>5, <2>2, <2>3
  <2>5. \A d \in D : k[d] = g[d]
    BY <1>5, <2>2, <2>3
  <2>6. \A d \in E : After(h, base, f, k, d) = After(h, base, f, g, d)
    BY <2>4, <2>5 DEF After
  <2>7. \A d \in E : k[d] = After(h, base, f, k, d)
    BY <1>6, <2>2, <2>3, <2>5, <2>6
  <2>8. k = [d \in K |-> k[d]]
    BY <2>3
  <2>9. Good(E)
    BY <2>3, <2>4, <2>7, <2>8
  <2>10. E \in SUBSET K
    BY <2>2, <2>3
  <2> HIDE DEF Good
  <2>11. K \ E \in T
    BY <2>9, <2>10
  <2> HIDE DEF T
  <2> QED
    BY <1>4, <1>5, <2>2, <2>3, <2>11
<1>8. AreMerged(h, base, patch, f, g)
  <2>1. \A c \in K : g[c] = After(h, base, f, g, c)
    BY <1>6, <1>7
  <2>2. g = [c \in K |-> After(h, base, f, g, c)]
    BY <1>6, <2>1
  <2> QED
    BY <2>2 DEF AreMerged
<1> QED
  BY <1>8

\* What MergeMembers returns is the heap after the last member.
LEMMA MergeMembersIs ==
  ASSUME NEW h \in Heaps, Linked(h), NEW base, NEW patch \in Nodes, NEW f, h[patch].child # Null
  PROVE  \E g : /\ \A c \in Children(h, patch) : g[c] = After(h, base, f, g, c)
                /\ MergeMembers(h, base, patch, f) = g[LastChild(h, patch)]
<1> DEFINE g == CHOOSE g : AreMerged(h, base, patch, f, g)
<1>1. AreMerged(h, base, patch, f, g)
  BY MergedExists
<1>2. MergeMembers(h, base, patch, f) = g[LastChild(h, patch)]
  BY DEF MergeMembers, AreMerged, After
<1> HIDE DEF g
<1>3. \A c \in Children(h, patch) : g[c] = After(h, base, f, g, c)
  BY <1>1 DEF AreMerged
<1> QED
  BY <1>2, <1>3

\* What is copied of the members of a patch
Members(h, patch) == UNION {Below(h, c) : c \in {c \in Children(h, patch) : h[c].t # "null"}}
\* Of the members from c on nothing is copied yet.
Waiting(g, h, patch, f, c) == \A a \in Members(h, patch) \intersect From(h, {c}) : g[f[a]].t = "fresh"

\* What is below a node that is below p is below p.
LEMMA BelowGrows ==
  ASSUME NEW h \in Heaps, NEW p \in Nodes, NEW c \in Below(h, p), c # p
  PROVE  From(h, {c}) \subseteq Below(h, p) /\ Below(h, c) \subseteq Below(h, p)
<1>1. PICK S : S = {h[p].child} \ {Null}
  OBVIOUS
<1>2. S \in SUBSET Nodes
  BY <1>1, CellsAre DEF Ptrs
<1>3. Below(h, p) = {p} \union From(h, S) /\ c \in Nodes
  BY <1>1, BelowCloses DEF Below, From
<1>4. {c} \in SUBSET Nodes /\ {c} \subseteq From(h, S)
  BY <1>3
<1>5. From(h, {c}) \subseteq From(h, S)
  BY <1>2, <1>4, FromGrows
<1> QED
  BY <1>3, <1>5, BelowIs

\* A child of p is below it and is not p.
LEMMA ChildBelow ==
  ASSUME NEW h \in Heaps, NEW O, Trees(h, O), NEW p \in Nodes, NEW c \in Children(h, p)
  PROVE  /\ c \in Nodes /\ c \in LiveIn(h) /\ c # p /\ c \in Below(h, p) /\ c \in Below(h, c)
         /\ Below(h, c) \subseteq Below(h, p)
<1>1. c \in Nodes /\ c \in LiveIn(h) /\ c # p
  BY ChildHas
<1>2. c \in Below(h, p) /\ c \in Below(h, c)
  BY <1>1, BelowCloses
<1> QED
  BY <1>1, <1>2, BelowGrows

\* A member is merged, and the places of those after it are still fresh.
LEMMA MergesNext ==
  ASSUME NEW h \in Heaps, NEW O, Trees(h, O), NEW base, NEW patch \in LiveIn(h), NEW f,
         Fits(h, Members(h, patch), f), NEW c \in Children(h, patch), NEW W, W = Below(h, patch),
         NEW g, Merging(g, h, O, base, W), Waiting(g, h, patch, f, c)
  PROVE  /\ Merging(MergeMember(g, base, c, f), h, O, base, W)
         /\ h[c].next # Null => Waiting(MergeMember(g, base, c, f), h, patch, f, h[c].next)
<1>1. PICK e, D, B : e = MergeMember(g, base, c, f) /\ D = Members(h, patch) /\ B = Below(h, c)
  OBVIOUS
<1>2. /\ g \in Heaps /\ Trees(g, O) /\ base \in LiveIn(g) /\ Apart(g, W, base)
      /\ \A m \in W : Same(g, h, m)
  BY DEF Merging, Stays
<1>3. patch \in Nodes /\ Linked(h) /\ W \subseteq LiveIn(h) /\ LiveIn(h) \subseteq Nodes
  BY TreesAre, BelowAre
<1>4. c \in LiveIn(h) /\ c \in Nodes /\ c \in W /\ B \subseteq W
  BY <1>1, <1>3, ChildBelow
<1>5. W \in SUBSET LiveIn(g)
  BY <1>2, <1>3 DEF LiveIn, Same, SameItem
<1>6. Below(g, c) = B
  BY <1>1, <1>2, <1>4, BelowSame
<1>7. g[c].t = h[c].t
  BY <1>2, <1>4 DEF Same, SameItem
<1>8. h[c].t # "null" => B \subseteq D
  BY <1>1 DEF Members
<1>9. B \subseteq From(h, {c})
  BY <1>1, <1>4, BelowIs
<1>10. /\ \A a \in D : f[a] \in Nodes
       /\ \A a, b \in D : f[a] = f[b] => a = b
       /\ \A a \in D \intersect From(h, {c}) : g[f[a]].t = "fresh"
  BY <1>1 DEF Fits, FreshNodes, Waiting
<1>11. Fitting(g, c, f)
  BY <1>6, <1>7, <1>8, <1>9, <1>10 DEF Fits, FreshNodes, Fitting
<1>12. Merging(e, g, O, base, W) /\ StaysFresh(e, g, Written(g, c, f))
  <2>1. c \in LiveIn(g) /\ Below(g, c) \subseteq W
    BY <1>4, <1>5, <1>6
  <2> QED
    BY <1>1, <1>2, <1>5, <1>11, <2>1, ForestMerges
<1>13. Merging(e, h, O, base, W)
  BY <1>12, MergingAgain
<1>14. ASSUME h[c].next # Null PROVE Waiting(e, h, patch, f, h[c].next)
  <2>1. PICK m : m = h[c].next
    OBVIOUS
  <2>2. m \in Nodes
    BY <1>3, <1>4, <1>14, <2>1 DEF Linked, LiveIn
  <2>3. B \intersect From(h, {m}) = {} /\ From(h, {m}) \subseteq From(h, {c})
    BY <1>1, <1>4, <2>1, <2>2, SiblingsApart
  <2>4. ASSUME NEW a \in D, a \in From(h, {m}) PROVE e[f[a]].t = "fresh"
    <3>1. f[a] \in Nodes /\ g[f[a]].t = "fresh"
      BY <1>10, <2>3, <2>4
    <3>2. g[c].t # "null" => f[a] \notin {f[b] : b \in B}
      BY <1>7, <1>8, <1>10, <2>3, <2>4
    <3> QED
      BY <1>6, <1>12, <3>1, <3>2 DEF StaysFresh, Written
  <2> QED
    BY <1>1, <2>1, <2>4 DEF Waiting
<1> QED
  BY <1>1, <1>13, <1>14

\* All members of a merge patch
LEMMA ForestMergesAll ==
  ASSUME NEW h \in Heaps, NEW O, Trees(h, O), NEW base \in LiveIn(h), NEW patch \in LiveIn(h), NEW f,
         Fits(h, Members(h, patch), f), NEW W, W = Below(h, patch), Apart(h, W, base)
  PROVE  Merging(MergeMembers(h, base, patch, f), h, O, base, W)
<1>1. patch \in Nodes /\ Linked(h)
  BY TreesAre
<1>2. Merging(h, h, O, base, W)
  BY DEF Merging, Stays, Same, SameItem, Lasts
<1>3. CASE h[patch].child = Null
  <2>1. MergeMembers(h, base, patch, f) = h
    BY <1>3 DEF MergeMembers
  <2> QED
    BY <1>2, <2>1
<1>4. CASE h[patch].child # Null
  <2>1. PICK g : /\ \A c \in Children(h, patch) : g[c] = After(h, base, f, g, c)
                 /\ MergeMembers(h, base, patch, f) = g[LastChild(h, patch)]
    BY <1>1, <1>4, MergeMembersIs
  <2> DEFINE T == {c \in Nodes : /\ Merging(g[c], h, O, base, W)
                                 /\ h[c].next # Null => Waiting(g[c], h, patch, f, h[c].next)}
  <2>2. Children(h, patch) \subseteq Nodes /\ h[patch].child \in Children(h, patch)
    BY <1>1, <1>4, ChildrenClose
  <2>3. h[patch].child \in T
    <3>1. PICK c : c = h[patch].child
      OBVIOUS
    <3>2. c \in Children(h, patch) /\ c \in Nodes /\ h[c].prev = Null
      BY <1>1, <1>4, <2>2, <3>1 DEF Linked
    <3>3. Waiting(h, h, patch, f, c)
      BY DEF Waiting, Fits, FreshNodes
    <3>4. g[c] = MergeMember(h, base, c, f)
      BY <2>1, <3>2 DEF After
    <3>5. /\ Merging(g[c], h, O, base, W)
          /\ h[c].next # Null => Waiting(g[c], h, patch, f, h[c].next)
      BY <1>2, <3>2, <3>3, <3>4, MergesNext
    <3> QED
      BY <3>1, <3>2, <3>5
  <2>4. ASSUME NEW n \in T \intersect Children(h, patch), h[n].next # Null PROVE h[n].next \in T
    <3>1. PICK c : c = h[n].next
      OBVIOUS
    <3>2. n \in Nodes /\ n # Null
      BY NodesAre
    <3>3. c \in Children(h, patch) /\ c \in Nodes /\ h[c].prev = n
      BY <1>1, <2>2, <2>4, <3>1, <3>2, ChildrenClose DEF Linked
    <3>4. Merging(g[n], h, O, base, W) /\ Waiting(g[n], h, patch, f, c)
      BY <2>4, <3>1
    <3>5. g[c] = MergeMember(g[n], base, c, f)
      BY <2>1, <3>2, <3>3 DEF After
    <3>6. /\ Merging(g[c], h, O, base, W)
          /\ h[c].next # Null => Waiting(g[c], h, patch, f, h[c].next)
      <4>1. PICK k : k = g[n]
        OBVIOUS
      <4>2. /\ Merging(MergeMember(k, base, c, f), h, O, base, W)
            /\ h[c].next # Null => Waiting(MergeMember(k, base, c, f), h, patch, f, h[c].next)
        BY <3>3, <3>4, <4>1, MergesNext
      <4> QED
        BY <3>5, <4>1, <4>2
    <3> QED
      BY <3>1, <3>3, <3>6
  <2> HIDE DEF T
  <2>5. Children(h, patch) \subseteq T
    BY <1>1, <2>3, <2>4, ChildrenLeast
  <2>6. LastChild(h, patch) \in T
    BY <1>1, <1>4, <2>5, LastIs
  <2> QED
    BY <2>1, <2>6 DEF T
<1> QED
  BY <1>3, <1>4

\* The members of a patch depend only on what is below it.
LEMMA MembersSame ==
  ASSUME NEW h \in Heaps, NEW g \in Heaps, NEW O, Trees(h, O), NEW p \in Nodes,
         \A m \in Below(h, p) : Same(g, h, m)
  PROVE  Members(g, p) = Members(h, p)
<1>1. /\ Children(h, p) \subseteq Nodes /\ (h[p].child # Null => h[p].child \in Children(h, p))
      /\ \A n \in Children(h, p) : h[n].next # Null => h[n].next \in Children(h, p)
  BY ChildrenClose
<1>2. /\ Children(g, p) \subseteq Nodes /\ (g[p].child # Null => g[p].child \in Children(g, p))
      /\ \A n \in Children(g, p) : g[n].next # Null => g[n].next \in Children(g, p)
  BY ChildrenClose
<1>3. g[p].child = h[p].child /\ \A m \in Children(h, p) : g[m].next = h[m].next /\ g[m].t = h[m].t
  BY BelowCloses DEF Same, SameItem
<1>4. Children(g, p) \subseteq Children(h, p)
  BY <1>1, <1>3, ChildrenLeast
<1>5. Children(h, p) \subseteq Children(g, p)
  BY <1>2, <1>3, ChildrenLeast
<1>6. ASSUME NEW c \in Children(h, p) PROVE Below(g, c) = Below(h, c)
  <2>1. c \in Nodes /\ \A m \in Below(h, c) : Same(g, h, m)
    BY <1>6, ChildBelow
  <2> QED
    BY <2>1, BelowSame
<1> QED
  BY <1>3, <1>4, <1>5, <1>6 DEF Members

\* What is copied of the members is some of what Copied allots places to.
LEMMA MembersCopied ==
  ASSUME NEW h \in Heaps, NEW O, Trees(h, O), NEW target, NEW patch \in LiveIn(h), h[patch].t = "object"
  PROVE  /\ Members(h, patch) \subseteq Copied(h, target, patch)
         /\ patch \notin Members(h, patch)
         /\ h[target].t # "object" => patch \in Copied(h, target, patch)
<1>1. patch \in Nodes
  BY TreesAre
<1>2. ASSUME NEW c \in Children(h, patch), h[c].t # "null", NEW a \in Below(h, c)
      PROVE  /\ a \in Below(h, patch) /\ a # patch
             /\ a \in Children(h, patch) => a = c
  <2>1. Below(h, c) \subseteq Below(h, patch)
    BY <1>1, ChildBelow
  <2>2. patch \notin Below(h, c) /\ Children(h, patch) \intersect Below(h, c) = {c}
    BY <1>1, ListNotBelow
  <2> QED
    BY <1>2, <2>1, <2>2
<1>3. \A a \in Members(h, patch) : \E c \in Children(h, patch) : h[c].t # "null" /\ a \in Below(h, c)
  BY DEF Members
<1>4. Members(h, patch) \subseteq Copied(h, target, patch)
  BY <1>2, <1>3 DEF Copied
<1>5. h[target].t # "object" => patch \in Copied(h, target, patch)
  BY BelowAre DEF Copied
<1> QED
  BY <1>2, <1>3, <1>4, <1>5

\* What remains when the target is deleted
LEMMA TargetGone ==
  ASSUME NEW h \in Heaps, NEW O, Trees(h, O), NEW target \in O,
         NEW patch \in LiveIn(h), patch \notin Below(h, target), target \notin Below(h, patch)
  PROVE  /\ Delete(h, target) \in Heaps /\ Trees(Delete(h, target), O \ {target})
         /\ Lasts(Delete(h, target), h)
         /\ StaysFresh(Delete(h, target), h, {})
         /\ patch \in LiveIn(Delete(h, target))
         /\ Below(h, patch) \subseteq LiveIn(Delete(h, target))
         /\ \A m \in Below(h, patch) : Delete(h, target)[m] = h[m]
<1>1. PICK g : g = Delete(h, target)
  OBVIOUS
<1>2. target \in Nodes /\ target \in LiveIn(h) /\ h[target].next = Null /\ LiveIn(h) \subseteq Nodes
  BY TreesAre
<1>3. /\ g \in Heaps /\ Trees(g, O \ {target}) /\ Frees(g, h, target) /\ Lasts(g, h)
      /\ From(h, {target}) \subseteq LiveIn(h)
      /\ LiveIn(g) = LiveIn(h) \ From(h, {target})
  BY <1>1, TreesDelete
<1>4. From(h, {target}) = Below(h, target)
  BY <1>2, BelowIs
<1>5. Below(h, patch) \intersect Below(h, target) = {}
  BY <1>2, BelowApart DEF Apart
<1>6. patch \in Below(h, patch) /\ Below(h, patch) \subseteq LiveIn(h)
  BY BelowAre
<1>7. StaysFresh(g, h, {})
  BY <1>3 DEF StaysFresh, Frees, LiveIn, Kinds
<1>8. \A m \in Below(h, patch) : g[m] = h[m]
  BY <1>2, <1>3, <1>4, <1>5, <1>6 DEF Frees
<1> QED
  BY <1>1, <1>3, <1>4, <1>5, <1>6, <1>7, <1>8

\* cJSONUtils_MergePatch(): the tree of a target is replaced by the one returned, ...
LEMMA ForestPatches ==
  ASSUME NEW h \in Heaps, NEW O, Trees(h, O), NEW target \in O,
         NEW patch \in LiveIn(h), patch \notin Below(h, target), target \notin Below(h, patch),
         NEW f, Fits(h, Copied(h, target, patch), f),
         h[target].t # "object" \/ h[patch].t # "object"
  PROVE  /\ MergePatch(h, target, patch, f) \in Heaps
         /\ Trees(MergePatch(h, target, patch, f), (O \ {target}) \union {Merged(h, target, patch, f)})
         /\ Merged(h, target, patch, f) \notin O \ {target}
         /\ Lasts(MergePatch(h, target, patch, f), h)
<1>1. PICK d, R, B : d = Delete(h, target) /\ R = O \ {target} /\ B = Below(h, patch)
  OBVIOUS
<1>2. /\ d \in Heaps /\ Trees(d, R) /\ Lasts(d, h) /\ StaysFresh(d, h, {})
      /\ patch \in LiveIn(d) /\ patch \in Nodes /\ B \subseteq LiveIn(d)
      /\ \A m \in B : d[m] = h[m]
  <2>1. patch \in Nodes
    BY DEF LiveIn
  <2>2. /\ d \in Heaps /\ Trees(d, R) /\ Lasts(d, h) /\ StaysFresh(d, h, {})
        /\ patch \in LiveIn(d) /\ B \subseteq LiveIn(d)
        /\ \A m \in B : d[m] = h[m]
    BY <1>1, TargetGone
  <2> QED
    BY <2>1, <2>2
<1>3. (\A m \in FreshNodes(h) : m \in FreshNodes(d)) /\ R \subseteq LiveIn(d) /\ Linked(d)
  BY <1>2, TreesAre DEF StaysFresh, FreshNodes
<1>4. PICK g, r : g = MergePatch(h, target, patch, f) /\ r = Merged(h, target, patch, f)
  OBVIOUS
<1>5. \A m \in B : Same(d, h, m)
  BY <1>2 DEF Same, SameItem
<1>6. Below(d, patch) = B
  BY <1>1, <1>2, <1>5, BelowSame
<1>7. CASE h[patch].t # "object"
  <2>1. g = Duplicate(d, patch, f) /\ r = f[patch] /\ Copied(h, target, patch) = B
    BY <1>1, <1>4, <1>7 DEF MergePatch, Merged, Copied
  <2>2. Fits(d, Below(d, patch), f)
    BY <1>3, <1>6, <2>1 DEF Fits
  <2>3. g \in Heaps /\ Trees(g, R \union {f[patch]}) /\ f[patch] \notin LiveIn(d) /\ Lasts(g, d)
    BY <1>2, <2>1, <2>2, ForestCopies
  <2>4. Lasts(g, h)
    BY <1>2, <2>3 DEF Lasts
  <2> QED
    BY <1>1, <1>3, <1>4, <2>1, <2>3, <2>4
<1>8. CASE h[patch].t = "object" /\ h[target].t # "object"
  <2>1. PICK e, P : e = Create(d, r, "object") /\ P = R \union {r}
    OBVIOUS
  <2>2. g = MergeMembers(e, r, patch, f) /\ r = f[patch]
    BY <1>1, <1>4, <1>8, <2>1 DEF MergePatch, Merged
  <2>3. /\ Members(h, patch) \subseteq Copied(h, target, patch)
        /\ patch \notin Members(h, patch) /\ patch \in Copied(h, target, patch)
    BY <1>8, MembersCopied
  <2>4. r \in FreshNodes(d)
    BY <1>3, <2>2, <2>3 DEF Fits
  <2>5. /\ e \in Heaps /\ Trees(e, P) /\ Writes(e, d, {r}) /\ Lasts(e, d)
        /\ LiveIn(e) = LiveIn(d) \union {r} /\ From(e, {r}) = {r}
    <3>1. "object" \in Kinds
      BY DEF Kinds
    <3> QED
      BY <1>2, <2>1, <2>4, <3>1, ForestCreates
  <2>6. r \in Nodes /\ r \notin LiveIn(d) /\ r \notin R /\ r \notin B
    BY <1>2, <1>3, <2>4 DEF FreshNodes, LiveIn, Kinds
  <2>7. \A m \in B : Same(e, h, m)
    <3>1. \A m \in B : m \in Nodes /\ m # r
      BY <1>2, <2>6 DEF LiveIn
    <3> QED
      BY <1>2, <2>5, <3>1 DEF Writes, Same, SameItem
  <2>8. Below(e, patch) = B
    BY <1>1, <1>2, <2>5, <2>7, BelowSame
  <2>9. Members(e, patch) = Members(h, patch)
    BY <1>1, <1>2, <2>5, <2>7, MembersSame
  <2>10. Fits(e, Members(e, patch), f)
    <3>1. \A a \in Members(h, patch) : f[a] \in FreshNodes(d) /\ f[a] # r
      BY <1>3, <2>2, <2>3 DEF Fits
    <3>2. \A a \in Members(h, patch) : f[a] \in FreshNodes(e)
      BY <2>5, <3>1 DEF FreshNodes, Writes
    <3> QED
      BY <2>3, <2>9, <3>2 DEF Fits
  <2>11. Apart(e, B, r)
    <3>1. Below(e, r) \subseteq {r}
      BY <2>5, <2>6, BelowIs
    <3> QED
      BY <2>6, <3>1 DEF Apart
  <2>12. Merging(g, e, P, r, B)
    <3>1. r \in LiveIn(e) /\ patch \in LiveIn(e)
      BY <1>2, <2>5
    <3> QED
      BY <2>2, <2>5, <2>8, <2>10, <2>11, <3>1, ForestMergesAll
  <2>13. Lasts(g, h)
    BY <1>2, <2>5, <2>12 DEF Lasts, Merging
  <2> QED
    BY <1>1, <1>4, <2>1, <2>6, <2>12, <2>13 DEF Merging
<1> QED
  BY <1>7, <1>8

\* ... and an object stays where it is, whoever owns it.
LEMMA ForestPatched ==
  ASSUME NEW h \in Heaps, NEW O, Trees(h, O), NEW target \in LiveIn(h),
         NEW patch \in LiveIn(h), patch \notin Below(h, target), target \notin Below(h, patch),
         NEW f, Fits(h, Copied(h, target, patch), f),
         h[target].t = "object" /\ h[patch].t = "object"
  PROVE  /\ MergePatch(h, target, patch, f) \in Heaps
         /\ Trees(MergePatch(h, target, patch, f), O)
         /\ Merged(h, target, patch, f) = target
         /\ Lasts(MergePatch(h, target, patch, f), h)
<1>1. PICK g, B : g = MergePatch(h, target, patch, f) /\ B = Below(h, patch)
  OBVIOUS
<1>2. g = MergeMembers(h, target, patch, f) /\ Merged(h, target, patch, f) = target
  BY <1>1 DEF MergePatch, Merged
<1>3. Fits(h, Members(h, patch), f)
  BY MembersCopied DEF Fits
<1>4. Apart(h, B, target)
  BY <1>1, BelowApart
<1>5. Merging(g, h, O, target, B)
  BY <1>1, <1>2, <1>3, <1>4, ForestMergesAll
<1> QED
  BY <1>1, <1>2, <1>5 DEF Merging

(***************************************************************************)
(* Json                                                                    *)
(***************************************************************************)
Holders == [n : Ptrs, ref : BOOLEAN, with : SUBSET Vars]
\* The variables that share a holder agree on it, and a node that is to be
\* deleted has one holder.
Holding(j) ==
  /\ j \in [Vars -> Holders]
  /\ \A v \in Vars : j[v] = Unset \/ v \in j[v].with
  /\ \A v \in Vars : \A w \in j[v].with : j[w] = j[v]
  /\ \A v \in Vars : ~j[v].ref => j[v].n # Null
  /\ \A v, w \in Vars : ~j[v].ref /\ ~j[w].ref /\ j[v].n = j[w].n => w \in j[v].with
\* What the variables that are not of W will delete
Rest(j, W)     == {j[u].n : u \in {u \in Vars \ W : ~j[u].ref}}
Owned(j)       == Rest(j, {})

\* The variables of W get a holder of their own.
Holder(n, ref, W)    == [n |-> n, ref |-> ref, with |-> W]
SetAll(j, W, n, ref) == [w \in Vars |-> IF w \in W THEN Holder(n, ref, W) ELSE j[w]]

LEMMA HolderIs ==
  ASSUME NEW n \in Ptrs, NEW ref \in BOOLEAN, NEW W \in SUBSET Vars
  PROVE  /\ Holder(n, ref, W) \in Holders
         /\ Holder(n, ref, W).n = n /\ Holder(n, ref, W).ref = ref /\ Holder(n, ref, W).with = W
BY DEF Holder, Holders

\* A variable that is not set deletes nothing.
LEMMA UnsetIs ==
  Unset \in Holders /\ Unset.n = Null /\ Unset.ref /\ Unset.with = {}
BY DEF Unset, Holders, Ptrs

\* The variables of W leave the holders they had together.
LEMMA SetsAll ==
  ASSUME NEW j, Holding(j), NEW W \in SUBSET Vars, \A u \in W : j[u].with \subseteq W,
         NEW n \in Ptrs, NEW ref \in BOOLEAN, ~ref => n # Null /\ n \notin Rest(j, W)
  PROVE  /\ Holding(SetAll(j, W, n, ref))
         /\ Owned(SetAll(j, W, n, ref)) = Rest(j, W) \union IF ref \/ W = {} THEN {} ELSE {n}
<1>1. PICK k, R : k = SetAll(j, W, n, ref) /\ R = Holder(n, ref, W)
  OBVIOUS
<1>2. R \in Holders /\ R.n = n /\ R.ref = ref /\ R.with = W
  BY <1>1, HolderIs
<1>3. /\ j \in [Vars -> Holders]
      /\ \A v \in Vars : j[v] = Unset \/ v \in j[v].with
      /\ \A v \in Vars : \A w \in j[v].with : j[w] = j[v]
      /\ \A v \in Vars : ~j[v].ref => j[v].n # Null
      /\ \A v, w \in Vars : ~j[v].ref /\ ~j[w].ref /\ j[v].n = j[w].n => w \in j[v].with
  BY DEF Holding
<1>4. (\A w \in W : k[w] = R) /\ \A w \in Vars \ W : k[w] = j[w]
  BY <1>1 DEF SetAll
<1>5. k \in [Vars -> Holders]
  BY <1>1, <1>2, <1>3 DEF SetAll
<1>6. \A u \in Vars \ W : j[u].with \intersect W = {}
  <2> SUFFICES ASSUME NEW u \in Vars \ W, NEW x \in W, x \in j[u].with PROVE FALSE
    OBVIOUS
  <2>1. u \in j[u].with
    BY <1>3, UnsetIs
  <2>2. j[x] = j[u]
    BY <1>3
  <2> QED
    BY <2>1, <2>2
<1>7. \A v \in Vars : k[v] = Unset \/ v \in k[v].with
  BY <1>2, <1>3, <1>4
<1>8. \A v \in Vars : \A w \in k[v].with : k[w] = k[v]
  <2>1. \A v \in Vars \ W : j[v].with \subseteq Vars \ W
    BY <1>3, <1>6 DEF Holders
  <2> QED
    BY <1>2, <1>3, <1>4, <2>1
<1>9. \A v \in Vars : ~k[v].ref => k[v].n # Null
  BY <1>2, <1>3, <1>4
<1>10. \A v, w \in Vars : ~k[v].ref /\ ~k[w].ref /\ k[v].n = k[w].n => w \in k[v].with
  <2>1. ~ref => \A u \in Vars \ W : ~j[u].ref => j[u].n # n
    BY DEF Rest
  <2> QED
    BY <1>2, <1>3, <1>4, <2>1
<1>11. Owned(k) = Rest(j, W) \union IF ref \/ W = {} THEN {} ELSE {n}
  BY <1>2, <1>4 DEF Owned, Rest
<1>12. Holding(k)
  BY <1>5, <1>7, <1>8, <1>9, <1>10 DEF Holding
<1> QED
  BY <1>1, <1>11, <1>12

\* What is left to delete when a holder is taken out.
LEMMA RestIs ==
  ASSUME NEW j, Holding(j), NEW v \in Vars
  PROVE  /\ j[v].with \in SUBSET Vars /\ \A u \in j[v].with : j[u].with \subseteq j[v].with
         /\ j[v].ref => Rest(j, j[v].with) = Owned(j) /\ Rest(j, {v}) = Owned(j)
         /\ ~j[v].ref => /\ Rest(j, j[v].with) = Owned(j) \ {j[v].n}
                         /\ j[v].n \in Owned(j) /\ j[v].n \in Nodes /\ v \in j[v].with
<1>1. /\ j \in [Vars -> Holders]
      /\ \A u \in Vars : j[u] = Unset \/ u \in j[u].with
      /\ \A w \in j[v].with : j[w] = j[v]
      /\ \A u \in Vars : ~j[u].ref => j[u].n # Null
      /\ \A u, w \in Vars : ~j[u].ref /\ ~j[w].ref /\ j[u].n = j[w].n => w \in j[u].with
  BY DEF Holding
<1>2. j[v].with \in SUBSET Vars /\ j[v].n \in Ptrs
  BY <1>1 DEF Holders
<1>3. \A u \in j[v].with : j[u].with \subseteq j[v].with
  BY <1>1
<1>4. ASSUME j[v].ref PROVE Rest(j, j[v].with) = Owned(j) /\ Rest(j, {v}) = Owned(j)
  BY <1>1, <1>4 DEF Rest, Owned
<1>5. ASSUME ~j[v].ref
      PROVE  /\ Rest(j, j[v].with) = Owned(j) \ {j[v].n}
             /\ j[v].n \in Owned(j) /\ j[v].n \in Nodes /\ v \in j[v].with
  <2>1. v \in j[v].with
    BY <1>1, <1>5, UnsetIs
  <2>2. j[v].n \in Owned(j) /\ j[v].n \in Nodes
    BY <1>1, <1>2, <1>5 DEF Rest, Owned, Ptrs
  <2>3. \A u \in Vars \ j[v].with : ~j[u].ref => j[u].n # j[v].n
    BY <1>1, <1>5
  <2>4. \A u \in j[v].with : j[u].n = j[v].n
    BY <1>1
  <2>5. Rest(j, j[v].with) \subseteq Owned(j) \ {j[v].n}
    BY <2>3 DEF Rest, Owned
  <2>6. Owned(j) \ {j[v].n} \subseteq Rest(j, j[v].with)
    BY <2>4 DEF Rest, Owned
  <2> QED
    BY <2>1, <2>2, <2>5, <2>6
<1> QED
  BY <1>2, <1>3, <1>4, <1>5

\* A variable leaves its holder.
Dropped(j, v) == [w \in Vars |-> IF w = v THEN Unset ELSE [j[w] EXCEPT !.with = @ \ {v}]]
LEMMA Drops ==
  ASSUME NEW j, Holding(j), NEW v \in Vars
  PROVE  Holding(Dropped(j, v)) /\ Owned(Dropped(j, v)) = Rest(j, {v})
<1>1. PICK k : k = Dropped(j, v)
  OBVIOUS
<1>2. /\ j \in [Vars -> Holders]
      /\ \A u \in Vars : j[u] = Unset \/ u \in j[u].with
      /\ \A u \in Vars : \A w \in j[u].with : j[w] = j[u]
      /\ \A u \in Vars : ~j[u].ref => j[u].n # Null
      /\ \A u, w \in Vars : ~j[u].ref /\ ~j[w].ref /\ j[u].n = j[w].n => w \in j[u].with
  BY DEF Holding
<1>3. k[v] = Unset /\ k[v].n = Null /\ k[v].ref /\ k[v].with = {}
  BY <1>1, UnsetIs DEF Dropped
<1>4. \A w \in Vars \ {v} : /\ k[w] = Holder(j[w].n, j[w].ref, j[w].with \ {v})
                            /\ k[w] \in Holders
                            /\ k[w].n = j[w].n /\ k[w].ref = j[w].ref
                            /\ k[w].with = j[w].with \ {v}
  <2> SUFFICES ASSUME NEW w \in Vars \ {v}
               PROVE  /\ k[w] = Holder(j[w].n, j[w].ref, j[w].with \ {v})
                      /\ k[w] \in Holders
                      /\ k[w].n = j[w].n /\ k[w].ref = j[w].ref
                      /\ k[w].with = j[w].with \ {v}
    OBVIOUS
  <2>1. PICK c : c = j[w]
    OBVIOUS
  <2>2. c \in Holders
    BY <1>2, <2>1
  <2>3. k[w] = [c EXCEPT !.with = c.with \ {v}]
    BY <1>1, <2>1 DEF Dropped
  <2>4. k[w] = Holder(c.n, c.ref, c.with \ {v})
    BY <2>2, <2>3 DEF Holders, Holder
  <2>5. c.n \in Ptrs /\ c.ref \in BOOLEAN /\ c.with \ {v} \in SUBSET Vars
    BY <2>2 DEF Holders
  <2> QED
    BY <2>1, <2>4, <2>5, HolderIs
<1>5. \A w \in Vars : w # v => /\ k[w].n = j[w].n /\ (k[w].ref <=> j[w].ref)
                               /\ \A u : u \in k[w].with <=> u \in j[w].with /\ u # v
  BY <1>4
<1>6. k \in [Vars -> Holders]
  BY <1>1, <1>3, <1>4, UnsetIs DEF Dropped
<1>7. \A u \in Vars : k[u] = Unset \/ u \in k[u].with
  <2>1. \A u \in Vars \ {v} : j[u] = Unset => k[u] = Unset
    BY <1>4, UnsetIs DEF Unset, Holder
  <2> QED
    BY <1>2, <1>3, <1>5, <2>1
<1>8. \A u \in Vars : \A w \in k[u].with : k[w] = k[u]
  <2> SUFFICES ASSUME NEW u \in Vars, NEW w \in k[u].with PROVE k[w] = k[u]
    OBVIOUS
  <2>1. u # v
    BY <1>3
  <2>2. w \in j[u].with /\ w # v
    BY <1>5, <2>1
  <2>3. w \in Vars /\ j[w] = j[u]
    BY <1>2, <2>2 DEF Holders
  <2> QED
    BY <1>4, <2>1, <2>2, <2>3
<1>9. \A u \in Vars : ~k[u].ref => k[u].n # Null
  BY <1>2, <1>3, <1>5
<1>10. \A u, w \in Vars : ~k[u].ref /\ ~k[w].ref /\ k[u].n = k[w].n => w \in k[u].with
  BY <1>2, <1>3, <1>5
<1>11. Owned(k) = Rest(j, {v})
  BY <1>3, <1>5 DEF Owned, Rest
<1>12. Holding(k)
  BY <1>6, <1>7, <1>8, <1>9, <1>10 DEF Holding
<1> QED
  BY <1>1, <1>11, <1>12

(***************************************************************************)
(* The invariant                                                           *)
(***************************************************************************)
\* What is to be deleted is the tops of the trees, and what is adrift.
Sound(h, j) == /\ h \in Heaps /\ Holding(j)
               /\ Trees(h, Owned(j) \intersect LiveIn(h))
               /\ Owned(j) \subseteq LiveIn(h) \union AdriftIn(h)
JsonInv     == Sound(heap, json) /\ fault = FALSE
Tops        == Owned(json) \intersect LiveIn(heap)
Strays      == Owned(json) \ LiveIn(heap)

LEMMA SoundIs ==
  ASSUME JsonInv
  PROVE  /\ heap \in Heaps /\ Holding(json) /\ Trees(heap, Tops) /\ Linked(heap)
         /\ Tops \subseteq LiveIn(heap) /\ LiveIn(heap) \subseteq Nodes
         /\ Owned(json) = Tops \union Strays
         /\ Strays \subseteq AdriftIn(heap) /\ Strays \intersect LiveIn(heap) = {}
         /\ fault = FALSE
BY TreesAre DEF JsonInv, Sound, Tops, Strays

\* No node is live and adrift.
LEMMA AdriftIs ==
  ASSUME NEW h
  PROVE  AdriftIn(h) \intersect LiveIn(h) = {} /\ AdriftIn(h) \intersect FreshNodes(h) = {}
BY DEF AdriftIn, LiveIn, FreshNodes, Kinds

LEMMA SoundMade ==
  ASSUME heap' \in Heaps, Holding(json'), NEW P, Trees(heap', P), P \subseteq Owned(json'),
         Owned(json') \subseteq P \union AdriftIn(heap'), fault' = FALSE
  PROVE  JsonInv'
<1>1. P \subseteq LiveIn(heap')
  BY TreesAre
<1>2. AdriftIn(heap') \intersect LiveIn(heap') = {}
  BY AdriftIs
<1>3. Owned(json') \intersect LiveIn(heap') = P
  BY <1>1, <1>2
<1> QED
  BY <1>1, <1>3 DEF JsonInv, Sound

\* The trees have other tops, and some of what is adrift is owned as before.
LEMMA SoundAgain ==
  ASSUME JsonInv, heap' \in Heaps, Holding(json'), NEW P, Trees(heap', P), Lasts(heap', heap),
         NEW Q, Q \subseteq Strays, Owned(json') = P \union Q, fault' = FALSE
  PROVE  JsonInv'
<1>1. Q \subseteq AdriftIn(heap')
  BY SoundIs DEF Lasts
<1> QED
  BY <1>1, SoundMade

\* The node of a usable variable is live; below an owner's is its tree.
LEMMA UsableIs ==
  ASSUME JsonInv, NEW v \in Vars, Usable(v)
  PROVE  /\ N(v) \in LiveIn(heap) /\ N(v) \in Nodes /\ N(v) # Null /\ json[v] # Unset
         /\ ~json[v].ref => /\ N(v) \in Tops /\ N(v) \in Owned(json)
                            /\ Below(heap, N(v)) = From(heap, {N(v)})
<1>1. N(v) # Null /\ N(v) \in Nodes /\ heap[N(v)].t \in Kinds
  BY SoundIs DEF Usable, N, Holding, Holders, Ptrs
<1>2. N(v) \in LiveIn(heap) /\ json[v] # Unset
  BY <1>1, UnsetIs DEF LiveIn, N
<1>3. ASSUME ~json[v].ref
      PROVE  N(v) \in Tops /\ N(v) \in Owned(json) /\ Below(heap, N(v)) = From(heap, {N(v)})
  <2>1. N(v) \in Owned(json) /\ N(v) \in Tops
    BY <1>2, <1>3, RestIs, SoundIs DEF N, Tops
  <2>2. heap \in Heaps /\ heap[N(v)].next = Null
    BY <2>1, SoundIs, TreesAre
  <2> QED
    BY <1>1, <2>1, <2>2, BelowIs
<1> QED
  BY <1>1, <1>2, <1>3

\* Nobody owns a fresh node.
LEMMA FreshFree ==
  ASSUME JsonInv, NEW n \in FreshNodes(heap)
  PROVE  n \in Nodes /\ n \notin LiveIn(heap) /\ n \notin Owned(json)
<1>1. n \in Nodes /\ n \notin LiveIn(heap)
  BY DEF FreshNodes, LiveIn, Kinds
<1> QED
  BY <1>1, SoundIs, AdriftIs

\* A variable that is not set gets a holder.
Begins(v, n, ref) == json[v] = Unset /\ Wrap(v, n, ref)

\* Json(cjson, ref)
LEMMA Wraps ==
  ASSUME Holding(json), NEW v \in Vars, NEW n \in Nodes, NEW ref \in BOOLEAN,
         Begins(v, n, ref), ~ref => n \notin Owned(json)
  PROVE  /\ Holding(json')
         /\ Owned(json') = Owned(json) \union IF ref THEN {} ELSE {n}
<1>1. PICK W : W = {v}
  OBVIOUS
<1>2. PICK k : k = SetAll(json, W, n, ref)
  OBVIOUS
<1>3. json[v] = Unset /\ json' = k
  BY <1>1, <1>2 DEF Begins, Wrap, SetAll, Holder, Holding
<1>4. Rest(json, W) = Owned(json)
  BY <1>1, <1>3, RestIs, UnsetIs
<1>5. W \in SUBSET Vars /\ \A u \in W : json[u].with \subseteq W
  BY <1>1, <1>3, UnsetIs
<1>6. ~ref => n # Null /\ n \notin Rest(json, W)
  BY <1>4, NodesAre
<1>7. n \in Ptrs
  BY DEF Ptrs
<1>8. /\ Holding(k)
      /\ Owned(k) = Rest(json, W) \union IF ref \/ W = {} THEN {} ELSE {n}
  BY <1>2, <1>5, <1>6, <1>7, SetsAll
<1>9. Owned(k) = Owned(json) \union IF ref THEN {} ELSE {n}
  BY <1>1, <1>4, <1>8
<1> QED
  BY <1>3, <1>8, <1>9

\* All variables of v's holder change with it.
LEMMA Holds ==
  ASSUME Holding(json), NEW v \in Vars, json[v] # Unset, NEW n \in Ptrs, NEW ref \in BOOLEAN,
         ~ref => n # Null /\ ~json[v].ref /\ n \notin Owned(json) \ {N(v)}
  PROVE  /\ Holding(Held(v, n, ref))
         /\ Owned(Held(v, n, ref)) = (IF json[v].ref THEN Owned(json) ELSE Owned(json) \ {N(v)})
                                     \union IF ref THEN {} ELSE {n}
<1>1. PICK W, k : W = json[v].with /\ k = SetAll(json, W, n, ref)
  OBVIOUS
<1>2. Held(v, n, ref) = k
  BY <1>1 DEF Held, SetAll, Holder
<1>3. /\ W \in SUBSET Vars /\ \A u \in W : json[u].with \subseteq W
      /\ json[v].ref => Rest(json, W) = Owned(json)
      /\ ~json[v].ref => Rest(json, W) = Owned(json) \ {N(v)}
  BY <1>1, RestIs DEF N
<1>4. v \in W
  BY <1>1 DEF Holding
<1>5. ~ref => n # Null /\ n \notin Rest(json, W)
  BY <1>3
<1>6. /\ Holding(k)
      /\ Owned(k) = Rest(json, W) \union IF ref \/ W = {} THEN {} ELSE {n}
  BY <1>1, <1>3, <1>5, SetsAll
<1>7. Owned(k) = (IF json[v].ref THEN Owned(json) ELSE Owned(json) \ {N(v)})
                 \union IF ref THEN {} ELSE {n}
  BY <1>3, <1>4, <1>6
<1> QED
  BY <1>2, <1>6, <1>7

\* A copy below p
LEMMA ForestGainsCopy ==
  ASSUME NEW h \in Heaps, NEW O, Trees(h, O), NEW n \in LiveIn(h), NEW f, Fits(h, Below(h, n), f),
         NEW p \in LiveIn(h), NEW k \in Keys \union {""}
  PROVE  /\ AddItemToArray(Duplicate(h, n, f), p, f[n]) \in Heaps
         /\ Trees(AddItemToArray(Duplicate(h, n, f), p, f[n]), O)
         /\ Lasts(AddItemToArray(Duplicate(h, n, f), p, f[n]), h)
         /\ AddItemToObject(Duplicate(h, n, f), p, k, f[n]) \in Heaps
         /\ Trees(AddItemToObject(Duplicate(h, n, f), p, k, f[n]), O)
         /\ Lasts(AddItemToObject(Duplicate(h, n, f), p, k, f[n]), h)
<1>1. PICK d, r, P, g, e : /\ d = Duplicate(h, n, f) /\ r = f[n] /\ P = O \union {r}
                           /\ g = AddItemToArray(d, p, r) /\ e = AddItemToObject(d, p, k, r)
  OBVIOUS
<1>2. d \in Heaps /\ Trees(d, P) /\ r \in Nodes /\ r \notin LiveIn(h) /\ Aside(d, h, r) /\ Lasts(d, h)
  <2>1. /\ d \in Heaps /\ Trees(d, O \union {f[n]}) /\ f[n] \in Nodes /\ f[n] \notin LiveIn(h)
        /\ Aside(d, h, f[n]) /\ Lasts(d, h)
    BY <1>1, ForestCopies
  <2> QED
    BY <1>1, <2>1
<1>3. LiveIn(h) \subseteq LiveIn(d)
  BY <1>2 DEF Aside, LiveIn
<1>4. p \in LiveIn(d) /\ p \notin From(d, {r}) /\ r \in P
  BY <1>1, <1>2, <1>3 DEF Aside
<1>5. P \ {r} = O
  <2>1. O \subseteq LiveIn(h)
    BY TreesAre
  <2> QED
    BY <1>1, <1>2, <2>1
<1>6. g \in Heaps /\ Trees(g, P \ {r}) /\ \A m \in Nodes : SameItem(g, d, m)
  BY <1>1, <1>2, <1>4, ForestAppends
<1>7. e \in Heaps /\ Trees(e, P \ {r}) /\ SameTypes(e, d)
  BY <1>1, <1>2, <1>4, ForestAddsKeyed
<1>8. Lasts(g, h) /\ Lasts(e, h)
  BY <1>2, <1>6, <1>7 DEF SameTypes, SameItem, Lasts, AdriftIn
<1> QED
  BY <1>1, <1>5, <1>6, <1>7, <1>8

\* cJSON_ReplaceItemViaPointer()
LEMMA ForestReplaces ==
  ASSUME NEW h \in Heaps, NEW O, Trees(h, O), NEW x \in O,
         NEW p \in LiveIn(h), p \notin From(h, {x}), NEW old \in Children(h, p)
  PROVE  /\ ReplaceItem(h, p, old, x) \in Heaps
         /\ Trees(ReplaceItem(h, p, old, x), O \ {x})
         /\ Lasts(ReplaceItem(h, p, old, x), h)
<1>1. x \in Nodes /\ p \in Nodes /\ old \in Nodes /\ old \notin O /\ x # old
  BY TreesAre, ChildHas DEF LiveIn
<1>2. PICK g \in Heaps : InPlace(g, h, p, old, x) /\ ReplaceItem(h, p, old, x) = Delete(g, old)
  BY <1>1, ReplaceWrites
<1>3. PICK P, e : P = (O \ {x}) \union {old} /\ e = Delete(g, old)
  OBVIOUS
<1>4. Trees(g, P) /\ \A m \in Nodes : SameItem(g, h, m)
  BY <1>2, <1>3, ForestSwaps
<1>5. old \in P /\ P \ {old} = O \ {x}
  BY <1>1, <1>3
<1>6. e \in Heaps /\ Trees(e, P \ {old}) /\ Lasts(e, g)
  BY <1>2, <1>3, <1>4, <1>5, TreesDelete
<1>7. Lasts(e, h)
  BY <1>4, <1>6 DEF Lasts, SameItem, AdriftIn
<1> QED
  BY <1>2, <1>3, <1>5, <1>6, <1>7

\* The places for a copy are fresh nodes, one for each.
LEMMA PlaceFits ==
  ASSUME NEW h, NEW S, NEW f \in Places(h, S)
  PROVE  Fits(h, S, f)
BY DEF Places, Injection, IsInjective, Fits

(***************************************************************************)
(* Each call keeps the invariant                                           *)
(***************************************************************************)
\* A fresh node
LEMMA FreshIs ==
  /\ Fresh \in Cells /\ Fresh.t = "fresh" /\ Fresh.next = Null /\ Fresh.prev = Null /\ Fresh.child = Null
  /\ Fresh.t \notin Kinds
BY DEF Fresh, Cell, Cells, Types, Kinds, Ptrs

\* Before the first call
LEMMA InitSound ==
  Init => JsonInv
<1> SUFFICES ASSUME Init PROVE JsonInv
  OBVIOUS
<1>1. (\A n \in Nodes : heap[n] = Fresh) /\ (\A v \in Vars : json[v] = Unset) /\ fault = FALSE
  BY DEF Init
<1>2. heap \in Heaps
  BY FreshIs DEF Init, Heaps
<1>3. LiveIn(heap) = {}
  BY <1>1, FreshIs DEF LiveIn
<1>4. Holding(json)
  BY <1>1, UnsetIs DEF Init, Holding
<1>5. Owned(json) = {}
  BY <1>1, UnsetIs DEF Owned, Rest
<1>6. Linked(heap)
  BY <1>1, FreshIs, NodesAre DEF Linked
<1>7. Trees(heap, {}) /\ {} \intersect LiveIn(heap) = {}
  BY <1>3, <1>6 DEF Trees, Forest, TopsIn, Alone
<1> QED
  BY <1>1, <1>2, <1>4, <1>5, <1>7 DEF JsonInv, Sound

\* create_object(), create_array()
LEMMA CreateKeeps ==
  ASSUME JsonInv, NEW v \in Vars, NEW t \in Kinds, CreateJson(v, t)
  PROVE  JsonInv'
<1>1. PICK n, O, S : n = New(heap) /\ O = Tops /\ S = Strays
  OBVIOUS
<1>2. /\ FreshNodes(heap) # {} /\ json[v] = Unset /\ Wrap(v, n, FALSE)
      /\ heap' = Create(heap, n, t) /\ fault' = fault
  BY <1>1 DEF CreateJson
<1>3. n \in FreshNodes(heap)
  BY <1>1, <1>2 DEF New
<1>4. heap' \in Heaps /\ Trees(heap', O \union {n}) /\ Lasts(heap', heap)
  BY <1>1, <1>2, <1>3, SoundIs, ForestCreates
<1>5. Holding(json') /\ Owned(json') = Owned(json) \union {n}
  BY <1>1, <1>2, <1>3, FreshFree, SoundIs, Wraps DEF Begins
<1>6. Owned(json') = (O \union {n}) \union S /\ S \subseteq Strays
  BY <1>1, <1>5, SoundIs
<1> QED
  BY <1>2, <1>4, <1>5, <1>6, SoundIs, SoundAgain

\* Nothing happens but to references.
LEMMA SameKeeps ==
  ASSUME JsonInv, heap' = heap, fault' = fault, Holding(json'), Owned(json') = Owned(json)
  PROVE  JsonInv'
BY DEF JsonInv, Sound

\* Json(const Json &)
LEMMA ShareKeeps ==
  ASSUME JsonInv, NEW v \in Vars, NEW w \in Vars, Share(v, w)
  PROVE  JsonInv'
<1>1. PICK W, n, ref, all : W = json[v].with /\ n = json[v].n /\ ref = json[v].ref /\ all = W \union {w}
  OBVIOUS
<1>2. Holding(json) /\ json[w] = Unset /\ heap' = heap /\ fault' = fault
  BY SoundIs DEF Share
<1>3. n \in Ptrs /\ ref \in BOOLEAN /\ W \in SUBSET Vars /\ all \in SUBSET Vars
      /\ json[v] = Holder(n, ref, W)
  BY <1>1, <1>2 DEF Holding, Holders, Holder
<1>4. json' = SetAll(json, all, n, ref)
  <2>1. \A S : [json[v] EXCEPT !.with = S] = Holder(n, ref, S)
    BY <1>3 DEF Holder
  <2> QED
    BY <1>1, <2>1 DEF Share, SetAll
<1>5. Rest(json, all) = Rest(json, W) /\ \A u \in all : json[u].with \subseteq all
  <2>1. \A u \in W : json[u].with \subseteq W
    BY <1>1, <1>2, RestIs
  <2> QED
    BY <1>1, <1>2, <2>1, UnsetIs DEF Rest
<1>6. ref => Rest(json, W) = Owned(json)
  BY <1>1, <1>2, RestIs
<1>7. ~ref => Rest(json, W) = Owned(json) \ {n} /\ n \in Owned(json) /\ n # Null
  BY <1>1, <1>2, RestIs, NodesAre
<1>8. ~ref => n # Null /\ n \notin Rest(json, all)
  BY <1>5, <1>7
<1>9. PICK k : k = SetAll(json, all, n, ref)
  OBVIOUS
<1>10. PICK A : A = all
  OBVIOUS
<1>11. /\ Holding(k)
       /\ Owned(k) = Rest(json, A) \union IF ref \/ A = {} THEN {} ELSE {n}
  BY <1>2, <1>3, <1>5, <1>8, <1>9, <1>10, SetsAll
<1>12. Owned(k) = Owned(json)
  BY <1>1, <1>5, <1>6, <1>7, <1>10, <1>11
<1> QED
  BY <1>2, <1>4, <1>9, <1>11, <1>12, SameKeeps

\* copy()
LEMMA CopyKeeps ==
  ASSUME JsonInv, NEW v \in Vars, NEW w \in Vars, Copy(v, w)
  PROVE  JsonInv'
<1>1. PICK n, f, O, S, r : n = N(v) /\ f = Place(heap, n) /\ O = Tops /\ S = Strays /\ r = f[n]
  OBVIOUS
<1>2. /\ Usable(v) /\ json[w] = Unset /\ Room(heap, n) /\ Wrap(w, r, FALSE)
      /\ heap' = Duplicate(heap, n, f) /\ fault' = fault
  BY <1>1 DEF Copy
<1>3. n \in LiveIn(heap) /\ Fits(heap, Below(heap, n), f)
  <2>1. f \in Places(heap, Below(heap, n))
    BY <1>1, <1>2 DEF Place, Room
  <2> QED
    BY <1>1, <1>2, <2>1, UsableIs, PlaceFits
<1>4. r \in FreshNodes(heap)
  BY <1>1, <1>3 DEF Fits, Below
<1>5. heap' \in Heaps /\ Trees(heap', O \union {r}) /\ Lasts(heap', heap)
  <2>1. /\ Duplicate(heap, n, f) \in Heaps /\ Trees(Duplicate(heap, n, f), O \union {f[n]})
        /\ Lasts(Duplicate(heap, n, f), heap)
    BY <1>1, <1>3, SoundIs, ForestCopies
  <2> QED
    BY <1>1, <1>2, <2>1
<1>6. Holding(json') /\ Owned(json') = Owned(json) \union {r}
  BY <1>1, <1>2, <1>4, FreshFree, SoundIs, Wraps DEF Begins
<1>7. Owned(json') = (O \union {r}) \union S /\ S \subseteq Strays
  BY <1>1, <1>6, SoundIs
<1> QED
  BY <1>2, <1>5, <1>6, <1>7, SoundIs, SoundAgain

\* ~Json()
LEMMA DropKeeps ==
  ASSUME JsonInv, NEW v \in Vars, Drop(v)
  PROVE  JsonInv'
<1>1. PICK O, S, n : O = Tops /\ S = Strays /\ n = N(v)
  OBVIOUS
<1>2. /\ json[v] # Unset /\ json' = Dropped(json, v)
      /\ \/ /\ json[v].with # {v} \/ json[v].ref \/ heap[n].t = "adrift"
            /\ heap' = heap /\ fault' = fault
         \/ /\ json[v].with = {v} /\ ~json[v].ref /\ heap[n].t # "adrift"
            /\ heap' = Delete(heap, n)
            /\ fault' = (fault \/ \E m \in From(heap, {n}) : heap[m].t = "freed")
  BY <1>1 DEF Drop, Dropped, From
<1>3. Holding(json') /\ Owned(json') = Rest(json, {v})
  BY <1>2, SoundIs, Drops
<1>4. ASSUME json[v].ref \/ json[v].with # {v} PROVE Rest(json, {v}) = Owned(json)
  <2>1. CASE json[v].ref
    BY <2>1, SoundIs, RestIs
  <2>2. CASE ~json[v].ref
    <3>1. v \in json[v].with /\ json[v].with \in SUBSET Vars
      BY <2>2, SoundIs, RestIs
    <3>2. PICK u \in Vars : u \in json[v].with /\ u # v
      BY <1>4, <2>2, <3>1
    <3>3. json[u] = json[v]
      BY <3>2, SoundIs DEF Holding
    <3> QED
      BY <2>2, <3>2, <3>3 DEF Rest, Owned
  <2> QED
    BY <2>1, <2>2
<1>5. ASSUME ~json[v].ref, json[v].with = {v}
      PROVE  Rest(json, {v}) = Owned(json) \ {n} /\ n \in Owned(json) /\ n \in Nodes
  <2>1. /\ Rest(json, json[v].with) = Owned(json) \ {json[v].n} /\ json[v].n \in Owned(json)
        /\ json[v].n \in Nodes
    BY <1>5, SoundIs, RestIs
  <2> QED
    BY <1>1, <1>5, <2>1 DEF N
<1>6. CASE (json[v].with # {v} \/ json[v].ref) /\ heap' = heap /\ fault' = fault
  BY <1>3, <1>4, <1>6, SameKeeps
<1>7. CASE json[v].with = {v} /\ ~json[v].ref /\ heap[n].t = "adrift" /\ heap' = heap /\ fault' = fault
  <2>1. n \in Nodes /\ n \in Owned(json) /\ Rest(json, {v}) = Owned(json) \ {n}
    BY <1>5, <1>7
  <2>2. n \notin LiveIn(heap)
    BY <1>7 DEF LiveIn, Kinds
  <2>3. Owned(json') = O \union (S \ {n}) /\ S \ {n} \subseteq Strays
    BY <1>1, <1>3, <2>1, <2>2, SoundIs
  <2>4. Lasts(heap', heap)
    BY <1>7 DEF Lasts
  <2>5. heap' \in Heaps /\ Trees(heap', O) /\ fault' = FALSE
    BY <1>1, <1>7, SoundIs
  <2> QED
    BY <1>3, <2>3, <2>4, <2>5, SoundAgain
<1>8. CASE /\ json[v].with = {v} /\ ~json[v].ref /\ heap[n].t # "adrift"
           /\ heap' = Delete(heap, n)
           /\ fault' = (fault \/ \E m \in From(heap, {n}) : heap[m].t = "freed")
  <2>1. n \in Nodes /\ n \in Owned(json) /\ Rest(json, {v}) = Owned(json) \ {n}
    BY <1>5, <1>8
  <2>2. n \in O
    BY <1>1, <1>8, <2>1, SoundIs DEF AdriftIn
  <2>3. heap' \in Heaps /\ Trees(heap', O \ {n}) /\ Lasts(heap', heap)
        /\ From(heap, {n}) \subseteq LiveIn(heap)
    BY <1>1, <1>8, <2>2, SoundIs, TreesDelete
  <2>4. Owned(json') = (O \ {n}) \union S /\ S \subseteq Strays
    BY <1>1, <1>3, <2>1, <2>2, SoundIs
  <2>5. fault' = FALSE
    BY <1>8, <2>3, SoundIs DEF LiveIn, Kinds
  <2> QED
    BY <1>3, <2>3, <2>4, <2>5, SoundAgain
<1> QED
  BY <1>2, <1>6, <1>7, <1>8

\* operator[] and begin()
LEMMA IndexKeeps ==
  ASSUME JsonInv, NEW v \in Vars, NEW w \in Vars, Index(v, w)
  PROVE  JsonInv'
<1>1. Usable(v) /\ json[w] = Unset /\ heap' = heap /\ fault' = fault
  BY DEF Index
<1>2. PICK x \in Children(heap, N(v)) : Wrap(w, x, TRUE)
  BY DEF Index
<1>3. x \in Nodes
  BY <1>1, UsableIs, SoundIs, ChildHas
<1>4. Holding(json') /\ Owned(json') = Owned(json)
  BY <1>1, <1>2, <1>3, SoundIs, Wraps DEF Begins
<1> QED
  BY <1>1, <1>4, SameKeeps

\* A holder becomes a reference.
LEMMA BecomesRef ==
  ASSUME JsonInv, NEW v \in Vars, json[v] # Unset, NEW n \in Ptrs
  PROVE  /\ Holding(Held(v, n, TRUE))
         /\ Owned(Held(v, n, TRUE)) = IF json[v].ref THEN Owned(json) ELSE Owned(json) \ {N(v)}
<1>1. PICK k, ref : k = Held(v, n, ref) /\ ref = TRUE
  OBVIOUS
<1>2. ref \in BOOLEAN /\ (~ref => n # Null /\ ~json[v].ref /\ n \notin Owned(json) \ {N(v)})
  BY <1>1
<1>3. /\ Holding(k)
      /\ Owned(k) = (IF json[v].ref THEN Owned(json) ELSE Owned(json) \ {N(v)})
                    \union IF ref THEN {} ELSE {n}
  BY <1>1, <1>2, SoundIs, Holds
<1> QED
  BY <1>1, <1>3

\* JsonIterator::operator++ and operator--
LEMMA AdvanceKeeps ==
  ASSUME JsonInv, NEW v \in Vars, Advance(v)
  PROVE  JsonInv'
<1>1. Usable(v) /\ json[v].ref /\ heap' = heap /\ fault' = fault
  BY DEF Advance
<1>2. PICK x \in {heap[N(v)].next, heap[N(v)].prev} : json' = Held(v, x, TRUE)
  BY DEF Advance
<1>3. x \in Ptrs /\ json[v] # Unset
  <2>1. N(v) \in Nodes /\ heap \in Heaps /\ json[v] # Unset
    BY <1>1, UsableIs, SoundIs
  <2> QED
    BY <1>2, <2>1, CellsAre
<1>4. Holding(json') /\ Owned(json') = Owned(json)
  BY <1>1, <1>2, <1>3, BecomesRef
<1> QED
  BY <1>1, <1>4, SameKeeps

\* The document of a node is the trees of some tops.
LEMMA DocumentIs ==
  ASSUME JsonInv, NEW n
  PROVE  /\ \E S \in SUBSET Tops : Document(n) = From(heap, S)
         /\ \A v \in Roots : n = N(v) => n \in Document(n)
<1>1. PICK h, O : h = heap /\ O = Tops
  OBVIOUS
<1>2. PICK S : S = {N(u) : u \in {u \in Roots : n \in Below(heap, N(u))}}
  OBVIOUS
<1>3. \A u \in Roots : N(u) \in O /\ N(u) \in Nodes /\ Below(heap, N(u)) = From(h, {N(u)})
  BY <1>1, UsableIs DEF Roots
<1>4. S \in SUBSET O /\ S \in SUBSET Nodes /\ h \in Heaps
  BY <1>1, <1>2, <1>3, SoundIs
<1>5. Document(n) = UNION {From(h, {s}) : s \in S}
  BY <1>2, <1>3 DEF Document
<1>6. From(h, S) \subseteq UNION {From(h, {s}) : s \in S}
  BY <1>4, FromOne
<1>7. \A s \in S : From(h, {s}) \subseteq From(h, S)
  <2> SUFFICES ASSUME NEW s \in S PROVE From(h, {s}) \subseteq From(h, S)
    OBVIOUS
  <2>1. {s} \in SUBSET Nodes /\ {s} \subseteq From(h, S)
    BY <1>4, FromCloses
  <2> QED
    BY <1>4, <2>1, FromGrows
<1>8. Document(n) = From(h, S)
  BY <1>5, <1>6, <1>7
<1>9. \A v \in Roots : n = N(v) => n \in Document(n)
  BY DEF Document, Below
<1> QED
  BY <1>1, <1>4, <1>8, <1>9

\* Two documents go adrift, and what they lose as an owner was of them.
LEMMA AdriftKeeps ==
  ASSUME JsonInv, NEW v \in Vars, NEW w \in Vars, SetAdrift(v, w), fault' = fault,
         Holding(json'), Owned(json') \subseteq Owned(json),
         Owned(json) \ Owned(json') \subseteq Document(N(v)) \union Document(N(w))
  PROVE  JsonInv'
<1>1. PICK h, O, k : h = heap /\ O = Tops /\ k = Owned(json')
  OBVIOUS
<1>2. PICK S \in SUBSET O : Document(N(v)) = From(h, S)
  BY <1>1, DocumentIs
<1>3. PICK T \in SUBSET O : Document(N(w)) = From(h, T)
  BY <1>1, DocumentIs
<1>4. PICK U, g : U = S \union T /\ g = Cut(h, U, Adrift)
  OBVIOUS
<1>5. h \in Heaps /\ Trees(h, O) /\ Forest(h, O) /\ O \in SUBSET Nodes /\ U \in SUBSET O
  BY <1>1, <1>4, SoundIs, TreesAre
<1>6. From(h, U) = From(h, S) \union From(h, T)
  BY <1>4, <1>5, FromUnion
<1>7. heap' = g
  BY <1>1, <1>2, <1>3, <1>4, <1>6 DEF SetAdrift, Cut
<1>8. /\ g \in Heaps /\ Takes(g, h, U, Adrift)
      /\ From(h, U) \subseteq LiveIn(h) /\ O \intersect From(h, U) = U
  BY <1>4, <1>5, TreesCut
<1>9. Trees(g, O \ U) /\ Lasts(g, h)
  BY <1>4, <1>5, TreesCut
<1>10. From(h, U) \subseteq AdriftIn(g)
  <2>1. Adrift.t = "adrift"
    BY DEF Adrift, Cell
  <2>2. \A n \in From(h, U) : n \in Nodes /\ g[n].t = "adrift"
    BY <1>8, <2>1 DEF LiveIn, Takes
  <2> QED
    BY <2>2 DEF AdriftIn
<1>11. O \ U \subseteq k
  BY <1>1, <1>2, <1>3, <1>6, <1>8, SoundIs
<1>12. k \subseteq (O \ U) \union AdriftIn(g)
  <2>1. Strays \subseteq AdriftIn(g)
    BY <1>1, <1>9, SoundIs DEF Lasts
  <2> QED
    BY <1>1, <1>8, <1>10, <2>1, SoundIs
<1> QED
  BY <1>1, <1>7, <1>8, <1>9, <1>11, <1>12, SoundIs, SoundMade

\* The node of the holder that lets it go is of its document.
LEMMA LetsGo ==
  ASSUME JsonInv, NEW v \in Vars, NEW w \in Vars, Usable(v), Usable(w), ~json[v].ref,
         SetAdrift(v, w) \/ SetAdrift(w, v), json' = Held(v, N(v), TRUE), fault' = fault
  PROVE  JsonInv'
<1>1. N(v) \in Document(N(v)) /\ N(v) \in Ptrs /\ json[v] # Unset
  BY DocumentIs, UsableIs DEF Roots, Ptrs
<1>2. Holding(json') /\ Owned(json') = Owned(json) \ {N(v)}
  BY <1>1, BecomesRef
<1> QED
  BY <1>1, <1>2, AdriftKeeps

\* add_string(), add_number(), add_null(), add_bool()
LEMMA AddLeafKeeps ==
  ASSUME JsonInv, NEW v \in Vars, NEW k \in Keys \union {""}, AddLeaf(v, k)
  PROVE  JsonInv'
<1>1. PICK x, O, S, g, p, P : /\ x = New(heap) /\ O = Tops /\ S = Strays
                              /\ g = Create(heap, x, "null") /\ p = N(v) /\ P = O \union {x}
  OBVIOUS
<1>2. /\ FreshNodes(heap) # {} /\ json' = json /\ fault' = fault
      /\ \/ Usable(v) /\ heap' = AddItemToArray(g, p, x)
         \/ Usable(v) /\ heap' = AddItemToObject(g, p, k, x)
         \/ heap' = heap
  BY <1>1 DEF AddLeaf, Is
<1>3. x \in FreshNodes(heap) /\ x \in Nodes /\ x \notin LiveIn(heap) /\ x \notin O
  <2>1. x \in FreshNodes(heap)
    BY <1>1, <1>2 DEF New
  <2> QED
    BY <1>1, <2>1, FreshFree, SoundIs
<1>4. /\ g \in Heaps /\ Trees(g, P) /\ LiveIn(g) = LiveIn(heap) \union {x} /\ From(g, {x}) = {x}
      /\ Lasts(g, heap)
  <2>1. "null" \in Kinds
    BY DEF Kinds
  <2>2. /\ Create(heap, x, "null") \in Heaps
        /\ Trees(Create(heap, x, "null"), O \union {x})
        /\ LiveIn(Create(heap, x, "null")) = LiveIn(heap) \union {x}
        /\ From(Create(heap, x, "null"), {x}) = {x}
        /\ Lasts(Create(heap, x, "null"), heap)
    BY <1>1, <1>3, <2>1, SoundIs, ForestCreates
  <2> QED
    BY <1>1, <2>2
<1>5. P \ {x} = O /\ x \in P
  BY <1>1, <1>3
<1>6. ASSUME Usable(v) PROVE p \in LiveIn(g) /\ p \notin From(g, {x})
  BY <1>1, <1>3, <1>4, <1>6, UsableIs
<1>7. Holding(json') /\ Owned(json') = O \union S /\ S \subseteq Strays /\ fault' = FALSE
  BY <1>1, <1>2, SoundIs
<1>8. CASE Usable(v) /\ heap' = AddItemToArray(g, p, x)
  <2>1. /\ AddItemToArray(g, p, x) \in Heaps /\ Trees(AddItemToArray(g, p, x), P \ {x})
        /\ \A m \in Nodes : SameItem(AddItemToArray(g, p, x), g, m)
    BY <1>4, <1>5, <1>6, <1>8, ForestAppends
  <2>2. Lasts(heap', heap)
    BY <1>4, <1>8, <2>1, KeptLive DEF Lasts
  <2> QED
    BY <1>5, <1>7, <1>8, <2>1, <2>2, SoundAgain
<1>9. CASE Usable(v) /\ heap' = AddItemToObject(g, p, k, x)
  <2>1. /\ AddItemToObject(g, p, k, x) \in Heaps /\ Trees(AddItemToObject(g, p, k, x), P \ {x})
        /\ SameTypes(AddItemToObject(g, p, k, x), g)
    BY <1>4, <1>5, <1>6, <1>9, ForestAddsKeyed
  <2>2. Lasts(heap', heap)
    BY <1>4, <1>9, <2>1 DEF Lasts, AdriftIn, SameTypes
  <2> QED
    BY <1>5, <1>7, <1>9, <2>1, <2>2, SoundAgain
<1>10. CASE heap' = heap
  BY <1>2, <1>10, SoundIs, SameKeeps
<1> QED
  BY <1>2, <1>8, <1>9, <1>10

\* A reference is copied below p, and no holder changes.
LEMMA CopyBelowKeeps ==
  ASSUME JsonInv, NEW v \in Vars, NEW w \in Vars, Usable(v), Usable(w), Room(heap, N(w)),
         NEW k \in Keys \union {""}, NEW f, f = Place(heap, N(w)),
         json' = json, fault' = fault,
         \/ heap' = AddItemToArray(Duplicate(heap, N(w), f), N(v), f[N(w)])
         \/ heap' = AddItemToObject(Duplicate(heap, N(w), f), N(v), k, f[N(w)])
  PROVE  JsonInv'
<1>1. PICK n, p, O, S : n = N(w) /\ p = N(v) /\ O = Tops /\ S = Strays
  OBVIOUS
<1>2. n \in LiveIn(heap) /\ p \in LiveIn(heap) /\ Fits(heap, Below(heap, n), f)
  <2>1. f \in Places(heap, Below(heap, n))
    BY <1>1 DEF Place, Room
  <2> QED
    BY <1>1, <2>1, UsableIs, PlaceFits
<1>3. /\ AddItemToArray(Duplicate(heap, n, f), p, f[n]) \in Heaps
      /\ Trees(AddItemToArray(Duplicate(heap, n, f), p, f[n]), O)
      /\ Lasts(AddItemToArray(Duplicate(heap, n, f), p, f[n]), heap)
      /\ AddItemToObject(Duplicate(heap, n, f), p, k, f[n]) \in Heaps
      /\ Trees(AddItemToObject(Duplicate(heap, n, f), p, k, f[n]), O)
      /\ Lasts(AddItemToObject(Duplicate(heap, n, f), p, k, f[n]), heap)
  BY <1>1, <1>2, SoundIs, ForestGainsCopy
<1>4. heap' \in Heaps /\ Trees(heap', O) /\ Lasts(heap', heap)
  BY <1>1, <1>3
<1>5. Holding(json') /\ Owned(json') = O \union S /\ S \subseteq Strays /\ fault' = FALSE
  BY <1>1, SoundIs
<1> QED
  BY <1>4, <1>5, SoundAgain

\* A holder gives its node away to another document.
LEMMA GivesAway ==
  ASSUME JsonInv, NEW w \in Vars, Usable(w), ~json[w].ref, json' = Held(w, N(w), TRUE), fault' = fault,
         heap' \in Heaps, Trees(heap', Tops \ {N(w)}), Lasts(heap', heap)
  PROVE  JsonInv'
<1>1. PICK O, S, n : O = Tops /\ S = Strays /\ n = N(w)
  OBVIOUS
<1>2. n \in O /\ n \in Ptrs /\ json[w] # Unset
  BY <1>1, UsableIs DEF Ptrs
<1>3. Holding(json') /\ Owned(json') = Owned(json) \ {n}
  BY <1>1, <1>2, BecomesRef
<1>4. Owned(json') = (O \ {n}) \union S /\ S \subseteq Strays /\ fault' = FALSE
  BY <1>1, <1>2, <1>3, SoundIs
<1> QED
  BY <1>1, <1>3, <1>4, SoundAgain

\* add_item(key, item)
LEMMA AddMemberKeeps ==
  ASSUME JsonInv, NEW v \in Vars, NEW w \in Vars, NEW k \in Keys, AddMember(v, w, k)
  PROVE  JsonInv'
<1>1. PICK n, p, O, f : n = N(w) /\ p = N(v) /\ O = Tops /\ f = Place(heap, N(w))
  OBVIOUS
<1>2. /\ Usable(v) /\ Usable(w) /\ fault' = fault
      /\ \/ /\ json[w].ref /\ Room(heap, n) /\ json' = json
            /\ heap' = AddItemToObject(Duplicate(heap, n, f), p, k, f[n])
         \/ ~json[w].ref /\ json' = Held(w, N(w), TRUE) /\ SetAdrift(v, w)
         \/ /\ ~json[w].ref /\ json' = Held(w, N(w), TRUE) /\ p \notin Below(heap, n)
            /\ heap' = AddItemToObject(heap, p, k, n)
  BY <1>1 DEF AddMember, Is
<1>3. k \in Keys \union {""}
  OBVIOUS
<1>4. CASE /\ json[w].ref /\ Room(heap, n) /\ json' = json
           /\ heap' = AddItemToObject(Duplicate(heap, n, f), p, k, f[n])
  BY <1>1, <1>2, <1>3, <1>4, CopyBelowKeeps
<1>5. CASE ~json[w].ref /\ json' = Held(w, N(w), TRUE) /\ SetAdrift(v, w)
  BY <1>2, <1>5, LetsGo
<1>6. CASE /\ ~json[w].ref /\ json' = Held(w, N(w), TRUE) /\ p \notin Below(heap, n)
           /\ heap' = AddItemToObject(heap, p, k, n)
  <2>1. n \in O /\ p \in LiveIn(heap) /\ p \notin From(heap, {n})
    BY <1>1, <1>2, <1>6, UsableIs
  <2>2. /\ AddItemToObject(heap, p, k, n) \in Heaps /\ Trees(AddItemToObject(heap, p, k, n), O \ {n})
        /\ SameTypes(AddItemToObject(heap, p, k, n), heap)
    BY <1>1, <1>3, <2>1, SoundIs, ForestAddsKeyed
  <2>3. Lasts(heap', heap)
    BY <1>6, <2>2 DEF Lasts, AdriftIn, SameTypes
  <2>4. heap' \in Heaps /\ Trees(heap', Tops \ {N(w)})
    BY <1>1, <1>6, <2>2
  <2> QED
    BY <1>2, <1>6, <2>3, <2>4, GivesAway
<1> QED
  BY <1>2, <1>4, <1>5, <1>6

\* add_item(item)
LEMMA AddElementKeeps ==
  ASSUME JsonInv, NEW v \in Vars, NEW w \in Vars, AddElement(v, w)
  PROVE  JsonInv'
<1>1. PICK f : f = Place(heap, N(w))
  OBVIOUS
<1>2. /\ Usable(v) /\ Usable(w) /\ fault' = fault
      /\ \/ /\ Room(heap, N(w)) /\ json' = json
            /\ heap' = AddItemToArray(Duplicate(heap, N(w), f), N(v), f[N(w)])
         \/ ~json[v].ref /\ json' = Held(v, N(v), TRUE) /\ SetAdrift(v, w)
  BY <1>1 DEF AddElement, Is
<1>3. "" \in Keys \union {""}
  OBVIOUS
<1> QED
  BY <1>1, <1>2, <1>3, CopyBelowKeeps, LetsGo

\* pop()
LEMMA PopKeeps ==
  ASSUME JsonInv, NEW v \in Vars, NEW w \in Vars, Pop(v, w)
  PROVE  JsonInv'
<1>1. Usable(v) /\ json[w] = Unset /\ fault' = fault
  BY DEF Pop
<1>2. PICK p, O, S : p = N(v) /\ O = Tops /\ S = Strays
  OBVIOUS
<1>3. PICK x \in Children(heap, p) : heap' = DetachItem(heap, p, x) /\ Wrap(w, x, FALSE)
  BY <1>2 DEF Pop
<1>4. p \in Nodes /\ x \in Nodes /\ x \in LiveIn(heap) /\ x \notin Owned(json)
  <2>1. p \in Nodes /\ heap \in Heaps /\ Trees(heap, O)
    BY <1>1, <1>2, UsableIs, SoundIs
  <2>2. x \in Nodes /\ x \in LiveIn(heap) /\ x \notin O
    BY <2>1, ChildHas
  <2> QED
    BY <1>2, <2>1, <2>2, SoundIs
<1>5. /\ DetachItem(heap, p, x) \in Heaps
      /\ Trees(DetachItem(heap, p, x), O \union {x})
      /\ \A m \in Nodes : SameItem(DetachItem(heap, p, x), heap, m)
  BY <1>2, <1>4, SoundIs, ForestDetaches
<1>6. Lasts(heap', heap)
  BY <1>3, <1>5, KeptLive
<1>7. Holding(json') /\ Owned(json') = Owned(json) \union {x}
  BY <1>1, <1>3, <1>4, SoundIs, Wraps DEF Begins
<1>8. Owned(json') = (O \union {x}) \union S /\ S \subseteq Strays /\ fault' = FALSE
  BY <1>1, <1>2, <1>7, SoundIs
<1> QED
  BY <1>3, <1>5, <1>6, <1>7, <1>8, SoundAgain

\* merge()
LEMMA MergeKeeps ==
  ASSUME JsonInv, NEW v \in Vars, NEW w \in Vars, Merge(v, w)
  PROVE  JsonInv'
<1>1. PICK t, p, O, S, f, m : /\ t = N(v) /\ p = N(w) /\ O = Tops /\ S = Strays
                              /\ f = CHOOSE g \in Places(heap, Copied(heap, t, p)) : TRUE
                              /\ m = Merged(heap, t, p, f)
  OBVIOUS
<1>2. /\ Usable(v) /\ Usable(w) /\ fault' = fault
      /\ \/ SetAdrift(v, w) /\ json' = json
         \/ /\ ~Overlap(v, w) /\ ~(json[v].ref /\ Replaces(v, w))
            /\ Places(heap, Copied(heap, t, p)) # {}
            /\ heap' = MergePatch(heap, t, p, f)
            /\ json' = Held(v, m, json[v].ref)
  BY <1>1 DEF Merge
<1>3. CASE SetAdrift(v, w) /\ json' = json
  BY <1>2, <1>3, SoundIs, AdriftKeeps
<1>4. CASE /\ ~Overlap(v, w) /\ ~(json[v].ref /\ Replaces(v, w))
           /\ Places(heap, Copied(heap, t, p)) # {}
           /\ heap' = MergePatch(heap, t, p, f)
           /\ json' = Held(v, m, json[v].ref)
  <2>1. p \notin Below(heap, t) /\ t \notin Below(heap, p)
    BY <1>1, <1>4 DEF Overlap
  <2>2. t \in LiveIn(heap) /\ p \in LiveIn(heap) /\ Fits(heap, Copied(heap, t, p), f) /\ json[v] # Unset
    <3>1. f \in Places(heap, Copied(heap, t, p))
      BY <1>1, <1>4
    <3> QED
      BY <1>1, <1>2, <3>1, UsableIs, PlaceFits
  <2>3. PICK g : g = heap'
    OBVIOUS
  <2>4. CASE heap[t].t = "object" /\ heap[p].t = "object"
    <3>1. /\ MergePatch(heap, t, p, f) \in Heaps /\ Trees(MergePatch(heap, t, p, f), O)
          /\ Merged(heap, t, p, f) = t /\ Lasts(MergePatch(heap, t, p, f), heap)
      BY <1>1, <2>1, <2>2, <2>4, SoundIs, ForestPatched
    <3>2. PICK k, ref : k = Held(v, t, ref) /\ ref = json[v].ref
      OBVIOUS
    <3>3. ref \in BOOLEAN /\ t \in Ptrs /\ t # Null
      BY <2>2, <3>2, SoundIs, NodesAre DEF Holding, Holders, LiveIn, Ptrs
    <3>4. ~ref => t # Null /\ ~json[v].ref /\ t \notin Owned(json) \ {N(v)}
      BY <1>1, <3>2, <3>3
    <3>5. /\ Holding(k)
          /\ Owned(k) = (IF json[v].ref THEN Owned(json) ELSE Owned(json) \ {N(v)})
                        \union IF ref THEN {} ELSE {t}
      BY <2>2, <3>2, <3>3, <3>4, SoundIs, Holds
    <3>6. Owned(k) = Owned(json)
      <4>1. ~json[v].ref => N(v) \in Owned(json)
        BY <1>2, UsableIs
      <4> QED
        BY <1>1, <3>2, <3>5, <4>1
    <3>7. Owned(json') = O \union S /\ S \subseteq Strays /\ Holding(json') /\ fault' = FALSE
      BY <1>1, <1>2, <1>4, <3>1, <3>2, <3>5, <3>6, SoundIs
    <3> QED
      BY <1>4, <3>1, <3>7, SoundAgain
  <2>5. CASE heap[t].t # "object" \/ heap[p].t # "object"
    <3>1. ~json[v].ref /\ t \in O
      BY <1>1, <1>2, <1>4, <2>5, UsableIs DEF Replaces
    <3>2. g \in Heaps /\ Trees(g, (O \ {t}) \union {m}) /\ m \notin O \ {t} /\ Lasts(g, heap)
      <4>1. /\ MergePatch(heap, t, p, f) \in Heaps
            /\ Trees(MergePatch(heap, t, p, f), (O \ {t}) \union {Merged(heap, t, p, f)})
            /\ Merged(heap, t, p, f) \notin O \ {t}
            /\ Lasts(MergePatch(heap, t, p, f), heap)
        BY <1>1, <2>1, <2>2, <2>5, <3>1, SoundIs, ForestPatches
      <4> QED
        BY <1>1, <1>4, <2>3, <4>1
    <3>3. m \in LiveIn(g) /\ m \in Ptrs /\ m # Null /\ m \notin S
      <4>1. (O \ {t}) \union {m} \subseteq LiveIn(g)
        BY <3>2, TreesAre
      <4>2. S \subseteq AdriftIn(g)
        BY <1>1, <3>2, SoundIs DEF Lasts
      <4> QED
        BY <4>1, <4>2, AdriftIs, NodesAre DEF LiveIn, Ptrs
    <3>4. PICK k, ref : k = Held(v, m, ref) /\ ref = FALSE
      OBVIOUS
    <3>5. ref \in BOOLEAN /\ (~ref => m # Null /\ ~json[v].ref /\ m \notin Owned(json) \ {N(v)})
      BY <1>1, <3>1, <3>2, <3>3, <3>4, SoundIs
    <3>6. /\ Holding(k)
          /\ Owned(k) = (IF json[v].ref THEN Owned(json) ELSE Owned(json) \ {N(v)})
                        \union IF ref THEN {} ELSE {m}
      BY <2>2, <3>3, <3>4, <3>5, SoundIs, Holds
    <3>7. Owned(k) = ((O \ {t}) \union {m}) \union S
      BY <1>1, <3>1, <3>4, <3>6, SoundIs
    <3>8. json[v].ref = FALSE
      BY <3>1, SoundIs DEF Holding, Holders
    <3>9. json' = k
      BY <1>4, <3>4, <3>8
    <3>10. S \subseteq Strays /\ fault' = FALSE
      BY <1>1, <1>2, SoundIs
    <3> QED
      BY <2>3, <3>2, <3>6, <3>7, <3>9, <3>10, SoundAgain
  <2> QED
    BY <2>4, <2>5
<1> QED
  BY <1>2, <1>3, <1>4

\* cJSON_InsertItemInArray() and cJSON_ReplaceItemViaPointer()
LEMMA InsertKeeps ==
  ASSUME JsonInv, NEW v \in Vars, NEW w \in Vars, Insert(v, w)
  PROVE  JsonInv'
<1>1. PICK p, n, O : p = N(v) /\ n = N(w) /\ O = Tops
  OBVIOUS
<1>2. Usable(v) /\ Usable(w) /\ ~json[w].ref /\ json' = Held(w, N(w), TRUE) /\ fault' = fault
  BY <1>1 DEF Insert, Is
<1>3. \/ SetAdrift(v, w)
      \/ /\ p \notin Below(heap, n)
         /\ \/ heap' = AddItemToArray(heap, p, n)
            \/ \E x \in Children(heap, p) : heap' = InsertItem(heap, p, x, n) \/ heap' = ReplaceItem(heap, p, x, n)
  BY <1>1 DEF Insert
<1>4. PICK g : g = heap'
  OBVIOUS
<1>5. CASE SetAdrift(v, w)
  BY <1>2, <1>5, LetsGo
<1>6. ASSUME /\ p \notin Below(heap, n)
             /\ \/ g = AddItemToArray(heap, p, n)
                \/ \E x \in Children(heap, p) : g = InsertItem(heap, p, x, n) \/ g = ReplaceItem(heap, p, x, n)
      PROVE  g \in Heaps /\ Trees(g, O \ {n}) /\ Lasts(g, heap)
  <2> USE <1>6
  <2>0. n \in O /\ p \in LiveIn(heap) /\ p \notin From(heap, {n})
    BY <1>1, <1>2, UsableIs
  <2>1. CASE g = AddItemToArray(heap, p, n)
    <3>1. /\ AddItemToArray(heap, p, n) \in Heaps /\ Trees(AddItemToArray(heap, p, n), O \ {n})
          /\ \A m \in Nodes : SameItem(AddItemToArray(heap, p, n), heap, m)
      BY <1>1, <2>0, SoundIs, ForestAppends
    <3>2. Lasts(AddItemToArray(heap, p, n), heap)
      BY <3>1, KeptLive
    <3> QED
      BY <2>1, <3>1, <3>2
  <2>2. ASSUME NEW x \in Children(heap, p), g = InsertItem(heap, p, x, n)
        PROVE  g \in Heaps /\ Trees(g, O \ {n}) /\ Lasts(g, heap)
    <3>1. /\ InsertItem(heap, p, x, n) \in Heaps /\ Trees(InsertItem(heap, p, x, n), O \ {n})
          /\ \A m \in Nodes : SameItem(InsertItem(heap, p, x, n), heap, m)
      BY <1>1, <2>0, SoundIs, ForestInserts
    <3>2. Lasts(InsertItem(heap, p, x, n), heap)
      BY <3>1, KeptLive
    <3> QED
      BY <2>2, <3>1, <3>2
  <2>3. ASSUME NEW x \in Children(heap, p), g = ReplaceItem(heap, p, x, n)
        PROVE  g \in Heaps /\ Trees(g, O \ {n}) /\ Lasts(g, heap)
    <3>1. /\ ReplaceItem(heap, p, x, n) \in Heaps /\ Trees(ReplaceItem(heap, p, x, n), O \ {n})
          /\ Lasts(ReplaceItem(heap, p, x, n), heap)
      BY <1>1, <2>0, SoundIs, ForestReplaces
    <3> QED
      BY <2>3, <3>1
  <2> QED
    BY <1>6, <2>1, <2>2, <2>3
<1> QED
  BY <1>1, <1>2, <1>3, <1>4, <1>5, <1>6, GivesAway

\* cJSON_DeleteItemFromArray()
LEMMA DeleteItemKeeps ==
  ASSUME JsonInv, NEW v \in Vars, DeleteItem(v)
  PROVE  JsonInv'
<1>1. PICK p, O, S, g : p = N(v) /\ O = Tops /\ S = Strays /\ g = heap'
  OBVIOUS
<1>2. Usable(v) /\ json' = json /\ fault' = fault
  BY DEF DeleteItem
<1>3. PICK x \in Children(heap, p) : g = Delete(DetachItem(heap, p, x), x)
  BY <1>1 DEF DeleteItem
<1>4. p \in LiveIn(heap) /\ {} \in SUBSET Nodes /\ Apart(heap, {}, p)
  BY <1>1, <1>2, UsableIs DEF Apart
<1>5. Merging(g, heap, O, p, {})
  BY <1>1, <1>3, <1>4, SoundIs, ForestDropsChild
<1>6. Holding(json') /\ Owned(json') = O \union S /\ S \subseteq Strays /\ fault' = FALSE
  BY <1>1, <1>2, SoundIs
<1> QED
  BY <1>1, <1>5, <1>6, SoundAgain DEF Merging

\* A call with a node that is adrift
LEMMA DrawInKeeps ==
  ASSUME JsonInv, NEW v \in Vars, DrawIn(v)
  PROVE  JsonInv'
<1>1. SetAdrift(v, v) /\ json' = json /\ fault' = fault
  BY DEF DrawIn
<1> QED
  BY <1>1, SoundIs, AdriftKeeps

(***************************************************************************)
(* What the invariant says                                                 *)
(***************************************************************************)
LEMMA StepKeeps ==
  ASSUME JsonInv, Next
  PROVE  JsonInv'
<1>1. ASSUME NEW v \in Vars, Drop(v) \/ Advance(v) \/ DeleteItem(v) \/ DrawIn(v) PROVE JsonInv'
  BY <1>1, DropKeeps, AdvanceKeeps, DeleteItemKeeps, DrawInKeeps
<1>2. ASSUME NEW v \in Vars, NEW t \in Kinds, CreateJson(v, t) PROVE JsonInv'
  BY <1>2, CreateKeeps
<1>3. ASSUME NEW v \in Vars, NEW k \in Keys \union {""}, AddLeaf(v, k) PROVE JsonInv'
  BY <1>3, AddLeafKeeps
<1>4. ASSUME NEW v \in Vars, NEW w \in Vars, Share(v, w) \/ Copy(v, w) \/ Index(v, w) \/ Pop(v, w)
      PROVE  JsonInv'
  BY <1>4, ShareKeeps, CopyKeeps, IndexKeeps, PopKeeps
<1>5. ASSUME NEW v \in Vars, NEW w \in Vars, AddElement(v, w) \/ Merge(v, w) \/ Insert(v, w)
      PROVE  JsonInv'
  BY <1>5, AddElementKeeps, MergeKeeps, InsertKeeps
<1>6. ASSUME NEW v \in Vars, NEW w \in Vars, NEW k \in Keys, AddMember(v, w, k) PROVE JsonInv'
  BY <1>6, AddMemberKeeps
<1> QED
  BY <1>1, <1>2, <1>3, <1>4, <1>5, <1>6 DEF Next

LEMMA StutterKeeps ==
  ASSUME JsonInv, UNCHANGED vars
  PROVE  JsonInv'
BY SoundIs, SameKeeps DEF vars

\* In a sound state the holders, the links and the types agree, whatever the
\* variables, nodes and keys, and whatever calls led there (json.cpp, cJSON.c);
\* a document that add_item() or merge() spoilt is adrift, and no tree of it.
THEOREM InvariantHolds ==
  Spec => []JsonInv
<1>1. Init => JsonInv
  BY InitSound
<1>2. JsonInv /\ [Next]_vars => JsonInv'
  BY StepKeeps, StutterKeeps
<1> QED
  BY <1>1, <1>2, PTL DEF Spec

\* A sound state has one owner for each node: a root's tree is what its tops
\* reach, and the trees of two tops are apart.
LEMMA OwnedAre ==
  ASSUME JsonInv
  PROVE  OwnedOnce
<1>1. PICK O : O = Tops
  OBVIOUS
<1>2. /\ heap \in Heaps /\ Holding(json) /\ Linked(heap) /\ TopsIn(heap, O) /\ O \in SUBSET Nodes
      /\ O \subseteq LiveIn(heap) /\ LiveIn(heap) \subseteq From(heap, O)
  BY <1>1, SoundIs, TreesAre
<1>3. \A v \in Roots : v \in Vars /\ ~json[v].ref /\ N(v) \in O /\ Usable(v)
  BY <1>1, UsableIs DEF Roots
<1>4. \A v \in Roots : Below(heap, N(v)) = From(heap, {N(v)})
  BY <1>3, UsableIs
<1>5. \A o \in O : \E v \in Roots : N(v) = o
  BY <1>1, <1>2, NodesAre DEF Tops, Owned, Rest, Roots, N, Usable, LiveIn
<1>6. Live = LiveIn(heap)
  BY DEF Live, LiveIn
<1>7. \A v \in Roots : From(heap, {N(v)}) \subseteq LiveIn(heap)
  <2> TAKE v \in Roots
  <2>1. N(v) \in Nodes /\ {N(v)} \in SUBSET Nodes /\ {N(v)} \subseteq LiveIn(heap)
    BY <1>2, <1>3
  <2> QED
    BY <1>2, <2>1, FromLive
<1>8. Live = UNION {Below(heap, N(v)) : v \in Roots}
  <2>1. From(heap, O) \subseteq UNION {From(heap, {o}) : o \in O}
    BY <1>2, FromOne
  <2>2. \A n \in Live : \E v \in Roots : n \in Below(heap, N(v))
    <3> SUFFICES ASSUME NEW n \in Live PROVE \E v \in Roots : n \in Below(heap, N(v))
      OBVIOUS
    <3>1. n \in From(heap, O)
      BY <1>2, <1>6
    <3>2. PICK o \in O : n \in From(heap, {o})
      BY <2>1, <3>1
    <3>3. PICK v \in Roots : N(v) = o
      BY <1>5
    <3> QED
      BY <1>4, <3>2, <3>3
  <2>3. \A v \in Roots : Below(heap, N(v)) \subseteq Live
    BY <1>4, <1>6, <1>7
  <2> QED
    BY <2>2, <2>3
<1>9. ASSUME NEW v \in Roots, NEW w \in Roots, w \notin json[v].with
      PROVE  Below(heap, N(v)) \intersect Below(heap, N(w)) = {}
  <2>1. N(v) # N(w)
    BY <1>2, <1>3, <1>9 DEF Holding, N
  <2>2. PICK S, T : S = {N(v)} /\ T = {N(w)}
    OBVIOUS
  <2>3. S \in SUBSET O /\ T \in SUBSET O /\ S \intersect T = {}
    BY <1>3, <2>1, <2>2
  <2>4. From(heap, S) \intersect From(heap, T) = {}
    BY <1>2, <2>3, TreesApart
  <2> QED
    BY <1>4, <2>2, <2>4
<1>10. ~fault
  BY SoundIs
<1> QED
  BY <1>8, <1>9, <1>10 DEF OwnedOnce

\* Every live node is owned by exactly one Json, which deletes it once; none
\* leaks (json.cpp:13-17, 544-594).  Not live are the documents adrift: of
\* add_item(item) on an owned array (json.cpp:541-553), of a merge() whose target
\* is replaced under a reference or overlaps the patch (json.cpp:244-251), of an
\* item put below itself, and whatever was mixed with one of these.
THEOREM EachOwnedOnce ==
  Spec => []OwnedOnce
<1>1. Spec => []JsonInv
  BY InvariantHolds
<1>2. JsonInv => OwnedOnce
  BY OwnedAre
<1> QED
  BY <1>1, <1>2, PTL

\* The lists of live nodes stay whole under every call: next and prev agree, and
\* what a list links to is allocated and not adrift (cJSON.c:1836-2223).
THEOREM ListsAreWhole ==
  Spec => []WellLinked
<1>1. Spec => []JsonInv
  BY InvariantHolds
<1>2. JsonInv => WellLinked
  <2>1. SUFFICES ASSUME JsonInv PROVE WellLinked
    OBVIOUS
  <2>2. Linked(heap)
    BY <2>1, SoundIs
  <2> QED
    BY <2>2 DEF WellLinked, Linked, Live, LiveIn
<1> QED
  BY <1>1, <1>2, PTL

(***************************************************************************)
(* Recursive functions                                                     *)
(***************************************************************************)
\* Of some numbers one is the least, ...
LEMMA LeastNumber ==
  ASSUME NEW T \in SUBSET Nat, T # {}
  PROVE  \E k \in T : \A n \in T : k <= n
<1>1. PICK k \in T : \A n \in T : ~(<<n, k>> \in OpToRel(<, Nat))
  BY NatLessThanWellFounded, WFMin
<1>2. ASSUME NEW n \in T PROVE k <= n
  <2>1. n \in Nat /\ k \in Nat
    OBVIOUS
  <2>2. ~(n < k)
    BY <1>1, <2>1 DEF OpToRel
  <2> QED
    BY <2>1, <2>2
<1> QED
  BY <1>2

\* ... and if they are bounded one is the greatest.
LEMMA GreatestNumber ==
  ASSUME NEW Z \in Nat, NEW T \in SUBSET (0..Z), T # {}
  PROVE  \E k \in T : \A n \in T : n <= k
<1> DEFINE D == {Z - k : k \in T}
<1>1. D \in SUBSET Nat /\ D # {}
  <2>1. \A k \in T : Z - k \in Nat
    OBVIOUS
  <2> QED
    BY <2>1
<1>2. PICK d \in D : \A n \in D : d <= n
  <2> HIDE DEF D
  <2> QED
    BY <1>1, LeastNumber
<1>3. PICK k \in T : d = Z - k
  BY <1>2
<1>4. \A n \in T : n <= k
  BY <1>2, <1>3
<1> QED
  BY <1>4

\* H is a function's value at i, made of what it is where the rank is less.
Recursive(I, V, Z, rank, H) ==
  /\ V # {} /\ Z \in Nat /\ rank \in [I -> 0..Z]
  /\ \A i \in I, f \in [I -> V] : H[<<i, f>>] \in V
  /\ \A i \in I, f \in [I -> V], g \in [I -> V] :
       (\A j \in I : rank[j] < rank[i] => f[j] = g[j]) => H[<<i, f>>] = H[<<i, g>>]
\* f and g are made in the same way.
Alike(I, Z, rank, f, g) ==
  /\ Z \in Nat /\ rank \in [I -> 0..Z]
  /\ \A i \in I : (\A j \in I : rank[j] < rank[i] => f[j] = g[j]) => f[i] = g[i]

\* There is such a function, ...
LEMMA Recursion ==
  ASSUME NEW I, NEW V, NEW Z, NEW rank, NEW H, Recursive(I, V, Z, rank, H)
  PROVE  \E f \in [I -> V] : \A i \in I : f[i] = H[<<i, f>>]
<1> USE DEF Recursive
<1> DEFINE Good(k, f) == \A i \in I : rank[i] < k => f[i] = H[<<i, f>>]
           T == {k \in 0..Z + 1 : \E f \in [I -> V] : Good(k, f)}
<1>1. 0 \in T
  <2>1. PICK v \in V : TRUE
    OBVIOUS
  <2>2. PICK f \in [I -> V] : f = [i \in I |-> v]
    OBVIOUS
  <2>3. Good(0, f)
    OBVIOUS
  <2> QED
    BY <2>3
<1>2. PICK k \in T : \A n \in T : n <= k
  <2>1. T \in SUBSET (0..Z + 1) /\ T # {} /\ Z + 1 \in Nat
    BY <1>1
  <2> HIDE DEF T
  <2> QED
    BY <2>1, GreatestNumber
<1>3. PICK f \in [I -> V] : Good(k, f)
  BY <1>2
<1>4. k = Z + 1
  <2>1. SUFFICES ASSUME k <= Z PROVE FALSE
    BY <1>2
  <2>0. k \in 0..Z + 1 /\ k + 1 \in 0..Z + 1
    BY <1>2, <2>1
  <2>2. PICK g \in [I -> V] : g = [i \in I |-> IF rank[i] = k THEN H[<<i, f>>] ELSE f[i]]
    OBVIOUS
  <2>3. \A j \in I : rank[j] < k => f[j] = g[j]
    BY <2>2
  <2>4. ASSUME NEW i \in I, rank[i] < k + 1 PROVE g[i] = H[<<i, g>>]
    <3>1. H[<<i, f>>] = H[<<i, g>>]
      <4>1. \A j \in I : rank[j] < rank[i] => f[j] = g[j]
        BY <1>2, <2>3, <2>4
      <4> QED
        BY <4>1
    <3>2. g[i] = H[<<i, f>>]
      <4>1. CASE rank[i] = k
        BY <2>2, <4>1
      <4>2. CASE rank[i] < k
        BY <1>3, <2>3, <4>2
      <4>3. rank[i] \in Int /\ k \in Int
        BY <2>0
      <4> QED
        BY <2>4, <4>1, <4>2, <4>3
    <3> QED
      BY <3>1, <3>2
  <2>5. Good(k + 1, g)
    BY <2>4
  <2>6. k + 1 \in T
    BY <2>0, <2>5
  <2> HIDE DEF T
  <2>7. k + 1 <= k
    BY <1>2, <2>6
  <2> QED
    BY <2>0, <2>7
<1>5. \A i \in I : f[i] = H[<<i, f>>]
  BY <1>3, <1>4
<1> QED
  BY <1>5

\* ... and only one.
LEMMA Recursions ==
  ASSUME NEW I, NEW Z, NEW rank, NEW f, NEW g, Alike(I, Z, rank, f, g)
  PROVE  \A i \in I : f[i] = g[i]
<1> USE DEF Alike
<1> DEFINE T == {rank[i] : i \in {i \in I : f[i] # g[i]}}
<1>1. SUFFICES ASSUME T # {} PROVE FALSE
  OBVIOUS
<1>2. PICK k \in T : \A n \in T : k <= n
  <2>1. T \in SUBSET Nat
    OBVIOUS
  <2> HIDE DEF T
  <2> QED
    BY <1>1, <2>1, LeastNumber
<1>3. PICK i \in I : k = rank[i] /\ f[i] # g[i]
  BY <1>2
<1>4. \A j \in I : rank[j] < rank[i] => f[j] = g[j]
  <2> SUFFICES ASSUME NEW j \in I, rank[j] < rank[i], f[j] # g[j] PROVE FALSE
    OBVIOUS
  <2>1. rank[j] \in T
    OBVIOUS
  <2> HIDE DEF T
  <2>2. rank[i] <= rank[j] /\ rank[i] \in Int /\ rank[j] \in Int
    BY <1>2, <1>3, <2>1
  <2> QED
    BY <2>2
<1> QED
  BY <1>3, <1>4

(***************************************************************************)
(* What one unit of a string stands for                                    *)
(***************************************************************************)
Byte  == {b \in Nat : b < 256}
Texts == Seq(Byte)

\* What \uXXXX can say
Codes == {code \in Nat : code < 65536}

LEMMA Hex4Is ==
  ASSUME NEW s, NEW p
  PROVE  Hex4(s, p) \in Codes
<1> USE DEF Codes
<1> DEFINE digit(b) == CASE b \in 48..57 -> b - 48 [] b \in 65..70 -> b - 55
                         [] b \in 97..102 -> b - 87 [] OTHER -> -1
           h == [i \in 0..3 |-> digit(s[p + i])]
<1>1. \A b : digit(b) \in Int /\ digit(b) < 16
  OBVIOUS
<1> HIDE DEF digit
<1>2. PICK a \in Int, b \in Int, c \in Int, d \in Int :
        /\ h[0] = a /\ h[1] = b /\ h[2] = c /\ h[3] = d
        /\ a < 16 /\ b < 16 /\ c < 16 /\ d < 16
  BY <1>1
<1>3. Hex4(s, p) = IF \E i \in 0..3 : h[i] < 0 THEN 0
                   ELSE h[0] * 4096 + h[1] * 256 + h[2] * 16 + h[3]
  BY DEF Hex4, digit
<1> HIDE DEF h
<1>4. Hex4(s, p) = IF \E i \in 0..3 : h[i] < 0 THEN 0 ELSE a * 4096 + b * 256 + c * 16 + d
  BY <1>2, <1>3
<1>5. CASE \E i \in 0..3 : h[i] < 0
  BY <1>4, <1>5
<1>6. CASE ~(\E i \in 0..3 : h[i] < 0)
  <2>1. 0 <= a /\ 0 <= b /\ 0 <= c /\ 0 <= d
    BY <1>2, <1>6
  <2> QED
    BY <1>2, <1>4, <1>6, <2>1
<1> QED
  BY <1>5, <1>6

\* The code point of a control character, as the printer writes it
HexControl(s, p, b) ==
  s[p] = 48 /\ s[p + 1] = 48 /\ s[p + 2] = Hex(b \div 16) /\ s[p + 3] = Hex(b % 16)
LEMMA Hex4Control ==
  ASSUME NEW s, NEW p \in Int, NEW b \in 0..31, HexControl(s, p, b)
  PROVE  Hex4(s, p) = b
<1> DEFINE digit(c) == CASE c \in 48..57 -> c - 48 [] c \in 65..70 -> c - 55
                         [] c \in 97..102 -> c - 87 [] OTHER -> -1
           h == [i \in 0..3 |-> digit(s[p + i])]
<1>1. \A x \in 0..15 : digit(Hex(x)) = x
  BY DEF Hex
<1>2. b \div 16 \in 0..15 /\ b % 16 \in 0..15 /\ (b \div 16) * 16 + (b % 16) = b
  OBVIOUS
<1>3. digit(48) = 0
  OBVIOUS
<1> HIDE DEF digit
<1>4. h[0] = 0 /\ h[1] = 0 /\ h[2] = b \div 16 /\ h[3] = b % 16
  <2>1. p + 0 = p
    OBVIOUS
  <2> QED
    BY <1>1, <1>2, <1>3, <2>1 DEF HexControl
<1>5. Hex4(s, p) = IF \E i \in 0..3 : h[i] < 0 THEN 0
                   ELSE h[0] * 4096 + h[1] * 256 + h[2] * 16 + h[3]
  BY DEF Hex4, digit
<1> HIDE DEF h
<1>6. \A i \in 0..3 : i = 0 \/ i = 1 \/ i = 2 \/ i = 3
  OBVIOUS
<1>7. ~(\E i \in 0..3 : h[i] < 0)
  BY <1>2, <1>4, <1>6
<1>8. PICK x \in 0..15, y \in 0..15 : x = b \div 16 /\ y = b % 16
  BY <1>2
<1>9. Hex4(s, p) = 0 * 4096 + 0 * 256 + x * 16 + y
  BY <1>4, <1>5, <1>7, <1>8
<1> QED
  BY <1>2, <1>8, <1>9

LEMMA Utf8Is ==
  ASSUME NEW cp \in Nat
  PROVE  /\ Utf8(cp) \in Seq(Int) /\ Len(Utf8(cp)) \in Nat /\ Len(Utf8(cp)) <= 4
         /\ cp \in Codes => Len(Utf8(cp)) <= 3
<1> DEFINE low(unit) == 128 + ((cp \div unit) % 64)
<1>1. PICK a \in Int, b \in Int, c \in Int : a = low(1) /\ b = low(64) /\ c = low(4096)
  OBVIOUS
<1>2. PICK x \in Int, y \in Int, z \in Int : x = 192 + cp \div 64 /\ y = 224 + cp \div 4096 /\ z = 240 + cp \div 262144
  OBVIOUS
<1>3. Utf8(cp) = IF cp < 128 THEN <<cp>>
                 ELSE IF cp < 2048 THEN <<x, a>>
                 ELSE IF cp < 65536 THEN <<y, b, a>>
                 ELSE <<z, c, b, a>>
  BY <1>1, <1>2 DEF Utf8
<1> HIDE DEF low
<1> QED
  BY <1>3 DEF Codes

\* A unit takes 1, 2, 6 or 12 bytes and stands for at most 1, 1, 3 or 4.
FitsAt(s, i, e, u) ==
  /\ u.len \in {0, 1, 2, 6, 12} /\ u.out \in Seq(Int) /\ Len(u.out) \in Nat
  /\ u.len = 1  => s[i] # Backslash /\ Len(u.out) = 1
  /\ u.len = 2  => s[i] = Backslash /\ Len(u.out) = 1
  /\ u.len = 6  => s[i] = Backslash /\ i + 6 <= e /\ Len(u.out) <= 3
  /\ u.len = 12 => s[i] = Backslash /\ i + 12 <= e /\ Len(u.out) <= 4
LEMMA UnitFits ==
  ASSUME NEW s \in Seq(Int), NEW e \in 1..Len(s), NEW i \in 1..Len(s), i < e
  PROVE  FitsAt(s, i, e, UnitAt(s, i, e))
<1>0. s[i] \in Int /\ s[i + 1] \in Int /\ i \in Int /\ e \in Int
  OBVIOUS
<1>1. CASE s[i] # Backslash
  BY <1>0, <1>1 DEF UnitAt, Unit, FitsAt
<1>2. CASE s[i] = Backslash /\ s[i + 1] = 117
  <2> DEFINE one == Hex4(s, i + 2)
             two == Hex4(s, i + 8)
             cp  == 65536 + (one - 55296) * 1024 + (two - 56320)
  <2>1. UnitAt(s, i, e) = Utf16Literal(s, i, e)
    BY <1>2 DEF UnitAt, Letters, Quote, Backslash
  <2>2. one \in Codes /\ one \in Nat /\ two \in Nat
    BY Hex4Is DEF Codes
  <2> HIDE DEF one, two
  <2>3. \/ Utf16Literal(s, i, e) = Refused
        \/ e - i >= 6 /\ Utf16Literal(s, i, e) = Unit(6, Utf8(one))
        \/ e - i >= 12 /\ High(one) /\ Low(two) /\ Utf16Literal(s, i, e) = Unit(12, Utf8(cp))
    BY <1>0 DEF Utf16Literal, one, two
  <2>4. CASE Utf16Literal(s, i, e) = Refused
    BY <2>1, <2>4 DEF Refused, Unit, FitsAt
  <2>5. CASE e - i >= 6 /\ Utf16Literal(s, i, e) = Unit(6, Utf8(one))
    <3>1. Utf8(one) \in Seq(Int) /\ Len(Utf8(one)) \in Nat /\ Len(Utf8(one)) <= 3
      BY <2>2, Utf8Is
    <3> QED
      BY <1>0, <1>2, <2>1, <2>5, <3>1 DEF Unit, FitsAt
  <2>6. CASE e - i >= 12 /\ High(one) /\ Low(two) /\ Utf16Literal(s, i, e) = Unit(12, Utf8(cp))
    <3>1. cp \in Nat
      BY <2>2, <2>6 DEF High, Low
    <3> HIDE DEF cp
    <3>2. Utf8(cp) \in Seq(Int) /\ Len(Utf8(cp)) \in Nat /\ Len(Utf8(cp)) <= 4
      BY <3>1, Utf8Is
    <3> QED
      BY <1>0, <1>2, <2>1, <2>6, <3>2 DEF Unit, FitsAt
  <2> QED
    BY <2>3, <2>4, <2>5, <2>6
<1>3. CASE s[i] = Backslash /\ s[i + 1] # 117 /\ s[i + 1] \in Letters
  <2>0. PICK c \in Int : c = s[i + 1]
    BY <1>0
  <2>1. PICK m \in Int : m = Meaning(s[i + 1])
    <3>1. Meaning(c) \in Int
      BY DEF Meaning
    <3> QED
      BY <2>0, <3>1
  <2>2. UnitAt(s, i, e) = Unit(2, <<m>>)
    BY <1>3, <2>1 DEF UnitAt
  <2> QED
    BY <1>3, <2>2 DEF Unit, FitsAt
<1>4. CASE s[i] = Backslash /\ s[i + 1] # 117 /\ s[i + 1] \notin Letters
  BY <1>4 DEF UnitAt, Unit, Refused, FitsAt
<1> QED
  BY <1>1, <1>2, <1>3, <1>4

(***************************************************************************)
(* What parse_string() allocates                                           *)
(***************************************************************************)
Ahead(e) == [i \in 1..e + 1 |-> e + 1 - i]

\* The backslashes that are counted, each with the byte behind it
IsSkipped(s, e, f) ==
  /\ f \in [1..e + 1 -> Nat]
  /\ \A i \in 1..e + 1 : Skipped(s, i, e) = f[i]
  /\ \A i \in 1..e + 1 : f[i] = IF i >= e THEN 0
       ELSE IF s[i] = Backslash THEN 1 + f[i + 2] ELSE f[i + 1]
LEMMA SkippedIs ==
  ASSUME NEW s, NEW e \in Nat
  PROVE  \E f : IsSkipped(s, e, f)
<1>0. PICK V : V = Nat /\ V # {}
  OBVIOUS
<1> DEFINE I == 1..e + 1
           Body(i, f) == IF i >= e THEN 0
                         ELSE IF s[i] = Backslash THEN 1 + f[i + 2] ELSE f[i + 1]
           H == [x \in I \X [I -> V] |-> Body(x[1], x[2])]
           Solves(g) == g = [i \in I |-> Body(i, g)]
           g == CHOOSE g : Solves(g)
<1>1. PICK Z \in Nat : Z = e + 1
  OBVIOUS
<1>2. PICK r \in [I -> 0..Z] : r = Ahead(e)
  <2>1. \A i \in I : Ahead(e)[i] \in 0..Z
    BY <1>1 DEF Ahead
  <2>2. Ahead(e) = [i \in I |-> Ahead(e)[i]]
    BY DEF Ahead
  <2> HIDE DEF I
  <2> QED
    BY <2>1, <2>2
<1>3. \A i \in I : i < e => i + 1 \in I /\ i + 2 \in I /\ r[i + 1] < r[i] /\ r[i + 2] < r[i]
  BY <1>2 DEF Ahead
<1>4. ASSUME NEW i \in I, NEW f \in [I -> V] PROVE Body(i, f) \in V
  <2>1. i < e => f[i + 1] \in Nat /\ f[i + 2] \in Nat
    BY <1>0, <1>3
  <2>2. Body(i, f) \in Nat
    BY <2>1
  <2> QED
    BY <1>0, <2>2
<1>5. ASSUME NEW i \in I, NEW f, NEW h, \A j \in I : r[j] < r[i] => f[j] = h[j] PROVE Body(i, f) = Body(i, h)
  <2>1. i < e => f[i + 1] = h[i + 1] /\ f[i + 2] = h[i + 2]
    BY <1>3, <1>5
  <2> QED
    BY <2>1
<1> HIDE DEF Body
<1>6. \E f \in [I -> V] : \A i \in I : f[i] = Body(i, f)
  <2>1. \A i \in I : \A f \in [I -> V] : H[<<i, f>>] = Body(i, f)
    OBVIOUS
  <2> HIDE DEF I, H
  <2>2. \A i \in I, f \in [I -> V] : H[<<i, f>>] \in V
    BY <1>4, <2>1
  <2>3. ASSUME NEW i \in I, NEW f \in [I -> V], NEW h \in [I -> V], \A j \in I : r[j] < r[i] => f[j] = h[j]
        PROVE  H[<<i, f>>] = H[<<i, h>>]
    <3>1. Body(i, f) = Body(i, h)
      BY <1>5, <2>3
    <3> QED
      BY <2>1, <3>1
  <2>4. Recursive(I, V, Z, r, H)
    BY <1>0, <2>2, <2>3 DEF Recursive
  <2>5. \E f \in [I -> V] : \A i \in I : f[i] = H[<<i, f>>]
    BY <2>4, Recursion
  <2> QED
    BY <2>1, <2>5
<1>7. PICK f \in [I -> V] : \A i \in I : f[i] = Body(i, f)
  BY <1>6
<1>8. Solves(g)
  <2>1. Solves(f)
    BY <1>7
  <2> QED
    BY <2>1
<1>9. \A i \in I : Skipped(s, i, e) = g[i]
  BY DEF Skipped, Body
<1> HIDE DEF g, I
<1>10. f = g
  <2>1. ASSUME NEW i \in I, \A j \in I : r[j] < r[i] => f[j] = g[j] PROVE f[i] = g[i]
    BY <1>5, <1>7, <1>8, <2>1
  <2>2. Alike(I, Z, r, f, g)
    BY <2>1 DEF Alike
  <2>3. \A i \in I : f[i] = g[i]
    BY <2>2, Recursions
  <2> QED
    BY <1>8, <2>3
<1> QED
  <2>1. f \in [1..e + 1 -> Nat]
    BY <1>0, <1>7 DEF I
  <2>2. IsSkipped(s, e, f)
    BY <1>7, <1>9, <1>10, <2>1 DEF Body, I, IsSkipped
  <2> QED
    BY <2>2

\* The closing quote is looked for in steps of a byte, or two at a backslash.
IsQuote(s, n, f) ==
  /\ f \in [1..n + 2 -> Nat]
  /\ \A i \in 1..n + 2 : ClosingQuote(s, i) = f[i]
  /\ \A i \in 1..n + 2 : f[i] = IF i > n THEN 0 ELSE IF s[i] = Quote THEN i
       ELSE f[i + (IF s[i] = Backslash THEN 2 ELSE 1)]
LEMMA QuoteIs ==
  ASSUME NEW s, NEW n \in Nat, n = Len(s)
  PROVE  \E f : IsQuote(s, n, f)
<1>0. PICK V : V = Nat /\ V # {}
  OBVIOUS
<1> DEFINE I == 1..n + 2
           Body(i, f) == IF i > n THEN 0 ELSE IF s[i] = Quote THEN i
                         ELSE f[i + (IF s[i] = Backslash THEN 2 ELSE 1)]
           H == [x \in I \X [I -> V] |-> Body(x[1], x[2])]
           Solves(g) == g = [i \in I |-> Body(i, g)]
           g == CHOOSE g : Solves(g)
<1>1. PICK Z \in Nat : Z = n + 2
  OBVIOUS
<1>2. PICK r \in [I -> 0..Z] : r = Ahead(n + 1)
  <2>1. \A i \in I : Ahead(n + 1)[i] \in 0..Z
    BY <1>1 DEF Ahead
  <2>2. Ahead(n + 1) = [i \in I |-> Ahead(n + 1)[i]]
    BY DEF Ahead
  <2> HIDE DEF I
  <2> QED
    BY <2>1, <2>2
<1>3. \A i \in I : i <= n => i + 1 \in I /\ i + 2 \in I /\ r[i + 1] < r[i] /\ r[i + 2] < r[i]
  BY <1>2 DEF Ahead
<1>4. ASSUME NEW i \in I, NEW f \in [I -> V] PROVE Body(i, f) \in V
  <2>1. i <= n => f[i + 1] \in Nat /\ f[i + 2] \in Nat
    BY <1>0, <1>3
  <2>2. Body(i, f) \in Nat
    BY <2>1
  <2> QED
    BY <1>0, <2>2
<1>5. ASSUME NEW i \in I, NEW f, NEW h, \A j \in I : r[j] < r[i] => f[j] = h[j] PROVE Body(i, f) = Body(i, h)
  <2>1. i <= n => f[i + 1] = h[i + 1] /\ f[i + 2] = h[i + 2]
    BY <1>3, <1>5
  <2>2. CASE i > n \/ s[i] = Quote
    BY <2>2
  <2>3. CASE ~(i > n) /\ s[i] # Quote
    <3>1. f[i + (IF s[i] = Backslash THEN 2 ELSE 1)] = h[i + (IF s[i] = Backslash THEN 2 ELSE 1)]
      BY <2>1, <2>3
    <3> QED
      BY <2>3, <3>1
  <2> QED
    BY <2>2, <2>3
<1> HIDE DEF Body
<1>6. \E f \in [I -> V] : \A i \in I : f[i] = Body(i, f)
  <2>1. \A i \in I : \A f \in [I -> V] : H[<<i, f>>] = Body(i, f)
    OBVIOUS
  <2> HIDE DEF I, H
  <2>2. \A i \in I, f \in [I -> V] : H[<<i, f>>] \in V
    BY <1>4, <2>1
  <2>3. ASSUME NEW i \in I, NEW f \in [I -> V], NEW h \in [I -> V], \A j \in I : r[j] < r[i] => f[j] = h[j]
        PROVE  H[<<i, f>>] = H[<<i, h>>]
    <3>1. Body(i, f) = Body(i, h)
      BY <1>5, <2>3
    <3> QED
      BY <2>1, <3>1
  <2>4. Recursive(I, V, Z, r, H)
    BY <1>0, <2>2, <2>3 DEF Recursive
  <2>5. \E f \in [I -> V] : \A i \in I : f[i] = H[<<i, f>>]
    BY <2>4, Recursion
  <2> QED
    BY <2>1, <2>5
<1>7. PICK f \in [I -> V] : \A i \in I : f[i] = Body(i, f)
  BY <1>6
<1>8. Solves(g)
  <2>1. Solves(f)
    BY <1>7
  <2> QED
    BY <2>1
<1>9. \A i \in I : ClosingQuote(s, i) = g[i]
  BY DEF ClosingQuote, Body
<1> HIDE DEF g, I
<1>10. f = g
  <2>1. ASSUME NEW i \in I, \A j \in I : r[j] < r[i] => f[j] = g[j] PROVE f[i] = g[i]
    BY <1>5, <1>7, <1>8, <2>1
  <2>2. Alike(I, Z, r, f, g)
    BY <2>1 DEF Alike
  <2>3. \A i \in I : f[i] = g[i]
    BY <2>2, Recursions
  <2> QED
    BY <1>8, <2>3
<1> QED
  <2>1. f \in [1..n + 2 -> Nat]
    BY <1>0, <1>7 DEF I
  <2>2. IsQuote(s, n, f)
    BY <1>7, <1>9, <1>10, <2>1 DEF Body, I, IsQuote
  <2> QED
    BY <2>2

\* What is written, unit by unit
Writings == [ok : BOOLEAN, r : Seq(Int)]
LEMMA JoinedIs ==
  ASSUME NEW w \in Writings, NEW out \in Seq(Int)
  PROVE  /\ Joined(out, w) \in Writings
         /\ Joined(out, w).ok = w.ok /\ Joined(out, w).r = out \o w.r
<1>1. w.ok \in BOOLEAN /\ w.r \in Seq(Int)
  BY DEF Writings
<1>2. out \o w.r \in Seq(Int)
  BY <1>1, ConcatProperties
<1> QED
  BY <1>1, <1>2 DEF Writings, Joined

\* A unit ends at or before the byte behind the quote.
LEMMA UnitEnds ==
  ASSUME NEW s \in Seq(Int), NEW e \in 1..Len(s), NEW i \in 1..e + 1, i < e,
         NEW u, u = UnitAt(s, i, e), u.len # 0
  PROVE  /\ FitsAt(s, i, e, u)
         /\ u.len \in {1, 2, 6, 12} /\ i + u.len \in 1..e + 1 /\ u.out \in Seq(Int)
<1>1. Len(s) \in Nat /\ e \in Int /\ i \in Int /\ i \in 1..Len(s) /\ 1 <= i
  OBVIOUS
<1>2. FitsAt(s, i, e, u)
  BY <1>1, UnitFits
<1>3. CASE u.len = 1
  BY <1>1, <1>2, <1>3 DEF FitsAt
<1>4. CASE u.len = 2
  BY <1>1, <1>2, <1>4 DEF FitsAt
<1>5. CASE u.len = 6
  BY <1>1, <1>2, <1>5 DEF FitsAt
<1>6. CASE u.len = 12
  BY <1>1, <1>2, <1>6 DEF FitsAt
<1> QED
  BY <1>2, <1>3, <1>4, <1>5, <1>6 DEF FitsAt

LEMMA Nearer ==
  ASSUME NEW e \in Nat, NEW i \in 1..e + 1, NEW l \in {1, 2, 6, 12}, i + l \in 1..e + 1
  PROVE  Ahead(e)[i + l] < Ahead(e)[i]
<1>1. l \in Int /\ l > 0 /\ e \in Int /\ i \in Int
  OBVIOUS
<1>2. Ahead(e)[i + l] = e + 1 - (i + l) /\ Ahead(e)[i] = e + 1 - i
  BY DEF Ahead
<1> QED
  BY <1>1, <1>2

IsWritten(s, e, f) ==
  /\ f \in [1..e + 1 -> Writings]
  /\ \A i \in 1..e + 1 : Unescape(s, i, e) = f[i]
  /\ \A i \in 1..e + 1 : f[i] =
       IF i >= e THEN [ok |-> TRUE, r |-> <<>>]
       ELSE IF UnitAt(s, i, e).len = 0 THEN [ok |-> FALSE, r |-> <<>>]
       ELSE Joined(UnitAt(s, i, e).out, f[i + UnitAt(s, i, e).len])
LEMMA WrittenIs ==
  ASSUME NEW s \in Seq(Int), NEW e \in 1..Len(s)
  PROVE  \E f : IsWritten(s, e, f)
<1>0. PICK V : V = Writings /\ V # {}
  <2>1. [ok |-> TRUE, r |-> <<>>] \in Writings
    BY DEF Writings
  <2> QED
    BY <2>1
<1> DEFINE I == 1..e + 1
           Body(i, f) == IF i >= e THEN [ok |-> TRUE, r |-> <<>>]
                         ELSE IF UnitAt(s, i, e).len = 0 THEN [ok |-> FALSE, r |-> <<>>]
                         ELSE Joined(UnitAt(s, i, e).out, f[i + UnitAt(s, i, e).len])
           H == [x \in I \X [I -> V] |-> Body(x[1], x[2])]
           Solves(g) == g = [i \in I |-> Body(i, g)]
           g == CHOOSE g : Solves(g)
<1>1. PICK Z \in Nat : Z = e + 1
  OBVIOUS
<1>2. PICK r \in [I -> 0..Z] : r = Ahead(e)
  <2>1. \A i \in I : Ahead(e)[i] \in 0..Z
    BY <1>1 DEF Ahead
  <2>2. Ahead(e) = [i \in I |-> Ahead(e)[i]]
    BY DEF Ahead
  <2> HIDE DEF I
  <2> QED
    BY <2>1, <2>2
<1>3. ASSUME NEW i \in I, i < e, NEW u, u = UnitAt(s, i, e), u.len # 0
      PROVE  i + u.len \in I /\ r[i + u.len] < r[i] /\ u.out \in Seq(Int)
  <2>1. u.len \in {1, 2, 6, 12} /\ i + u.len \in I /\ u.out \in Seq(Int)
    BY <1>3, UnitEnds
  <2>2. Ahead(e)[i + u.len] < Ahead(e)[i]
    <3>1. e \in Nat /\ i \in 1..e + 1 /\ i + u.len \in 1..e + 1 /\ u.len \in {1, 2, 6, 12}
      BY <2>1
    <3> HIDE DEF I, Body
    <3> QED
      BY <3>1, Nearer
  <2> QED
    BY <1>2, <2>1, <2>2
<1>4. ASSUME NEW i \in I, NEW f \in [I -> V] PROVE Body(i, f) \in V
  <2>1. [ok |-> TRUE, r |-> <<>>] \in V /\ [ok |-> FALSE, r |-> <<>>] \in V
    BY <1>0 DEF Writings
  <2>2. PICK u : u = UnitAt(s, i, e)
    OBVIOUS
  <2>3. CASE i < e /\ u.len # 0
    <3>1. f[i + u.len] \in Writings /\ u.out \in Seq(Int)
      BY <1>0, <1>3, <2>2, <2>3
    <3>2. Joined(u.out, f[i + u.len]) \in Writings
      BY <3>1, JoinedIs
    <3> QED
      BY <1>0, <2>2, <2>3, <3>2
  <2> QED
    BY <2>1, <2>2, <2>3
<1>5. ASSUME NEW i \in I, NEW f, NEW h, \A j \in I : r[j] < r[i] => f[j] = h[j] PROVE Body(i, f) = Body(i, h)
  <2>1. PICK u : u = UnitAt(s, i, e)
    OBVIOUS
  <2>2. CASE i < e /\ u.len # 0
    <3>1. f[i + u.len] = h[i + u.len]
      BY <1>3, <1>5, <2>1, <2>2
    <3> QED
      BY <2>1, <2>2, <3>1
  <2>3. CASE i >= e
    <3> HIDE DEF I
    <3> QED
      BY <2>3
  <2>4. CASE ~(i >= e) /\ u.len = 0
    <3> HIDE DEF I
    <3> QED
      BY <2>1, <2>4
  <2>5. i < e <=> ~(i >= e)
    OBVIOUS
  <2> QED
    BY <2>2, <2>3, <2>4, <2>5
<1> HIDE DEF Body
<1>6. \E f \in [I -> V] : \A i \in I : f[i] = Body(i, f)
  <2>1. \A i \in I : \A f \in [I -> V] : H[<<i, f>>] = Body(i, f)
    OBVIOUS
  <2> HIDE DEF I, H
  <2>2. \A i \in I, f \in [I -> V] : H[<<i, f>>] \in V
    BY <1>4, <2>1
  <2>3. ASSUME NEW i \in I, NEW f \in [I -> V], NEW h \in [I -> V], \A j \in I : r[j] < r[i] => f[j] = h[j]
        PROVE  H[<<i, f>>] = H[<<i, h>>]
    <3>1. Body(i, f) = Body(i, h)
      BY <1>5, <2>3
    <3> QED
      BY <2>1, <3>1
  <2>4. Recursive(I, V, Z, r, H)
    BY <1>0, <2>2, <2>3 DEF Recursive
  <2>5. \E f \in [I -> V] : \A i \in I : f[i] = H[<<i, f>>]
    BY <2>4, Recursion
  <2> QED
    BY <2>1, <2>5
<1>7. PICK f \in [I -> V] : \A i \in I : f[i] = Body(i, f)
  BY <1>6
<1>8. Solves(g)
  <2>1. Solves(f)
    BY <1>7
  <2> QED
    BY <2>1
<1>9. \A i \in I : Unescape(s, i, e) = g[i]
  BY DEF Unescape, Body
<1> HIDE DEF g, I
<1>10. f = g
  <2>1. ASSUME NEW i \in I, \A j \in I : r[j] < r[i] => f[j] = g[j] PROVE f[i] = g[i]
    BY <1>5, <1>7, <1>8, <2>1
  <2>2. Alike(I, Z, r, f, g)
    BY <2>1 DEF Alike
  <2>3. \A i \in I : f[i] = g[i]
    BY <2>2, Recursions
  <2> QED
    BY <1>8, <2>3
<1> QED
  <2>1. f \in [1..e + 1 -> Writings]
    BY <1>0, <1>7 DEF I
  <2>2. IsWritten(s, e, f)
    BY <1>7, <1>9, <1>10, <2>1 DEF Body, I, IsWritten
  <2> QED
    BY <2>2

\* The quote lies ahead, and every step of the search finds the same.
LEMMA QuoteAhead ==
  ASSUME NEW s, NEW n \in Nat, n = Len(s), NEW i \in 1..n + 2, NEW e, e = ClosingQuote(s, i), e # 0
  PROVE  /\ e \in i..n /\ s[e] = Quote
         /\ i < e => s[i] # Quote /\ ClosingQuote(s, i + (IF s[i] = Backslash THEN 2 ELSE 1)) = e
<1>0. PICK f : IsQuote(s, n, f)
  BY QuoteIs
<1>1. /\ f \in [1..n + 2 -> Nat]
      /\ \A k \in 1..n + 2 : ClosingQuote(s, k) = f[k]
      /\ \A k \in 1..n + 2 : f[k] = IF k > n THEN 0 ELSE IF s[k] = Quote THEN k
           ELSE f[k + (IF s[k] = Backslash THEN 2 ELSE 1)]
  BY <1>0 DEF IsQuote
<1> DEFINE Onward(k) == k + (IF s[k] = Backslash THEN 2 ELSE 1)
           Bad == {k \in 1..n + 2 : f[k] # 0 /\ ~(f[k] \in k..n /\ s[f[k]] = Quote)}
<1>2. \A k \in 1..n : Onward(k) \in 1..n + 2 /\ Onward(k) > k
  OBVIOUS
<1>3. Bad = {}
  <2>1. SUFFICES ASSUME Bad # {} PROVE FALSE
    OBVIOUS
  <2>2. PICK k \in Bad : \A m \in Bad : m <= k
    <3>1. Bad \in SUBSET (0..n + 2) /\ n + 2 \in Nat
      OBVIOUS
    <3> HIDE DEF Bad
    <3> QED
      BY <2>1, <3>1, GreatestNumber
  <2>3. k \in 1..n /\ s[k] # Quote /\ f[k] = f[Onward(k)]
    BY <1>1, <2>2
  <2>4. Onward(k) \notin Bad
    <3>1. Onward(k) > k /\ Onward(k) \in Int /\ k \in Int
      BY <1>2, <2>3
    <3> HIDE DEF Bad, Onward
    <3> QED
      BY <2>2, <3>1
  <2>5. f[k] \in Onward(k)..n /\ s[f[k]] = Quote
    BY <1>2, <2>2, <2>3, <2>4
  <2> QED
    BY <1>2, <2>2, <2>3, <2>5
<1>4. e = f[i] /\ e \in i..n /\ s[e] = Quote
  BY <1>1, <1>3
<1>5. ASSUME i < e PROVE s[i] # Quote /\ ClosingQuote(s, Onward(i)) = e
  <2>1. i <= n /\ s[i] # Quote /\ f[i] = f[Onward(i)]
    BY <1>1, <1>4, <1>5
  <2> QED
    BY <1>1, <1>2, <1>4, <2>1
<1> QED
  BY <1>4, <1>5

\* How many steps the search takes from each byte to the quote
Walk(s, e, steps) ==
  /\ steps \in [1..e + 1 -> Nat]
  /\ \A i \in 1..e + 1 : steps[i] = IF i >= e THEN 0
       ELSE 1 + steps[i + (IF s[i] = Backslash THEN 2 ELSE 1)]
LEMMA WalkExists ==
  ASSUME NEW s, NEW e \in Nat
  PROVE  \E steps : Walk(s, e, steps)
<1> DEFINE I == 1..e + 1
           Body(i, f) == IF i >= e THEN 0 ELSE 1 + f[i + (IF s[i] = Backslash THEN 2 ELSE 1)]
           H == [x \in I \X [I -> Nat] |-> Body(x[1], x[2])]
<1>1. \A i \in I : Ahead(e)[i] \in 0..e + 1
  BY DEF Ahead
<1>2. Ahead(e) = [i \in I |-> Ahead(e)[i]]
  BY DEF Ahead
<1>3. \A i \in I : i < e => i + 1 \in I /\ i + 2 \in I /\ Ahead(e)[i + 1] < Ahead(e)[i] /\ Ahead(e)[i + 2] < Ahead(e)[i]
  BY DEF Ahead
<1>4. \A i \in I, f \in [I -> Nat] : H[<<i, f>>] = Body(i, f)
  OBVIOUS
<1>5. ASSUME NEW i \in I, NEW f \in [I -> Nat] PROVE Body(i, f) \in Nat
  <2>1. i < e => f[i + 1] \in Nat /\ f[i + 2] \in Nat
    BY <1>3
  <2> QED
    BY <2>1
<1>6. ASSUME NEW i \in I, NEW f \in [I -> Nat], NEW h \in [I -> Nat],
             \A j \in I : Ahead(e)[j] < Ahead(e)[i] => f[j] = h[j]
      PROVE  Body(i, f) = Body(i, h)
  <2>1. CASE i >= e
    BY <2>1
  <2>2. CASE i < e /\ s[i] = Backslash
    BY <1>3, <1>6, <2>2
  <2>3. CASE i < e /\ s[i] # Backslash
    BY <1>3, <1>6, <2>3
  <2> QED
    BY <2>1, <2>2, <2>3
<1> HIDE DEF Body, H, I
<1>7. Recursive(I, Nat, e + 1, Ahead(e), H)
  <2>1. Ahead(e) \in [I -> 0..e + 1] /\ e + 1 \in Nat /\ Nat # {}
    BY <1>1, <1>2
  <2>2. \A i \in I, f \in [I -> Nat] : H[<<i, f>>] \in Nat
    BY <1>4, <1>5
  <2>3. ASSUME NEW i \in I, NEW f \in [I -> Nat], NEW h \in [I -> Nat],
               \A j \in I : Ahead(e)[j] < Ahead(e)[i] => f[j] = h[j]
        PROVE  H[<<i, f>>] = H[<<i, h>>]
    BY <1>4, <1>6, <2>3
  <2> QED
    BY <2>1, <2>2, <2>3 DEF Recursive
<1>8. PICK f \in [I -> Nat] : \A i \in I : f[i] = H[<<i, f>>]
  BY <1>7, Recursion
<1>9. Walk(s, e, f)
  BY <1>4, <1>8 DEF Walk, Body, I
<1> QED
  BY <1>9

\* From a byte to one at most as far as the quote: the walk meets it or the
\* backslash before it, and a step takes at most two bytes.
Meets(s, e, steps, i, j, w) ==
  /\ w \in {j, j - 1} /\ i <= w /\ w \in 1..e
  /\ w = j - 1 => s[w] = Backslash
  /\ 2 * (steps[i] - steps[w]) >= w - i
LEMMA WalkMeets ==
  ASSUME NEW s, NEW e \in Nat, NEW steps, Walk(s, e, steps), NEW j \in 1..e, NEW i \in 1..j
  PROVE  \E w : Meets(s, e, steps, i, j, w)
<1> DEFINE Bad == {k \in 1..j : ~(\E w : Meets(s, e, steps, k, j, w))}
<1>1. SUFFICES ASSUME Bad # {} PROVE FALSE
  OBVIOUS
<1>2. PICK k \in Bad : \A m \in Bad : m <= k
  <2>1. Bad \in SUBSET (0..j) /\ j \in Nat
    OBVIOUS
  <2> HIDE DEF Bad
  <2> QED
    BY <1>1, <2>1, GreatestNumber
<1>3. k \in 1..j /\ k \in Int /\ j \in Int /\ j <= e /\ steps[k] \in Nat
  BY DEF Walk
<1>4. k < j
  <2>1. SUFFICES ASSUME k = j PROVE FALSE
    BY <1>3
  <2>2. Meets(s, e, steps, k, j, j)
    BY <1>3, <2>1 DEF Meets
  <2> QED
    BY <1>2, <2>2
<1>5. PICK n \in Int : n = k + (IF s[k] = Backslash THEN 2 ELSE 1)
  BY <1>3
<1>6. n \in 1..e + 1 /\ steps[k] = 1 + steps[n] /\ steps[n] \in Nat /\ (n = k + 1 \/ n = k + 2)
  BY <1>3, <1>4, <1>5 DEF Walk
<1>7. CASE n <= j
  <2>1. n \notin Bad
    BY <1>2, <1>3, <1>6
  <2>2. PICK w : Meets(s, e, steps, n, j, w)
    BY <1>3, <1>6, <1>7, <2>1
  <2>3. w \in Int /\ w \in 1..e /\ steps[w] \in Nat
    BY <1>3, <2>2 DEF Meets, Walk
  <2>4. 2 * (steps[k] - steps[w]) >= w - k
    <3>1. 2 * (steps[n] - steps[w]) >= w - n
      BY <2>2 DEF Meets
    <3> QED
      BY <1>3, <1>6, <2>3, <3>1
  <2>5. Meets(s, e, steps, k, j, w)
    BY <1>3, <1>6, <2>2, <2>3, <2>4 DEF Meets
  <2> QED
    BY <1>2, <2>5
<1>8. CASE n > j
  <2>1. k = j - 1 /\ s[k] = Backslash
    BY <1>3, <1>4, <1>5, <1>6, <1>8
  <2>2. Meets(s, e, steps, k, j, k)
    BY <1>3, <2>1 DEF Meets
  <2> QED
    BY <1>2, <2>2
<1> QED
  BY <1>3, <1>6, <1>7, <1>8

\* The number of steps is what is allocated, if the walk ends on the quote.
LEMMA WalkCounts ==
  ASSUME NEW s, NEW n \in Nat, n = Len(s), NEW e \in 1..n, NEW steps, Walk(s, e, steps),
         NEW i \in 1..e, ClosingQuote(s, i) = e
  PROVE  steps[i] = e - i - Skipped(s, i, e)
<1> e \in Nat
  OBVIOUS
<1>0. PICK f : IsSkipped(s, e, f)
  BY SkippedIs
<1>1. /\ f \in [1..e + 1 -> Nat]
      /\ \A k \in 1..e + 1 : Skipped(s, k, e) = f[k]
      /\ \A k \in 1..e + 1 : f[k] = IF k >= e THEN 0
           ELSE IF s[k] = Backslash THEN 1 + f[k + 2] ELSE f[k + 1]
  BY <1>0 DEF IsSkipped
<1> DEFINE Bad == {k \in 1..e : ClosingQuote(s, k) = e /\ steps[k] # e - k - f[k]}
<1>2. SUFFICES ASSUME Bad # {} PROVE FALSE
  <2>1. Skipped(s, i, e) = f[i]
    BY <1>1
  <2> QED
    BY <2>1
<1>3. PICK k \in Bad : \A m \in Bad : m <= k
  <2>1. Bad \in SUBSET (0..e) /\ e \in Nat
    OBVIOUS
  <2> HIDE DEF Bad
  <2> QED
    BY <1>2, <2>1, GreatestNumber
<1>4. k < e
  <2>1. steps[e] = 0 /\ f[e] = 0
    BY <1>1 DEF Walk
  <2> QED
    BY <1>3, <2>1
<1>5. PICK m \in Int : m = k + (IF s[k] = Backslash THEN 2 ELSE 1)
  OBVIOUS
<1>6. ClosingQuote(s, m) = e
  <2>1. k \in 1..n + 2 /\ e # 0 /\ e = ClosingQuote(s, k)
    BY <1>3
  <2> QED
    BY <1>4, <1>5, <2>1, QuoteAhead
<1>7. m \in 1..e
  <2>1. m \in 1..n + 2 /\ e # 0 /\ 1 <= m
    BY <1>4, <1>5
  <2>2. e \in m..n
    BY <1>6, <2>1, QuoteAhead
  <2> QED
    BY <2>1, <2>2
<1>8. steps[m] = e - m - f[m]
  <2>1. m \notin Bad
    BY <1>3, <1>5
  <2> QED
    BY <1>6, <1>7, <2>1
<1>9. steps[k] = 1 + steps[m] /\ f[k] \in Nat /\ f[m] \in Nat /\ steps[m] \in Nat
  <2>1. k \in 1..e + 1 /\ m \in 1..e + 1 /\ ~(k >= e)
    BY <1>4, <1>7
  <2>2. steps[k] = 1 + steps[m]
    BY <1>5, <2>1 DEF Walk
  <2>3. steps[m] \in Nat
    BY <2>1 DEF Walk
  <2> QED
    BY <1>1, <2>1, <2>2, <2>3
<1>10. f[k] = (m - k - 1) + f[m]
  <2>1. ~(k >= e) /\ k \in 1..e + 1 /\ k \in Int
    BY <1>4
  <2>2. CASE s[k] = Backslash
    <3>1. m = k + 2 /\ m - k - 1 = 1
      BY <1>5, <2>1, <2>2
    <3> QED
      BY <1>1, <2>1, <2>2, <3>1
  <2>3. CASE s[k] # Backslash
    <3>1. m = k + 1 /\ m - k - 1 = 0
      BY <1>5, <2>1, <2>3
    <3>2. f[k] = f[m]
      BY <1>1, <2>1, <2>3, <3>1
    <3> QED
      BY <1>9, <3>1, <3>2
  <2> QED
    BY <2>2, <2>3
<1>11. PICK x \in Nat, y \in Nat : x = f[m] /\ y = f[k] /\ y = (m - k - 1) + x
  BY <1>9, <1>10
<1>12. steps[k] = e - k - y
  <2>1. steps[k] = 1 + (e - m - x) /\ k \in Int
    BY <1>8, <1>9, <1>11
  <2>2. PICK z \in Int : z = steps[k] /\ z = 1 + (e - m - x)
    BY <1>11, <2>1
  <2>3. y = (m - k - 1) + x
    BY <1>11
  <2>4. z = e - k - y
    BY <2>1, <2>2, <2>3
  <2> QED
    BY <2>2, <2>4
<1> QED
  BY <1>3, <1>11, <1>12

\* From any byte no more is written than the walk has steps, and from the byte
\* behind a backslash no more than it has from the backslash: a unit that ends
\* inside an escape of the walk is made up for.
Bounded(s, e, steps, len, i) ==
  /\ len[i] <= steps[i]
  /\ i > 1 /\ i - 1 < e /\ s[i - 1] = Backslash => len[i] <= steps[i - 1]
Lengths(s, e, len) ==
  /\ len \in [1..e + 1 -> Nat]
  /\ \A i \in 1..e + 1 : i >= e \/ UnitAt(s, i, e).len = 0 => len[i] = 0
  /\ \A i \in 1..e : i < e /\ UnitAt(s, i, e).len # 0 =>
       len[i] = Len(UnitAt(s, i, e).out) + len[i + UnitAt(s, i, e).len]
\* Arithmetic of the lengths below
LEMMA OneStepMore ==
  ASSUME NEW a \in Nat, NEW b \in Nat, NEW x \in Nat, NEW y \in Nat, NEW o \in Nat,
         a = o + b, o <= 1, b <= x, y = 1 + x
  PROVE  a <= y
OBVIOUS
LEMMA PairOut ==
  ASSUME NEW o \in Nat, NEW l \in {6, 12}, NEW k \in Int, NEW e \in Int,
         l = 6 => o <= 3 /\ k + 6 <= e, l = 12 => o <= 4 /\ k + 12 <= e
  PROVE  2 * o <= l /\ k + l <= e
OBVIOUS
LEMMA HalfTheBytes ==
  ASSUME NEW x \in Nat, NEW y \in Nat, NEW w \in Int, NEW b \in Int, NEW l \in {6, 12}, NEW o \in Nat,
         2 * (x - y) >= w - b, w - b >= l - 1, 2 * o <= l
  PROVE  o + y <= x
OBVIOUS
LEMMA Allocation ==
  ASSUME NEW e \in Int, NEW p \in Int, NEW k \in Int, NEW l \in Int, NEW t \in Int,
         l <= t, t = e - (p + 1) - k
  PROVE  l + 1 <= e - p - k + 1
OBVIOUS

LEMMA WrittenBounded ==
  ASSUME NEW s \in Seq(Int), NEW e \in 1..Len(s), NEW steps, Walk(s, e, steps),
         NEW len, Lengths(s, e, len), NEW i \in 1..e + 1
  PROVE  Bounded(s, e, steps, len, i)
<1> DEFINE Bad == {k \in 1..e + 1 : ~Bounded(s, e, steps, len, k)}
<1> SUFFICES ASSUME Bad # {} PROVE FALSE
  OBVIOUS
<1>0. e \in Nat /\ e + 1 \in Nat /\ e <= Len(s) /\ e \in 1..e /\ Len(s) \in Nat
  OBVIOUS
<1>1. PICK k \in Bad : \A m \in Bad : m <= k
  <2>1. Bad \in SUBSET (0..e + 1)
    BY <1>0
  <2> HIDE DEF Bad
  <2> QED
    BY <1>0, <2>1, GreatestNumber
<1>2. k \in 1..e + 1 /\ k \in Int /\ ~Bounded(s, e, steps, len, k)
  BY <1>0
<1>3. ASSUME NEW m \in 1..e + 1, m > k PROVE Bounded(s, e, steps, len, m)
  <2>1. m \notin Bad
    BY <1>0, <1>1, <1>2, <1>3
  <2> QED
    BY <2>1
<1> HIDE DEF Bad
<1>4. \A m \in 1..e + 1 : steps[m] \in Nat /\ len[m] \in Nat
  BY DEF Walk, Lengths
<1>5. k < e /\ UnitAt(s, k, e).len # 0
  <2>1. SUFFICES ASSUME k >= e \/ UnitAt(s, k, e).len = 0 PROVE FALSE
    BY <1>0, <1>2
  <2>2. len[k] = 0
    BY <1>2, <2>1 DEF Lengths
  <2>3. k > 1 => k - 1 \in 1..e + 1
    BY <1>0, <1>2
  <2> QED
    BY <1>2, <1>4, <2>2, <2>3 DEF Bounded
<1>6. PICK u : u = UnitAt(s, k, e)
  OBVIOUS
<1>7. FitsAt(s, k, e, u) /\ u.len \in {1, 2, 6, 12} /\ k + u.len \in 1..e + 1
  BY <1>2, <1>5, <1>6, UnitEnds
<1>8. PICK j \in 1..e + 1 : j = k + u.len /\ j > k
  <2>1. PICK l \in {1, 2, 6, 12} : l = u.len
    BY <1>7
  <2>2. k + l > k /\ k + l \in 1..e + 1
    BY <1>2, <1>7, <2>1
  <2> QED
    BY <2>1, <2>2
<1>9. len[k] = Len(u.out) + len[j] /\ Bounded(s, e, steps, len, j) /\ len[j] \in Nat /\ steps[k] \in Nat /\ steps[j] \in Nat
  <2>1. k \in 1..e
    BY <1>0, <1>2, <1>5
  <2>2. len[k] = Len(u.out) + len[k + u.len]
    BY <1>5, <1>6, <2>1 DEF Lengths
  <2> QED
    BY <1>2, <1>3, <1>4, <1>8, <2>2
<1>10. steps[k] = 1 + steps[k + (IF s[k] = Backslash THEN 2 ELSE 1)]
  BY <1>2, <1>5 DEF Walk
<1>11. k > 1 /\ s[k - 1] = Backslash => steps[k - 1] = 1 + steps[k + 1] /\ k - 1 \in 1..e /\ k + 1 \in 1..e
  <2>1. k > 1 => k - 1 \in 1..e /\ k - 1 < e /\ k + 1 = (k - 1) + 2 /\ k + 1 \in 1..e
    BY <1>0, <1>2, <1>5
  <2>2. ASSUME k > 1, s[k - 1] = Backslash PROVE steps[k - 1] = 1 + steps[(k - 1) + 2]
    <3>1. PICK m \in 1..e + 1 : m = k - 1 /\ m < e /\ m \in Int /\ s[m] = Backslash
      BY <1>0, <2>1, <2>2
    <3>2. ~(m >= e)
      BY <1>0, <3>1
    <3>3. steps[m] = 1 + steps[m + (IF s[m] = Backslash THEN 2 ELSE 1)]
      BY <3>2 DEF Walk
    <3> QED
      BY <3>1, <3>3
  <2> QED
    BY <2>1, <2>2
\* A byte as it is
<1>12. CASE u.len = 1
  <2>1. s[k] # Backslash /\ Len(u.out) = 1 /\ j = k + 1
    BY <1>7, <1>8, <1>12 DEF FitsAt
  <2>2. len[k] <= 1 + steps[k + 1]
    <3>1. len[j] <= steps[j] /\ len[k] = 1 + len[j]
      BY <1>9, <2>1 DEF Bounded
    <3> QED
      BY <1>9, <2>1, <3>1
  <2> QED
    BY <1>2, <1>10, <1>11, <2>1, <2>2 DEF Bounded
\* A letter behind a backslash
<1>13. CASE u.len = 2
  <2>1. s[k] = Backslash /\ Len(u.out) = 1 /\ j = k + 2
    BY <1>7, <1>8, <1>13 DEF FitsAt
  <2>2. len[k] <= steps[k]
    <3>1. len[j] <= steps[j] /\ len[k] = 1 + len[j]
      BY <1>9, <2>1 DEF Bounded
    <3>2. steps[k] = 1 + steps[j]
      BY <1>10, <2>1
    <3> QED
      BY <1>2, <1>4, <1>9, <3>1, <3>2, OneStepMore
  <2>3. ASSUME k > 1, s[k - 1] = Backslash PROVE len[k] <= steps[k - 1]
    <3>1. steps[k - 1] = 1 + steps[k + 1] /\ k + 1 \in 1..e /\ steps[k + 1] \in Nat
      BY <1>0, <1>4, <1>11, <2>3
    <3>2. CASE k + 1 = e
      <4>1. len[j] = 0
        BY <1>0, <1>2, <2>1, <3>2 DEF Lengths
      <4> QED
        BY <1>9, <2>1, <3>1, <4>1
    <3>3. CASE k + 1 < e /\ s[k + 1] = Backslash
      <4>1. j > 1 /\ j - 1 < e /\ j - 1 = k + 1
        BY <1>2, <2>1, <3>3
      <4>2. len[j] <= steps[k + 1]
        BY <1>9, <3>3, <4>1 DEF Bounded
      <4> QED
        <5>1. len[k] = 1 + len[j] /\ len[k] \in Nat
          BY <1>2, <1>4, <1>9, <2>1
        <5>2. PICK a \in Nat, b \in Nat, x \in Nat, y \in Nat :
                a = len[k] /\ b = len[j] /\ x = steps[k + 1] /\ y = steps[k - 1]
          BY <1>9, <3>1, <5>1
        <5>3. a = 1 + b /\ b <= x /\ y = 1 + x
          BY <3>1, <4>2, <5>1, <5>2
        <5>4. a <= y
          BY <5>3, OneStepMore
        <5> QED
          BY <5>2, <5>4
    <3>4. CASE k + 1 < e /\ s[k + 1] # Backslash
      <4>1. steps[k + 1] = 1 + steps[j]
        <5>1. (k + 1) + 1 = j
          BY <1>2, <2>1
        <5>2. steps[k + 1] = 1 + steps[(k + 1) + 1]
          <6>1. k + 1 \in 1..e + 1 /\ ~(k + 1 >= e)
            BY <1>0, <3>1, <3>4
          <6>2. steps[k + 1] = 1 + steps[(k + 1) + (IF s[k + 1] = Backslash THEN 2 ELSE 1)]
            BY <6>1 DEF Walk
          <6> QED
            BY <3>4, <6>2
        <5> QED
          BY <5>1, <5>2
      <4>2. len[j] <= steps[j]
        BY <1>9 DEF Bounded
      <4> QED
        <5>1. len[k] = 1 + len[j] /\ len[k] \in Nat
          BY <1>2, <1>4, <1>9, <2>1
        <5>2. len[k] <= steps[k + 1]
          <6>1. PICK a \in Nat, b \in Nat, x \in Nat, y \in Nat :
                  a = len[k] /\ b = len[j] /\ x = steps[j] /\ y = steps[k + 1]
            BY <1>9, <3>1, <5>1
          <6>2. a = 1 + b /\ b <= x /\ y = 1 + x
            BY <4>1, <4>2, <5>1, <6>1
          <6>3. a <= y
            BY <6>2, OneStepMore
          <6> QED
            BY <6>1, <6>3
        <5> QED
          BY <3>1, <5>1, <5>2
    <3> QED
      BY <1>0, <1>2, <3>1, <3>2, <3>3, <3>4
  <2> QED
    BY <1>2, <2>2, <2>3 DEF Bounded
\* \uXXXX, and a surrogate pair
<1>14. CASE u.len \in {6, 12}
  <2>1. PICK l \in {6, 12} : j = k + l /\ 2 * Len(u.out) <= l /\ j <= e /\ Len(u.out) \in Nat
    <3>1. PICK o \in Nat, l \in {6, 12} : o = Len(u.out) /\ l = u.len
      BY <1>7, <1>14 DEF FitsAt
    <3>2. (l = 6 => o <= 3 /\ k + 6 <= e) /\ (l = 12 => o <= 4 /\ k + 12 <= e)
      BY <1>7, <3>1 DEF FitsAt
    <3>3. k \in Int /\ e \in Int /\ o \in Nat /\ l \in {6, 12}
      BY <1>0, <1>2
    <3>4. 2 * o <= l /\ k + l <= e
      BY <3>2, <3>3, PairOut
    <3> QED
      BY <1>8, <3>1, <3>4
  <2>2. ASSUME NEW b \in 1..j, k - 1 <= b, b <= k PROVE len[k] <= steps[b]
    <3>1. j \in 1..e
      BY <1>0, <2>1
    <3>2. PICK w : Meets(s, e, steps, b, j, w)
      BY <1>0, <3>1, WalkMeets
    <3>3. w \in 1..e /\ w \in Int /\ 2 * (steps[b] - steps[w]) >= w - b /\ (w = j \/ (w = j - 1 /\ s[j - 1] = Backslash))
      <4>1. w \in {j, j - 1} /\ w \in 1..e /\ 2 * (steps[b] - steps[w]) >= w - b /\ (w = j - 1 => s[w] = Backslash)
        BY <3>2 DEF Meets
      <4> QED
        BY <1>0, <4>1
    <3>4. len[j] <= steps[w]
      <4>1. w = j - 1 => j > 1 /\ j - 1 < e
        BY <3>1, <3>3
      <4> QED
        BY <1>9, <3>3, <4>1 DEF Bounded
    <3>5. w - b >= l - 1
      BY <1>2, <2>1, <2>2, <3>3
    <3>6. steps[b] \in Nat /\ steps[w] \in Nat
      BY <1>0, <1>4, <3>1, <3>3
    <3>7. PICK x \in Nat, y \in Nat : x = steps[b] /\ y = steps[w]
      BY <3>6
    <3>8. PICK o \in Nat : o = Len(u.out) /\ 2 * o <= l
      BY <2>1
    <3>9. 2 * (x - y) >= w - b /\ w \in Int /\ b \in Int
      BY <3>3, <3>7
    <3>10. o + y <= x
      BY <3>5, <3>8, <3>9, HalfTheBytes
    <3>11. PICK q \in Nat : q = len[j] /\ q <= y
      BY <1>9, <3>4, <3>7
    <3>12. o + q <= x
      BY <3>10, <3>11
    <3>13. len[k] = o + q
      BY <1>9, <3>8, <3>11
    <3> QED
      BY <3>7, <3>12, <3>13
  <2>3. len[k] <= steps[k]
    BY <1>2, <1>8, <2>2
  <2>4. k > 1 => len[k] <= steps[k - 1]
    BY <1>2, <1>8, <2>2
  <2> QED
    BY <1>2, <2>3, <2>4 DEF Bounded
<1> QED
  BY <1>7, <1>12, <1>13, <1>14

\* What parse_string() writes, with the NUL, fits what it has allocated for the
\* string, whatever the bytes are: each byte and each escape counts one, \uXXXX
\* has at least three times as many, and a malformed one that swallows the
\* backslash of another escape gains nothing (cJSON.c:714-841).
THEOREM ParsedStringFits ==
  ASSUME NEW s \in Texts, NEW p \in 1..Len(s), NEW e, e = ClosingQuote(s, p + 1), e # 0
  PROVE  StringAllocation(s, p, e).used <= StringAllocation(s, p, e).size
<1>1. s \in Seq(Int) /\ Len(s) \in Nat /\ p \in Int
  BY DEF Texts, Byte
<1>2. p + 1 \in 1..Len(s) + 2
  BY <1>1
<1>3. e \in p + 1..Len(s)
  BY <1>1, <1>2, QuoteAhead
<1>4. e \in 1..Len(s) /\ e \in Nat /\ p + 1 \in 1..e /\ p + 1 \in 1..e + 1
  BY <1>1, <1>3
<1>5. PICK steps : Walk(s, e, steps)
  BY <1>4, WalkExists
<1>6. PICK w : IsWritten(s, e, w)
  BY <1>1, <1>4, WrittenIs
<1>7. PICK len : len = [i \in 1..e + 1 |-> Len(w[i].r)]
  OBVIOUS
<1>8. \A i \in 1..e + 1 : w[i] \in Writings /\ w[i].r \in Seq(Int) /\ len[i] \in Nat /\ len[i] = Len(w[i].r)
  BY <1>6, <1>7 DEF IsWritten, Writings
<1>9. Lengths(s, e, len)
  <2>1. len \in [1..e + 1 -> Nat]
    BY <1>7, <1>8
  <2>2. ASSUME NEW i \in 1..e + 1, i >= e \/ UnitAt(s, i, e).len = 0 PROVE len[i] = 0
    <3>1. w[i].r = <<>>
      BY <1>6, <2>2 DEF IsWritten
    <3> QED
      BY <1>8, <3>1
  <2>3. ASSUME NEW i \in 1..e, i < e, UnitAt(s, i, e).len # 0
        PROVE  len[i] = Len(UnitAt(s, i, e).out) + len[i + UnitAt(s, i, e).len]
    <3>1. PICK u : u = UnitAt(s, i, e)
      OBVIOUS
    <3>2. i \in 1..e + 1 /\ i + u.len \in 1..e + 1 /\ u.out \in Seq(Int)
      <4>1. s \in Seq(Int) /\ e \in 1..Len(s)
        BY <1>1, <1>4
      <4>2. i \in 1..e + 1
        BY <1>1, <1>4
      <4>3. i < e /\ u.len # 0
        BY <2>3, <3>1
      <4> QED
        BY <3>1, <4>1, <4>2, <4>3, UnitEnds
    <3>3. w[i] = Joined(u.out, w[i + u.len])
      <4>1. ~(i >= e)
        BY <1>4, <2>3
      <4> QED
        BY <1>6, <2>3, <3>1, <3>2, <4>1 DEF IsWritten
    <3>4. w[i].r = u.out \o w[i + u.len].r
      BY <1>8, <3>2, <3>3, JoinedIs
    <3>5. Len(w[i].r) = Len(u.out) + Len(w[i + u.len].r)
      BY <1>8, <3>2, <3>4, ConcatProperties
    <3> QED
      BY <1>8, <3>1, <3>2, <3>5
  <2> QED
    BY <2>1, <2>2, <2>3 DEF Lengths
<1>10. len[p + 1] <= steps[p + 1]
  <2>1. Bounded(s, e, steps, len, p + 1)
    BY <1>1, <1>4, <1>5, <1>9, WrittenBounded
  <2> QED
    BY <2>1 DEF Bounded
<1>11. steps[p + 1] = e - (p + 1) - Skipped(s, p + 1, e)
  BY <1>1, <1>4, <1>5, WalkCounts
<1>12. StringAllocation(s, p, e) = [size |-> e - p - Skipped(s, p + 1, e) + 1, used |-> len[p + 1] + 1]
  BY <1>4, <1>6, <1>8 DEF StringAllocation, IsWritten
<1>13. Skipped(s, p + 1, e) \in Int /\ len[p + 1] \in Int /\ steps[p + 1] \in Int
  <2>1. PICK f : IsSkipped(s, e, f)
    BY <1>4, SkippedIs
  <2> QED
    BY <1>4, <1>5, <1>8, <2>1 DEF IsSkipped, Walk
<1>14. PICK k \in Int, l \in Int, t \in Int : k = Skipped(s, p + 1, e) /\ l = len[p + 1] /\ t = steps[p + 1]
  BY <1>13
<1>15. l + 1 <= e - p - k + 1
  <2>1. l <= t /\ t = e - (p + 1) - k
    BY <1>10, <1>11, <1>14
  <2>2. e \in Int /\ p \in Int
    BY <1>1, <1>4
  <2> QED
    BY <2>1, <2>2, Allocation
<1> QED
  BY <1>12, <1>14, <1>15

(***************************************************************************)
(* What print_string_ptr() reserves                                        *)
(***************************************************************************)
Chunks == [need : Nat, bytes : Texts, nul : BOOLEAN]

\* A byte is printed as itself, as \ and a letter, or as \u00XY.
LEMMA EscapedIs ==
  ASSUME NEW b \in Byte
  PROVE  /\ Escaped(b) \in Seq(Byte) /\ EscapeCharacters(b) \in Nat
         /\ Len(Escaped(b)) = 1 + EscapeCharacters(b)
<1>1. CASE b \in ShortEscapes
  <2>1. Letter(b) \in Byte /\ Backslash \in Byte
    BY DEF Letter, Byte, Backslash
  <2>2. Escaped(b) = <<Backslash, Letter(b)>> /\ EscapeCharacters(b) = 1
    BY <1>1 DEF Escaped, EscapeCharacters
  <2> QED
    BY <2>1, <2>2
<1>2. CASE b < 32 /\ b \notin ShortEscapes
  <2>1. PICK x \in Byte, y \in Byte : x = Hex(b \div 16) /\ y = Hex(b % 16)
    <3>1. b \div 16 \in 0..1 /\ b % 16 \in 0..15
      BY <1>2 DEF Byte
    <3> QED
      BY <3>1 DEF Hex, Byte
  <2>2. Escaped(b) = <<Backslash, 117, 48, 48, x, y>> /\ EscapeCharacters(b) = 5
    BY <1>2, <2>1 DEF Escaped, EscapeCharacters
  <2>3. Backslash \in Byte /\ 117 \in Byte /\ 48 \in Byte
    BY DEF Byte, Backslash
  <2> QED
    BY <2>1, <2>2, <2>3
<1>3. CASE ~(b < 32) /\ b \notin ShortEscapes
  <2>1. Escaped(b) = <<b>> /\ EscapeCharacters(b) = 0
    BY <1>3 DEF Escaped, EscapeCharacters
  <2> QED
    BY <2>1
<1> QED
  BY <1>1, <1>2, <1>3

\* The characters that are added from each byte on, and what is printed
IsExtra(v, n, f) ==
  /\ f \in [1..n + 1 -> Nat] /\ ExtraCharacters(v) = f[1]
  /\ \A i \in 1..n + 1 : f[i] = IF i > n THEN 0 ELSE EscapeCharacters(v[i]) + f[i + 1]
LEMMA ExtraIs ==
  ASSUME NEW v \in Texts, NEW n \in Nat, n = Len(v)
  PROVE  \E f : IsExtra(v, n, f)
<1>0. PICK V : V = Nat /\ V # {}
  OBVIOUS
<1> DEFINE I == 1..n + 1
           Body(i, f) == IF i > n THEN 0 ELSE EscapeCharacters(v[i]) + f[i + 1]
           H == [x \in I \X [I -> V] |-> Body(x[1], x[2])]
           Solves(g) == g = [i \in I |-> Body(i, g)]
           g == CHOOSE g : Solves(g)
<1>1. PICK Z \in Nat : Z = n + 1
  OBVIOUS
<1>2. PICK r \in [I -> 0..Z] : r = Ahead(n)
  <2>1. \A i \in I : Ahead(n)[i] \in 0..Z
    BY <1>1 DEF Ahead
  <2>2. Ahead(n) = [i \in I |-> Ahead(n)[i]]
    BY DEF Ahead
  <2> HIDE DEF I
  <2> QED
    BY <2>1, <2>2
<1>3. \A i \in I : i <= n => i + 1 \in I /\ r[i + 1] < r[i] /\ i \in 1..n
  BY <1>2 DEF Ahead
<1>4. ASSUME NEW i \in I, NEW f \in [I -> V] PROVE Body(i, f) \in V
  <2>1. CASE i <= n
    <3>1. EscapeCharacters(v[i]) \in Nat /\ f[i + 1] \in Nat
      <4>1. v[i] \in Byte
        BY <1>3, <2>1 DEF Texts
      <4> QED
        BY <1>0, <1>3, <2>1, <4>1, EscapedIs
    <3>2. Body(i, f) \in Nat
      BY <2>1, <3>1
    <3> QED
      BY <1>0, <3>2
  <2>2. CASE i > n
    BY <1>0, <2>2
  <2> QED
    BY <2>1, <2>2
<1>5. ASSUME NEW i \in I, NEW f, NEW h, \A j \in I : r[j] < r[i] => f[j] = h[j] PROVE Body(i, f) = Body(i, h)
  BY <1>3, <1>5
<1> HIDE DEF Body
<1>6. \E f \in [I -> V] : \A i \in I : f[i] = Body(i, f)
  <2>1. \A i \in I : \A f \in [I -> V] : H[<<i, f>>] = Body(i, f)
    OBVIOUS
  <2> HIDE DEF I, H
  <2>2. \A i \in I, f \in [I -> V] : H[<<i, f>>] \in V
    BY <1>4, <2>1
  <2>3. ASSUME NEW i \in I, NEW f \in [I -> V], NEW h \in [I -> V], \A j \in I : r[j] < r[i] => f[j] = h[j]
        PROVE  H[<<i, f>>] = H[<<i, h>>]
    <3>1. Body(i, f) = Body(i, h)
      BY <1>5, <2>3
    <3> QED
      BY <2>1, <3>1
  <2>4. Recursive(I, V, Z, r, H)
    BY <1>0, <2>2, <2>3 DEF Recursive
  <2>5. \E f \in [I -> V] : \A i \in I : f[i] = H[<<i, f>>]
    BY <2>4, Recursion
  <2> QED
    BY <2>1, <2>5
<1>7. PICK f \in [I -> V] : \A i \in I : f[i] = Body(i, f)
  BY <1>6
<1>8. Solves(g)
  <2>1. Solves(f)
    BY <1>7
  <2> QED
    BY <2>1
<1>9. ExtraCharacters(v) = g[1]
  BY DEF ExtraCharacters, Body
<1> HIDE DEF g, I
<1>10. f = g
  <2>1. ASSUME NEW i \in I, \A j \in I : r[j] < r[i] => f[j] = g[j] PROVE f[i] = g[i]
    BY <1>5, <1>7, <1>8, <2>1
  <2>2. Alike(I, Z, r, f, g)
    BY <2>1 DEF Alike
  <2>3. \A i \in I : f[i] = g[i]
    BY <2>2, Recursions
  <2> QED
    BY <1>8, <2>3
<1> QED
  <2>1. f \in [1..n + 1 -> Nat]
    BY <1>0, <1>7 DEF I
  <2>2. IsExtra(v, n, f)
    BY <1>7, <1>9, <1>10, <2>1 DEF Body, I, IsExtra
  <2> QED
    BY <2>2

IsPrinted(v, n, f) ==
  /\ f \in [1..n + 1 -> Texts] /\ EscapedBytes(v) = f[1]
  /\ \A i \in 1..n + 1 : f[i] = IF i > n THEN <<>> ELSE Escaped(v[i]) \o f[i + 1]
LEMMA PrintedIs ==
  ASSUME NEW v \in Texts, NEW n \in Nat, n = Len(v)
  PROVE  \E f : IsPrinted(v, n, f)
<1>0. PICK V : V = Texts /\ V # {}
  BY EmptySeq DEF Texts
<1> DEFINE I == 1..n + 1
           Body(i, f) == IF i > n THEN <<>> ELSE Escaped(v[i]) \o f[i + 1]
           H == [x \in I \X [I -> V] |-> Body(x[1], x[2])]
           Solves(g) == g = [i \in I |-> Body(i, g)]
           g == CHOOSE g : Solves(g)
<1>1. PICK Z \in Nat : Z = n + 1
  OBVIOUS
<1>2. PICK r \in [I -> 0..Z] : r = Ahead(n)
  <2>1. \A i \in I : Ahead(n)[i] \in 0..Z
    BY <1>1 DEF Ahead
  <2>2. Ahead(n) = [i \in I |-> Ahead(n)[i]]
    BY DEF Ahead
  <2> HIDE DEF I
  <2> QED
    BY <2>1, <2>2
<1>3. \A i \in I : i <= n => i + 1 \in I /\ r[i + 1] < r[i] /\ i \in 1..n
  BY <1>2 DEF Ahead
<1>4. ASSUME NEW i \in I, NEW f \in [I -> V] PROVE Body(i, f) \in V
  <2>1. CASE i <= n
    <3>1. Escaped(v[i]) \in Texts /\ f[i + 1] \in Texts
      <4>1. v[i] \in Byte
        BY <1>3, <2>1 DEF Texts
      <4>2. Escaped(v[i]) \in Texts
        BY <4>1, EscapedIs DEF Texts
      <4> QED
        BY <1>0, <1>3, <2>1, <4>2
    <3>2. Escaped(v[i]) \o f[i + 1] \in Texts
      BY <3>1, ConcatProperties DEF Texts
    <3> QED
      BY <1>0, <2>1, <3>2
  <2>2. CASE i > n
    BY <1>0, <2>2, EmptySeq DEF Texts
  <2> QED
    BY <2>1, <2>2
<1>5. ASSUME NEW i \in I, NEW f, NEW h, \A j \in I : r[j] < r[i] => f[j] = h[j] PROVE Body(i, f) = Body(i, h)
  BY <1>3, <1>5
<1> HIDE DEF Body
<1>6. \E f \in [I -> V] : \A i \in I : f[i] = Body(i, f)
  <2>1. \A i \in I : \A f \in [I -> V] : H[<<i, f>>] = Body(i, f)
    OBVIOUS
  <2> HIDE DEF I, H
  <2>2. \A i \in I, f \in [I -> V] : H[<<i, f>>] \in V
    BY <1>4, <2>1
  <2>3. ASSUME NEW i \in I, NEW f \in [I -> V], NEW h \in [I -> V], \A j \in I : r[j] < r[i] => f[j] = h[j]
        PROVE  H[<<i, f>>] = H[<<i, h>>]
    <3>1. Body(i, f) = Body(i, h)
      BY <1>5, <2>3
    <3> QED
      BY <2>1, <3>1
  <2>4. Recursive(I, V, Z, r, H)
    BY <1>0, <2>2, <2>3 DEF Recursive
  <2>5. \E f \in [I -> V] : \A i \in I : f[i] = H[<<i, f>>]
    BY <2>4, Recursion
  <2> QED
    BY <2>1, <2>5
<1>7. PICK f \in [I -> V] : \A i \in I : f[i] = Body(i, f)
  BY <1>6
<1>8. Solves(g)
  <2>1. Solves(f)
    BY <1>7
  <2> QED
    BY <2>1
<1>9. EscapedBytes(v) = g[1]
  BY DEF EscapedBytes, Body
<1> HIDE DEF g, I
<1>10. f = g
  <2>1. ASSUME NEW i \in I, \A j \in I : r[j] < r[i] => f[j] = g[j] PROVE f[i] = g[i]
    BY <1>5, <1>7, <1>8, <2>1
  <2>2. Alike(I, Z, r, f, g)
    BY <2>1 DEF Alike
  <2>3. \A i \in I : f[i] = g[i]
    BY <2>2, Recursions
  <2> QED
    BY <1>8, <2>3
<1> QED
  <2>1. f \in [1..n + 1 -> Texts]
    BY <1>0, <1>7 DEF I
  <2>2. IsPrinted(v, n, f)
    BY <1>7, <1>9, <1>10, <2>1 DEF Body, I, IsPrinted
  <2> QED
    BY <2>2

\* What is reserved for a string is what is printed and the NUL, to the byte:
\* the pass that counts and the pass that copies know the same escapes
\* (cJSON.c:872-894 and 915-956).
THEOREM StringReserved ==
  ASSUME NEW v \in Texts
  PROVE  /\ PrintString(v) \in Chunks /\ Reserved(PrintString(v))
         /\ PrintString(v).need = Len(PrintString(v).bytes) + 1
<1>1. PICK n \in Nat : n = Len(v)
  BY DEF Texts
<1>2. PICK x : IsExtra(v, n, x)
  BY <1>1, ExtraIs
<1>3. PICK b : IsPrinted(v, n, b)
  BY <1>1, PrintedIs
<1> DEFINE Bad == {i \in 1..n + 1 : Len(b[i]) # n + 1 - i + x[i]}
<1>4. Bad = {}
  <2>1. SUFFICES ASSUME Bad # {} PROVE FALSE
    OBVIOUS
  <2>2. PICK k \in Bad : \A m \in Bad : m <= k
    <3>1. Bad \in SUBSET (0..n + 1) /\ n + 1 \in Nat
      OBVIOUS
    <3> HIDE DEF Bad
    <3> QED
      BY <2>1, <3>1, GreatestNumber
  <2>3. k \in 1..n
    <3>1. SUFFICES ASSUME k = n + 1 PROVE FALSE
      BY <2>2
    <3>2. b[k] = <<>> /\ x[k] = 0
      <4>1. k > n /\ k \in 1..n + 1
        BY <3>1
      <4> QED
        BY <1>2, <1>3, <4>1 DEF IsExtra, IsPrinted
    <3>3. Len(b[k]) = 0
      BY <3>2
    <3> QED
      BY <2>2, <3>1, <3>2, <3>3
  <2>4. Len(b[k + 1]) = n - k + x[k + 1]
    <3>1. k + 1 \in 1..n + 1 /\ k + 1 \notin Bad
      BY <2>2, <2>3
    <3> QED
      BY <2>3, <3>1
  <2>5. b[k] = Escaped(v[k]) \o b[k + 1] /\ x[k] = EscapeCharacters(v[k]) + x[k + 1]
    <3>1. ~(k > n) /\ k \in 1..n + 1
      BY <2>3
    <3> QED
      BY <1>2, <1>3, <3>1 DEF IsExtra, IsPrinted
  <2>6. Escaped(v[k]) \in Texts /\ EscapeCharacters(v[k]) \in Nat /\ Len(Escaped(v[k])) = 1 + EscapeCharacters(v[k])
    <3>1. v[k] \in Byte
      BY <1>1, <2>3 DEF Texts
    <3> QED
      BY <3>1, EscapedIs DEF Texts
  <2>7. b[k + 1] \in Texts /\ x[k + 1] \in Nat
    BY <1>2, <1>3, <2>3 DEF IsExtra, IsPrinted
  <2>8. Len(b[k]) = Len(Escaped(v[k])) + Len(b[k + 1])
    <3>1. b[k + 1] \in Seq(Byte) /\ Escaped(v[k]) \in Seq(Byte)
      BY <2>6, <2>7 DEF Texts
    <3> HIDE DEF Bad
    <3> QED
      BY <2>5, <3>1, ConcatProperties
  <2>9. PICK y \in Nat, l \in Nat, m \in Nat, q \in Nat, z \in Nat, j \in Int :
          /\ y = x[k + 1] /\ l = Len(Escaped(v[k])) /\ m = Len(b[k + 1]) /\ q = EscapeCharacters(v[k])
          /\ z = x[k] /\ j = k
    <3>1. k \in Int /\ x[k] \in Nat
      BY <1>2, <2>3 DEF IsExtra
    <3>2. Len(b[k + 1]) \in Nat /\ Len(Escaped(v[k])) \in Nat
      BY <2>6, <2>7 DEF Texts
    <3> QED
      BY <2>6, <2>7, <3>1, <3>2
  <2>10. Len(b[k]) = l + m /\ z = q + y /\ l = 1 + q /\ m = n - j + y
    BY <2>4, <2>5, <2>6, <2>8, <2>9
  <2>11. l + m # n + 1 - j + z
    BY <2>2, <2>9, <2>10
  <2> HIDE DEF Bad
  <2> QED
    BY <2>10, <2>11
<1>5. b[1] \in Texts /\ EscapedBytes(v) = b[1] /\ x[1] \in Nat /\ ExtraCharacters(v) = x[1] /\ Len(b[1]) = n + x[1]
  <2>1. 1 \in 1..n + 1 /\ 1 \notin Bad
    BY <1>4
  <2> QED
    BY <1>2, <1>3, <2>1 DEF IsExtra, IsPrinted
<1>6. <<Quote>> \in Texts /\ Len(<<Quote>>) = 1
  BY DEF Texts, Byte, Quote
<1>7. PrintString(v).bytes = <<Quote>> \o b[1] \o <<Quote>> /\ PrintString(v).need = Len(v) + x[1] + 3
  BY <1>5 DEF PrintString, Chunk
<1>8. <<Quote>> \o b[1] \in Texts /\ Len(<<Quote>> \o b[1]) = 1 + Len(b[1])
  BY <1>5, <1>6, ConcatProperties DEF Texts
<1>9. PrintString(v).bytes \in Texts /\ Len(PrintString(v).bytes) = 2 + Len(b[1])
  <2>1. PICK q \in Texts : q = <<Quote>> \o b[1] /\ Len(q) = 1 + Len(b[1])
    BY <1>8
  <2>2. q \o <<Quote>> \in Texts /\ Len(q \o <<Quote>>) = Len(q) + 1
    BY <1>6, <2>1, ConcatProperties DEF Texts
  <2>3. Len(b[1]) \in Nat
    BY <1>5 DEF Texts
  <2> QED
    BY <1>7, <2>1, <2>2, <2>3
<1>10. PICK t \in Texts, l \in Nat : t = PrintString(v).bytes /\ l = Len(t) /\ PrintString(v).need = l + 1
  <2>1. PrintString(v).need = n + x[1] + 3 /\ Len(PrintString(v).bytes) = 2 + (n + x[1])
    BY <1>1, <1>5, <1>7, <1>9
  <2>2. PICK y \in Nat : y = x[1]
    BY <1>5
  <2>3. 2 + (n + y) \in Nat /\ n + y + 3 = (2 + (n + y)) + 1
    OBVIOUS
  <2> QED
    BY <1>9, <2>1, <2>2, <2>3
<1>11. PrintString(v) = [need |-> l + 1, bytes |-> t, nul |-> TRUE]
  BY <1>10 DEF PrintString, Chunk
<1>12. Ending(PrintString(v)) = 1
  BY <1>11 DEF Ending
<1>13. l + 1 \in l + 1..l + 1
  OBVIOUS
<1> QED
  BY <1>10, <1>11, <1>12, <1>13 DEF Chunks, Reserved

(***************************************************************************)
(* A printed string is read back                                           *)
(***************************************************************************)
\* The bytes that a C string can hold
Chars == {b \in Byte : b # 0}

\* The three ways a byte is printed
Plain(b) == b \notin ShortEscapes /\ b >= 32 /\ Escaped(b) = <<b>>
Short(b) == /\ Escaped(b) = <<Backslash, Letter(b)>> /\ Letter(b) \in Letters /\ Letter(b) # 117
            /\ Meaning(Letter(b)) = b
            /\ Letter(b) = Quote <=> b = Quote
            /\ Letter(b) = Backslash <=> b = Backslash
Control(b) == /\ b \in 0..31 /\ b # Quote /\ b # Backslash
              /\ Escaped(b) = <<Backslash, 117, 48, 48, Hex(b \div 16), Hex(b % 16)>>
              /\ Hex(b \div 16) \notin {0, Quote, Backslash} /\ Hex(b % 16) \notin {0, Quote, Backslash}
LEMMA Shapes ==
  ASSUME NEW b \in Byte
  PROVE  Plain(b) \/ Short(b) \/ Control(b)
<1>1. CASE b \in ShortEscapes
  <2>1. Escaped(b) = <<Backslash, Letter(b)>>
    BY <1>1 DEF Escaped
  <2>2. /\ Letter(b) \in Letters /\ Letter(b) # 117 /\ Meaning(Letter(b)) = b
        /\ Letter(b) = Quote <=> b = Quote
        /\ Letter(b) = Backslash <=> b = Backslash
    BY <1>1 DEF ShortEscapes, Letter, Letters, Meaning, Quote, Backslash
  <2> QED
    BY <2>1, <2>2 DEF Short
<1>2. CASE b < 32 /\ b \notin ShortEscapes
  <2>1. b \in 0..31 /\ b # Quote /\ b # Backslash
    BY <1>2 DEF Byte, Quote, Backslash
  <2>2. Escaped(b) = <<Backslash, 117, 48, 48, Hex(b \div 16), Hex(b % 16)>>
    BY <1>2 DEF Escaped
  <2>3. Hex(b \div 16) \notin {0, Quote, Backslash} /\ Hex(b % 16) \notin {0, Quote, Backslash}
    <3>1. b \div 16 \in 0..1 /\ b % 16 \in 0..15
      BY <2>1
    <3>2. \A h \in 0..15 : Hex(h) \notin {0, Quote, Backslash}
      BY DEF Hex, Quote, Backslash
    <3> QED
      BY <3>1, <3>2
  <2> QED
    BY <2>1, <2>2, <2>3 DEF Control
<1>3. CASE b >= 32 /\ b \notin ShortEscapes
  <2>1. ~(b < 32)
    BY <1>3 DEF Byte
  <2> QED
    BY <1>3, <2>1 DEF Escaped, Plain
<1>4. b \in Nat
  BY DEF Byte
<1> QED
  BY <1>1, <1>2, <1>3, <1>4

\* The bytes w stand in s from i on.
Here(s, i, w) == \A m \in 1..Len(w) : s[i + (m - 1)] = w[m]
LEMMA TwoHere ==
  ASSUME NEW s, NEW i \in Nat, NEW b, NEW c, Here(s, i, <<b, c>>)
  PROVE  s[i] = b /\ s[i + 1] = c
<1>1. s[i + (1 - 1)] = b
  BY DEF Here
<1>2. s[i + (2 - 1)] = c
  BY DEF Here
<1> QED
  BY <1>1, <1>2

\* An escaped byte is read as one unit, which stands for the byte, ...
LEMMA EscapedRead ==
  ASSUME NEW s, NEW i \in Nat, NEW e \in Nat, NEW b \in Chars,
         Here(s, i, Escaped(b)), i + Len(Escaped(b)) <= e
  PROVE  UnitAt(s, i, e) = Unit(Len(Escaped(b)), <<b>>)
<1>0. b \in Byte /\ b # 0
  BY DEF Chars
<1>1. CASE Plain(b)
  <2>1. s[i + (1 - 1)] = b /\ Len(Escaped(b)) = 1
    BY <1>1 DEF Plain, Here
  <2>2. s[i] = b /\ b # Backslash
    BY <1>1, <2>1 DEF Plain, ShortEscapes
  <2> QED
    BY <2>1, <2>2 DEF UnitAt
<1>2. CASE Short(b)
  <2>1. s[i + (1 - 1)] = Backslash /\ s[i + (2 - 1)] = Letter(b) /\ Len(Escaped(b)) = 2
    BY <1>2 DEF Short, Here
  <2>2. s[i] = Backslash /\ s[i + 1] = Letter(b)
    BY <2>1
  <2>3. UnitAt(s, i, e) = Unit(2, <<Meaning(s[i + 1])>>)
    BY <1>2, <2>2 DEF UnitAt, Short
  <2> QED
    BY <1>2, <2>1, <2>2, <2>3 DEF Short
<1>3. CASE Control(b)
  <2>1. PICK x, y : x = Hex(b \div 16) /\ y = Hex(b % 16)
    OBVIOUS
  <2>2. Escaped(b) = <<Backslash, 117, 48, 48, x, y>> /\ Len(Escaped(b)) = 6
    BY <1>3, <2>1 DEF Control
  <2>3. /\ s[i + (1 - 1)] = Backslash /\ s[i + (2 - 1)] = 117 /\ s[i + (3 - 1)] = 48
        /\ s[i + (4 - 1)] = 48 /\ s[i + (5 - 1)] = x /\ s[i + (6 - 1)] = y
    BY <2>2 DEF Here
  <2>4. s[i] = Backslash /\ s[i + 1] = 117 /\ s[i + 2] = 48 /\ s[i + 3] = 48 /\ s[i + 4] = x /\ s[i + 5] = y
    BY <2>3
  <2>5. Hex4(s, i + 2) = b
    <3>1. PICK j \in Int : j = i + 2 /\ j + 1 = i + 3 /\ j + 2 = i + 4 /\ j + 3 = i + 5
      OBVIOUS
    <3>2. b \in 0..31
      BY <1>3 DEF Control
    <3>3. HexControl(s, j, b)
      BY <2>1, <2>4, <3>1 DEF HexControl
    <3>4. Hex4(s, j) = b
      BY <3>2, <3>3, Hex4Control
    <3> QED
      BY <3>1, <3>4
  <2>6. ~Low(b) /\ ~High(b) /\ Utf8(b) = <<b>> /\ ~(e - i < 6)
    <3>1. b < 128 /\ b < 55296 /\ b < 56320
      BY <1>3 DEF Control
    <3>2. ~(e - i < 6)
      BY <2>2
    <3>3. ~(55296 <= b) /\ ~(56320 <= b)
      BY <1>3 DEF Control
    <3> QED
      BY <3>1, <3>2, <3>3 DEF Low, High, Utf8
  <2>7. Utf16Literal(s, i, e) = Unit(6, <<b>>)
    BY <2>5, <2>6 DEF Utf16Literal
  <2> QED
    BY <2>2, <2>4, <2>7 DEF UnitAt, Letters, Quote, Backslash
<1> QED
  BY <1>0, <1>1, <1>2, <1>3, Shapes

\* ... and the search for the closing quote walks over it.
LEMMA QuoteStep ==
  ASSUME NEW s, NEW n \in Nat, n = Len(s), NEW i \in 1..n
  PROVE  /\ s[i] = Quote => ClosingQuote(s, i) = i
         /\ s[i] = Backslash => ClosingQuote(s, i) = ClosingQuote(s, i + 2)
         /\ s[i] # Quote /\ s[i] # Backslash => ClosingQuote(s, i) = ClosingQuote(s, i + 1)
<1>1. PICK f : IsQuote(s, n, f)
  BY QuoteIs
<1>2. i \in 1..n + 2 /\ i + 1 \in 1..n + 2 /\ i + 2 \in 1..n + 2 /\ ~(i > n) /\ Quote # Backslash
  BY DEF Quote, Backslash
<1>3. ClosingQuote(s, i) = f[i] /\ ClosingQuote(s, i + 1) = f[i + 1] /\ ClosingQuote(s, i + 2) = f[i + 2]
  BY <1>1, <1>2 DEF IsQuote
<1>4. f[i] = IF s[i] = Quote THEN i ELSE f[i + (IF s[i] = Backslash THEN 2 ELSE 1)]
  BY <1>1, <1>2 DEF IsQuote
<1> QED
  BY <1>2, <1>3, <1>4

LEMMA EscapedWalked ==
  ASSUME NEW s, NEW n \in Nat, n = Len(s), NEW i \in Nat, i >= 1, NEW b \in Byte,
         Here(s, i, Escaped(b)), i + Len(Escaped(b)) <= n
  PROVE  ClosingQuote(s, i) = ClosingQuote(s, i + Len(Escaped(b)))
<1>1. CASE Plain(b)
  <2>1. s[i + (1 - 1)] = b /\ Len(Escaped(b)) = 1
    BY <1>1 DEF Plain, Here
  <2>2. s[i] = b /\ b # Backslash /\ b # Quote /\ i \in 1..n
    BY <1>1, <2>1 DEF Plain, ShortEscapes
  <2> QED
    BY <2>1, <2>2, QuoteStep
<1>2. CASE Short(b)
  <2>1. s[i + (1 - 1)] = Backslash /\ Len(Escaped(b)) = 2
    BY <1>2 DEF Short, Here
  <2>2. s[i] = Backslash /\ i \in 1..n
    BY <2>1
  <2> QED
    BY <2>1, <2>2, QuoteStep
<1>3. CASE Control(b)
  <2>1. PICK x, y : x = Hex(b \div 16) /\ y = Hex(b % 16)
    OBVIOUS
  <2>2. /\ Escaped(b) = <<Backslash, 117, 48, 48, x, y>> /\ Len(Escaped(b)) = 6
        /\ x \notin {0, Quote, Backslash} /\ y \notin {0, Quote, Backslash}
    BY <1>3, <2>1 DEF Control
  <2>3. /\ s[i + (1 - 1)] = Backslash /\ s[i + (3 - 1)] = 48
        /\ s[i + (4 - 1)] = 48 /\ s[i + (5 - 1)] = x /\ s[i + (6 - 1)] = y
    BY <2>2 DEF Here
  <2>4. s[i] = Backslash /\ s[i + 2] = 48 /\ s[i + 3] = 48 /\ s[i + 4] = x /\ s[i + 5] = y
    BY <2>3
  <2>5. /\ 48 # Quote /\ 48 # Backslash
        /\ x # Quote /\ x # Backslash /\ y # Quote /\ y # Backslash
    <3>1. 48 # Quote /\ 48 # Backslash
      BY DEF Quote, Backslash
    <3> QED
      BY <2>2, <3>1
  <2>6. i \in 1..n /\ i + 2 \in 1..n /\ i + 3 \in 1..n /\ i + 4 \in 1..n /\ i + 5 \in 1..n
    <3>1. i + 6 <= n
      BY <2>2
    <3> HIDE <2>2
    <3> QED
      BY <3>1
  <2>7. ClosingQuote(s, i) = ClosingQuote(s, i + 2)
    BY <2>4, <2>6, QuoteStep
  <2>8. ClosingQuote(s, i + 2) = ClosingQuote(s, i + 3)
    <3>1. (i + 2) + 1 = i + 3
      OBVIOUS
    <3> QED
      BY <2>4, <2>5, <2>6, <3>1, QuoteStep
  <2>9. ClosingQuote(s, i + 3) = ClosingQuote(s, i + 4)
    <3>1. (i + 3) + 1 = i + 4
      OBVIOUS
    <3> QED
      BY <2>4, <2>5, <2>6, <3>1, QuoteStep
  <2>10. ClosingQuote(s, i + 4) = ClosingQuote(s, i + 5)
    <3>1. (i + 4) + 1 = i + 5
      OBVIOUS
    <3> QED
      BY <2>4, <2>5, <2>6, <3>1, QuoteStep
  <2>11. ClosingQuote(s, i + 5) = ClosingQuote(s, i + 6)
    <3>1. (i + 5) + 1 = i + 6
      OBVIOUS
    <3> QED
      BY <2>4, <2>5, <2>6, <3>1, QuoteStep
  <2> QED
    BY <2>2, <2>7, <2>8, <2>9, <2>10, <2>11
<1> QED
  BY <1>1, <1>2, <1>3, Shapes

\* The printed string v stands in s from the quote p to the quote e, its i-th
\* byte at at[i].
Stands(s, p, v, n, e, at) ==
  /\ e \in p + 1..Len(s) /\ s[p] = Quote /\ s[e] = Quote
  /\ at \in [1..n + 1 -> p + 1..e] /\ at[1] = p + 1 /\ at[n + 1] = e
  /\ \A i \in 1..n : Here(s, at[i], Escaped(v[i])) /\ at[i + 1] = at[i] + Len(Escaped(v[i]))
LEMMA PrintedStands ==
  ASSUME NEW v \in Texts, NEW n \in Nat, n = Len(v), NEW s \in Texts, NEW p \in 1..Len(s),
         Starts(s, p, PrintString(v).bytes)
  PROVE  \E e, at : Stands(s, p, v, n, e, at) /\ p + Len(PrintString(v).bytes) = e + 1
<1>1. PICK b : IsPrinted(v, n, b)
  BY PrintedIs
<1>2. PICK w : w = PrintString(v).bytes
  OBVIOUS
<1>3. PICK t \in Nat : t = Len(b[1])
  BY <1>1 DEF IsPrinted, Texts
<1>4. b[1] \in Seq(Byte) /\ <<Quote>> \in Seq(Byte) /\ Len(<<Quote>>) = 1 /\ <<Quote>>[1] = Quote
  BY <1>1 DEF IsPrinted, Texts, Byte, Quote
<1>5. /\ Len(w) = t + 2 /\ w[1] = Quote /\ w[t + 2] = Quote
      /\ \A m \in 1..t : w[m + 1] = b[1][m]
  <2>1. PICK q : q = <<Quote>> \o b[1]
    OBVIOUS
  <2>2. /\ q \in Seq(Byte) /\ Len(q) = 1 + t
        /\ \A m \in 1..1 + t : q[m] = IF m <= 1 THEN <<Quote>>[m] ELSE b[1][m - 1]
    BY <1>3, <1>4, <2>1, ConcatProperties
  <2>3. w = q \o <<Quote>>
    BY <1>1, <1>2, <2>1 DEF PrintString, Chunk, IsPrinted
  <2>4. /\ Len(w) = (1 + t) + 1
        /\ \A m \in 1..(1 + t) + 1 : w[m] = IF m <= 1 + t THEN q[m] ELSE <<Quote>>[m - (1 + t)]
    BY <1>4, <2>2, <2>3, ConcatProperties
  <2>5. w[1] = Quote
    BY <1>4, <2>2, <2>4
  <2>6. w[t + 2] = Quote
    <3>1. t + 2 \in 1..(1 + t) + 1 /\ ~(t + 2 <= 1 + t) /\ t + 2 - (1 + t) = 1
      OBVIOUS
    <3> QED
      BY <1>4, <2>4, <3>1
  <2>7. ASSUME NEW m \in 1..t PROVE w[m + 1] = b[1][m]
    <3>1. m + 1 \in 1..1 + t /\ m + 1 \in 1..(1 + t) + 1 /\ ~(m + 1 <= 1) /\ (m + 1) - 1 = m /\ m + 1 <= 1 + t
      OBVIOUS
    <3>2. w[m + 1] = q[m + 1]
      BY <2>4, <3>1
    <3>3. q[m + 1] = b[1][(m + 1) - 1]
      BY <2>2, <3>1
    <3> QED
      BY <3>1, <3>2, <3>3
  <2> QED
    <3>1. (1 + t) + 1 = t + 2
      OBVIOUS
    <3>2. Len(w) = t + 2
      BY <2>4, <3>1
    <3> QED
      BY <2>5, <2>6, <2>7, <3>2
<1>6. PICK e \in Int : e = p + 1 + t /\ e <= Len(s) /\ e \in p + 1..Len(s) /\ p \in Int
  <2>1. p + Len(w) - 1 <= Len(s)
    BY <1>2 DEF Starts
  <2>2. Len(s) \in Nat
    BY DEF Texts
  <2> QED
    BY <1>5, <2>1, <2>2
<1>7. /\ s[p] = Quote /\ s[e] = Quote
      /\ \A m \in 1..t : s[p + 1 + (m - 1)] = b[1][m]
  <2>1. SubSeq(s, p, e) = w
    BY <1>2, <1>5, <1>6 DEF Starts
  <2>2. \A m \in p..e : s[m] \in Byte
    BY <1>6 DEF Texts
  <2>3. \A m \in 1..e - p + 1 : w[m] = s[p + m - 1]
    <3>1. e \in Int /\ p \in Int
      BY <1>6
    <3>2. \A m \in 1..e - p + 1 : SubSeq(s, p, e)[m] = s[p + m - 1]
      BY <2>2, <3>1, SubSeqProperties
    <3> QED
      BY <2>1, <3>2
  <2>4. w[1] = s[p] /\ w[t + 2] = s[e]
    <3>1. p + 1 - 1 = p /\ p + (t + 2) - 1 = e /\ 1 \in 1..e - p + 1 /\ t + 2 \in 1..e - p + 1
      BY <1>6
    <3> QED
      BY <2>3, <3>1
  <2>5. ASSUME NEW m \in 1..t PROVE s[p + 1 + (m - 1)] = w[m + 1]
    <3>1. m + 1 \in 1..e - p + 1 /\ p + (m + 1) - 1 = p + 1 + (m - 1)
      BY <1>6
    <3> QED
      BY <2>3, <3>1
  <2> QED
    BY <1>5, <2>4, <2>5
<1>8. \A i \in 1..n + 1 : b[i] \in Seq(Byte) /\ Len(b[i]) \in Nat
  BY <1>1 DEF IsPrinted, Texts
<1>9. ASSUME NEW i \in 1..n
      PROVE  /\ b[i] = Escaped(v[i]) \o b[i + 1] /\ Escaped(v[i]) \in Seq(Byte) /\ Len(Escaped(v[i])) \in Nat
             /\ Len(b[i]) = Len(Escaped(v[i])) + Len(b[i + 1])
  <2>1. v[i] \in Byte
    BY DEF Texts
  <2>2. Escaped(v[i]) \in Seq(Byte) /\ Len(Escaped(v[i])) \in Nat
    <3>1. Escaped(v[i]) \in Seq(Byte)
      BY <2>1, EscapedIs
    <3> QED
      BY <3>1, LenProperties
  <2>3. ~(i > n) /\ i \in 1..n + 1 /\ i + 1 \in 1..n + 1
    OBVIOUS
  <2>4. b[i] = Escaped(v[i]) \o b[i + 1]
    BY <1>1, <2>3 DEF IsPrinted
  <2>5. Len(b[i]) = Len(Escaped(v[i])) + Len(b[i + 1])
    BY <1>8, <2>2, <2>3, <2>4, ConcatProperties
  <2> QED
    BY <2>2, <2>4, <2>5
<1>10. PICK at : at = [i \in 1..n + 1 |-> e - Len(b[i])]
  OBVIOUS
<1> DEFINE Good(i) == Len(b[i]) <= t /\ Here(s, at[i], b[i])
           Bad == {i \in 1..n + 1 : ~Good(i)}
<1>11. ASSUME NEW i \in 1..n, Good(i)
       PROVE  /\ Here(s, at[i], Escaped(v[i])) /\ at[i + 1] = at[i] + Len(Escaped(v[i]))
              /\ Good(i + 1)
  <2>1. PICK x \in Seq(Byte) : x = Escaped(v[i])
    BY <1>9
  <2>2. PICK y \in Seq(Byte) : y = b[i + 1]
    BY <1>8
  <2>3. PICK l \in Nat, m \in Nat : l = Len(x) /\ m = Len(y)
    OBVIOUS
  <2>4. b[i] = x \o y /\ Len(b[i]) = l + m
    BY <1>9, <2>1, <2>2, <2>3
  <2>0. i \in 1..n + 1 /\ i + 1 \in 1..n + 1
    OBVIOUS
  <2>5. PICK a \in Int, c \in Int : a = at[i] /\ c = at[i + 1] /\ c = a + l
    <3>1. at[i] = e - (l + m) /\ at[i + 1] = e - m
      BY <1>10, <2>0, <2>2, <2>3, <2>4
    <3> QED
      BY <3>1
  <2>6. \A k \in 1..l + m : (x \o y)[k] = IF k <= l THEN x[k] ELSE y[k - l]
    BY <2>3, ConcatProperties
  <2>7. \A k \in 1..l + m : s[a + (k - 1)] = (x \o y)[k]
    BY <1>11, <2>4, <2>5 DEF Here
  <2>8. ASSUME NEW k \in 1..l PROVE s[a + (k - 1)] = x[k]
    <3>1. k \in 1..l + m /\ k <= l
      OBVIOUS
    <3>2. s[a + (k - 1)] = (x \o y)[k]
      BY <2>7, <3>1
    <3>3. (x \o y)[k] = x[k]
      BY <2>6, <3>1
    <3> QED
      BY <3>2, <3>3
  <2>9. ASSUME NEW k \in 1..m PROVE s[c + (k - 1)] = y[k]
    <3>1. PICK o \in Int : o = k + l
      OBVIOUS
    <3>2. o \in 1..l + m /\ ~(o <= l) /\ o - l = k
      BY <3>1
    <3>3. a + (o - 1) = c + (k - 1)
      BY <2>5, <3>1
    <3> QED
      BY <2>6, <2>7, <3>2, <3>3
  <2>10. Here(s, at[i], Escaped(v[i])) /\ Here(s, at[i + 1], b[i + 1])
    BY <2>1, <2>2, <2>3, <2>5, <2>8, <2>9 DEF Here
  <2>11. Len(b[i + 1]) <= t
    BY <1>11, <2>2, <2>3, <2>4
  <2> QED
    BY <2>1, <2>3, <2>5, <2>10, <2>11
<1>12. Good(1)
  <2>1. at[1] = p + 1
    BY <1>3, <1>6, <1>10
  <2> QED
    BY <1>3, <1>7, <2>1 DEF Here
<1> HIDE DEF Good
<1>13. Bad = {}
  <2>1. SUFFICES ASSUME Bad # {} PROVE FALSE
    OBVIOUS
  <2>2. PICK k \in Bad : \A m \in Bad : k <= m
    <3>1. Bad \in SUBSET Nat
      OBVIOUS
    <3> HIDE DEF Bad
    <3> QED
      BY <2>1, <3>1, LeastNumber
  <2>3. k # 1
    BY <1>12
  <2>4. k - 1 \in 1..n /\ (k - 1) + 1 = k /\ k - 1 < k
    BY <2>3
  <2>5. k - 1 \notin Bad
    <3>1. k - 1 \in Int /\ k \in Int
      BY <2>4
    <3> HIDE DEF Bad
    <3> QED
      BY <2>2, <2>4, <3>1
  <2> QED
    BY <1>11, <2>2, <2>4, <2>5
<1>14. \A i \in 1..n + 1 : Good(i)
  BY <1>13
<1>15. Stands(s, p, v, n, e, at)
  <2>1. ASSUME NEW i \in 1..n + 1 PROVE e - Len(b[i]) \in p + 1..e
    <3>1. PICK l \in Nat : l = Len(b[i]) /\ l <= t
      BY <1>8, <1>14 DEF Good
    <3>2. e = p + 1 + t /\ p \in Int /\ e \in Int
      BY <1>6
    <3>3. ASSUME NEW q \in Int, NEW f \in Int, f = q + 1 + t PROVE f - l \in q + 1..f
      <4>1. l <= t
        BY <3>1
      <4> HIDE <3>1
      <4> QED
        BY <3>3, <4>1
    <3>4. e - l \in p + 1..e
      BY <3>2, <3>3
    <3> QED
      BY <3>1, <3>4
  <2>2. at \in [1..n + 1 -> p + 1..e]
    BY <1>10, <2>1
  <2>3. at[1] = p + 1 /\ at[n + 1] = e
    <3>1. b[n + 1] = <<>>
      <4>1. n + 1 \in 1..n + 1 /\ n + 1 > n
        OBVIOUS
      <4> QED
        BY <1>1, <4>1 DEF IsPrinted
    <3>2. Len(b[n + 1]) = 0
      BY <3>1
    <3>3. at[1] = e - t
      BY <1>3, <1>10
    <3>4. at[n + 1] = e - 0
      <4>1. n + 1 \in 1..n + 1
        OBVIOUS
      <4>2. at[n + 1] = e - Len(b[n + 1])
        BY <1>10, <4>1
      <4> QED
        BY <3>2, <4>2
    <3> QED
      BY <1>6, <3>3, <3>4
  <2>4. ASSUME NEW i \in 1..n PROVE Here(s, at[i], Escaped(v[i])) /\ at[i + 1] = at[i] + Len(Escaped(v[i]))
    BY <1>11, <1>14
  <2> QED
    BY <1>6, <1>7, <2>2, <2>3, <2>4 DEF Stands
<1> QED
  BY <1>2, <1>5, <1>6, <1>15

\* A string that has been printed is read back as it was, wherever it stands in
\* a text: no escape is lost, and none runs over the closing quote
\* (cJSON.c:714-841 and 843-961).
THEOREM StringRoundTrip ==
  ASSUME NEW v \in Seq(Chars), NEW s \in Texts, NEW p \in 1..Len(s),
         Starts(s, p, PrintString(v).bytes)
  PROVE  ParseString(s, p) = Read(p + Len(PrintString(v).bytes), v)
<1>1. PICK n \in Nat : n = Len(v)
  OBVIOUS
<1>2. v \in Texts /\ s \in Seq(Int) /\ Len(s) \in Nat
  BY DEF Texts, Chars, Byte
<1>3. PICK e, at : Stands(s, p, v, n, e, at) /\ p + Len(PrintString(v).bytes) = e + 1
  BY <1>1, <1>2, PrintedStands
<1>4. /\ e \in 1..Len(s) /\ e \in Nat /\ e # 0 /\ s[p] = Quote /\ s[e] = Quote
      /\ at[1] = p + 1 /\ at[n + 1] = e
      /\ \A i \in 1..n + 1 : at[i] \in p + 1..e
  <2>1. e \in p + 1..Len(s) /\ s[p] = Quote /\ s[e] = Quote
    BY <1>3 DEF Stands
  <2>2. at \in [1..n + 1 -> p + 1..e] /\ at[1] = p + 1 /\ at[n + 1] = e
    BY <1>3 DEF Stands
  <2>3. e \in 1..Len(s) /\ e \in Nat /\ e # 0
    BY <1>2, <2>1
  <2> QED
    BY <2>1, <2>2, <2>3
<1>5. PICK w : IsWritten(s, e, w)
  BY <1>2, <1>4, WrittenIs
<1> DEFINE Good(i) == ClosingQuote(s, at[i]) = e /\ Unescape(s, at[i], e) = [ok |-> TRUE, r |-> SubSeq(v, i, n)]
           Bad == {i \in 1..n + 1 : ~Good(i)}
<1>6. Good(n + 1)
  <2>1. ClosingQuote(s, e) = e
    BY <1>2, <1>4, QuoteStep
  <2>2. Unescape(s, e, e) = [ok |-> TRUE, r |-> <<>>]
    <3>1. e \in 1..e + 1 /\ e >= e
      BY <1>4
    <3>2. Unescape(s, e, e) = w[e] /\ w[e] = [ok |-> TRUE, r |-> <<>>]
      BY <1>5, <3>1 DEF IsWritten
    <3> QED
      BY <3>2
  <2>3. SubSeq(v, n + 1, n) = <<>>
    BY SubSeqEmpty
  <2> QED
    BY <1>4, <2>1, <2>2, <2>3
<1>7. ASSUME NEW i \in 1..n, Good(i + 1) PROVE Good(i)
  <2>1. PICK j \in Nat, k \in Nat, l \in Nat : j = at[i] /\ k = at[i + 1] /\ l = Len(Escaped(v[i])) /\ k = j + l
    <3>1. v[i] \in Byte /\ i \in 1..n + 1 /\ i + 1 \in 1..n + 1
      BY <1>1, <1>2 DEF Texts
    <3>2. Escaped(v[i]) \in Seq(Byte)
      BY <3>1, EscapedIs
    <3>3. Len(Escaped(v[i])) \in Nat
      BY <3>2
    <3>4. at[i] \in Nat /\ at[i + 1] \in Nat
      BY <1>4, <3>1
    <3>5. at[i + 1] = at[i] + Len(Escaped(v[i]))
      BY <1>3 DEF Stands
    <3> QED
      BY <3>3, <3>4, <3>5
  <2>2. PICK c \in Chars : c = v[i] /\ c \in Byte
    BY <1>1 DEF Chars
  <2>3. Here(s, j, Escaped(c))
    BY <1>3, <2>1, <2>2 DEF Stands
  <2>4. j >= 1 /\ k <= e /\ e <= Len(s)
    <3>1. i \in 1..n + 1 /\ i + 1 \in 1..n + 1
      OBVIOUS
    <3>2. j \in p + 1..e /\ k \in p + 1..e
      BY <1>4, <2>1, <3>1
    <3> QED
      BY <1>2, <1>4, <3>2
  <2>5. ClosingQuote(s, j) = ClosingQuote(s, k)
    <3>1. j + Len(Escaped(c)) <= Len(s)
      BY <1>2, <1>4, <2>1, <2>2, <2>4
    <3>2. ClosingQuote(s, j) = ClosingQuote(s, j + Len(Escaped(c)))
      BY <1>2, <2>2, <2>3, <2>4, <3>1, EscapedWalked
    <3> QED
      BY <2>1, <2>2, <3>2
  <2>6. PICK u : u = UnitAt(s, j, e) /\ u = Unit(l, <<c>>)
    BY <1>4, <2>1, <2>2, <2>3, <2>4, EscapedRead
  <2>7. l >= 1
    <3>1. EscapeCharacters(c) \in Nat /\ Len(Escaped(c)) = 1 + EscapeCharacters(c)
      BY <2>2, EscapedIs
    <3> QED
      BY <2>1, <2>2, <3>1
  <2>8. j \in 1..e + 1 /\ k \in 1..e + 1 /\ ~(j >= e)
    <3>1. j >= 1 /\ j + l <= e /\ l >= 1 /\ k = j + l
      BY <2>1, <2>4, <2>7
    <3> HIDE <2>1
    <3> QED
      BY <1>4, <3>1
  <2>12. u.len # 0 /\ u.len = l /\ u.out = <<c>>
    BY <2>6, <2>7 DEF Unit
  <2>9. w[j] = Joined(<<c>>, w[k]) /\ Unescape(s, j, e) = w[j] /\ Unescape(s, k, e) = w[k]
    <3>1. w[j] = Joined(u.out, w[j + u.len])
      BY <1>5, <2>6, <2>8, <2>12 DEF IsWritten
    <3>2. Unescape(s, j, e) = w[j] /\ Unescape(s, k, e) = w[k]
      BY <1>5, <2>8 DEF IsWritten
    <3> QED
      BY <2>1, <2>12, <3>1, <3>2
  <2>10. SubSeq(v, i, n) = <<c>> \o SubSeq(v, i + 1, n)
    <3>1. i \in 1..Len(v) /\ n \in i..Len(v)
      BY <1>1
    <3> QED
      BY <2>2, <3>1, SubSeqRecursiveFirst
  <2>11. Joined(<<c>>, w[k]) = [ok |-> TRUE, r |-> SubSeq(v, i, n)]
    <3>1. w[k] = [ok |-> TRUE, r |-> SubSeq(v, i + 1, n)]
      BY <1>7, <2>1, <2>9
    <3>2. w[k].ok = TRUE /\ w[k].r = SubSeq(v, i + 1, n)
      BY <3>1
    <3> HIDE DEF Good, Bad
    <3> QED
      BY <2>10, <3>2 DEF Joined
  <2> QED
    BY <1>7, <2>1, <2>5, <2>9, <2>11
<1>8. Bad = {}
  <2>1. SUFFICES ASSUME Bad # {} PROVE FALSE
    OBVIOUS
  <2>2. PICK k \in Bad : \A m \in Bad : m <= k
    <3>1. Bad \in SUBSET (0..n + 1) /\ n + 1 \in Nat
      OBVIOUS
    <3> HIDE DEF Bad
    <3> QED
      BY <2>1, <3>1, GreatestNumber
  <2>3. k \in 1..n + 1 /\ ~Good(k)
    OBVIOUS
  <2>4. ASSUME NEW i \in 1..n + 1, i > k PROVE Good(i)
    <3>1. i \notin Bad
      <4> HIDE DEF Bad, Good
      <4> QED
        BY <2>2, <2>3, <2>4
    <3> QED
      BY <3>1
  <2> HIDE DEF Bad, Good
  <2>5. k # n + 1
    BY <1>6, <2>3
  <2>6. k \in 1..n /\ k + 1 \in 1..n + 1 /\ k + 1 > k
    BY <2>3, <2>5
  <2> QED
    BY <1>7, <2>3, <2>4, <2>6
<1>9. Good(1)
  <2>1. 1 \in 1..n + 1
    OBVIOUS
  <2> HIDE DEF Good
  <2> QED
    BY <1>8, <2>1
<1>10. SubSeq(v, 1, n) = v
  BY <1>1, SubSeqFull
<1>11. CStr(v) = v
  <2>1. {i \in 1..Len(v) : v[i] = 0} = {}
    BY DEF Chars
  <2> QED
    BY <2>1 DEF CStr
<1>12. ClosingQuote(s, p + 1) = e /\ Unescape(s, p + 1, e).ok /\ Unescape(s, p + 1, e).r = v
  BY <1>4, <1>9, <1>10
<1> HIDE DEF Good, Bad
<1>13. ParseString(s, p) = Read(e + 1, CStr(v))
  BY <1>4, <1>12 DEF ParseString
<1> QED
  BY <1>3, <1>11, <1>13

(***************************************************************************)
(* The buffer                                                              *)
(***************************************************************************)
Buffers == [ok : BOOLEAN, length : Nat, offset : Nat, text : Texts, fits : BOOLEAN]

\* Induction over the chunks, forwards and backwards
LEMMA Upward ==
  ASSUME NEW k \in Nat, NEW T, 0 \in T, \A i \in 1..k : i - 1 \in T => i \in T
  PROVE  \A i \in 0..k : i \in T
<1> DEFINE Bad == {i \in 0..k : i \notin T}
<1>1. SUFFICES ASSUME Bad # {} PROVE FALSE
  OBVIOUS
<1>2. PICK i \in Bad : \A m \in Bad : i <= m
  <2>1. Bad \in SUBSET Nat
    OBVIOUS
  <2> HIDE DEF Bad
  <2> QED
    BY <1>1, <2>1, LeastNumber
<1>3. i \in 1..k /\ i - 1 \in 0..k /\ ~(i <= i - 1)
  OBVIOUS
<1>4. i - 1 \in T
  <2>1. i - 1 \notin Bad
    <3> HIDE DEF Bad
    <3> QED
      BY <1>2, <1>3
  <2> QED
    BY <1>3, <2>1
<1> QED
  BY <1>3, <1>4
LEMMA Downward ==
  ASSUME NEW k \in Nat, NEW T, k \in T, \A i \in 1..k : i \in T => i - 1 \in T
  PROVE  \A i \in 0..k : i \in T
<1> DEFINE U == {i \in 0..k : k - i \in T}
<1>1. 0 \in U
  OBVIOUS
<1>2. ASSUME NEW i \in 1..k, i - 1 \in U PROVE i \in U
  <2>1. PICK j \in 1..k : j = k - (i - 1) /\ j - 1 = k - i
    OBVIOUS
  <2>2. j \in T
    BY <1>2, <2>1
  <2> QED
    BY <2>1, <2>2
<1>3. \A i \in 0..k : i \in U
  <2> HIDE DEF U
  <2> QED
    BY <1>1, <1>2, Upward
<1> SUFFICES ASSUME NEW i \in 0..k PROVE i \in T
  OBVIOUS
<1>4. PICK j \in 0..k : j = k - i /\ k - j = i
  OBVIOUS
<1> QED
  BY <1>3, <1>4

\* The buffer after each chunk
Upto(k) == [i \in 0..k |-> i]
Empty(length) == [ok |-> TRUE, length |-> length, offset |-> 0, text |-> <<>>, fits |-> TRUE]
IsFilled(chunks, k, length, noalloc, f) ==
  /\ f \in [0..k -> Buffers] /\ Fill(chunks, length, noalloc) = f[k]
  /\ \A i \in 0..k : f[i] = IF i = 0 THEN Empty(length) ELSE Write(f[i - 1], chunks[i], noalloc)

\* What ensure() leaves: it fails, or there is room for what was asked for.
LEMMA EnsureIs ==
  ASSUME NEW buf \in Buffers, NEW need \in Nat, NEW noalloc \in BOOLEAN
  PROVE  /\ Ensure(buf, need, noalloc) \in Nat
         /\ Ensure(buf, need, noalloc) # 0 => need + buf.offset + 1 <= Ensure(buf, need, noalloc)
         /\ noalloc => Ensure(buf, need, noalloc) \in {0, buf.length}
         /\ ~noalloc /\ (buf.length > 0 => buf.offset < buf.length) => Ensure(buf, need, noalloc) # 0
         /\ buf.offset < buf.length /\ need + buf.offset + 1 <= buf.length => Ensure(buf, need, noalloc) = buf.length
<1>1. PICK l \in Nat, o \in Nat : l = buf.length /\ o = buf.offset
  BY DEF Buffers
<1>2. PICK m \in Nat : m = need + o + 1
  OBVIOUS
<1>3. Ensure(buf, need, noalloc) =
        CASE l > 0 /\ o >= l -> 0 [] m <= l -> l [] m > l /\ noalloc -> 0 [] OTHER -> 2 * m
  BY <1>1, <1>2 DEF Ensure
<1> QED
  BY <1>1, <1>2, <1>3

\* Arithmetic of lengths
LEMMA PartBelow ==
  ASSUME NEW a \in Nat, NEW b \in Nat, NEW c \in Nat, NEW m \in Nat, a = b + c, a <= m
  PROVE  b <= m
OBVIOUS
LEMMA RoomForBytes ==
  ASSUME NEW need \in Nat, NEW o \in Nat, NEW m \in Nat, NEW z \in {0, 1}, NEW len \in Nat,
         m + z <= need, need + o + 1 <= len
  PROVE  o + m + z <= len /\ o + m < len
OBVIOUS
LEMMA RoomForChunk ==
  ASSUME NEW a \in Nat, NEW b \in Nat, NEW l \in Nat, NEW m \in Nat, NEW need \in Nat, NEW length \in Nat,
         a = b + l, a <= m, need <= l + 1, length >= m + 2
  PROVE  b < length /\ need + b + 1 <= length
OBVIOUS

\* One chunk more: nothing is written, ...
LEMMA WriteFails ==
  ASSUME NEW buf \in Buffers, NEW c, NEW noalloc, ~buf.ok \/ Ensure(buf, c.need, noalloc) = 0
  PROVE  /\ Write(buf, c, noalloc) \in Buffers /\ ~Write(buf, c, noalloc).ok
         /\ Write(buf, c, noalloc).length = buf.length /\ Write(buf, c, noalloc).offset = buf.offset
         /\ Write(buf, c, noalloc).text = buf.text /\ Write(buf, c, noalloc).fits = buf.fits
<1>1. Write(buf, c, noalloc) = [buf EXCEPT !.ok = FALSE]
  BY DEF Write
<1> QED
  BY <1>1 DEF Buffers

\* ... or all of it.
LEMMA WriteWorks ==
  ASSUME NEW buf \in Buffers, NEW c \in Chunks, NEW noalloc \in BOOLEAN, buf.ok,
         Ensure(buf, c.need, noalloc) \in Nat, Ensure(buf, c.need, noalloc) # 0
  PROVE  /\ Write(buf, c, noalloc) \in Buffers /\ Write(buf, c, noalloc).ok
         /\ Write(buf, c, noalloc).length = Ensure(buf, c.need, noalloc)
         /\ Write(buf, c, noalloc).offset = buf.offset + Len(c.bytes)
         /\ Write(buf, c, noalloc).text = buf.text \o c.bytes
         /\ Write(buf, c, noalloc).fits <=>
              (buf.fits /\ buf.offset + Len(c.bytes) + Ending(c) <= Ensure(buf, c.need, noalloc))
<1>0. PICK len \in Nat : len = Ensure(buf, c.need, noalloc)
  OBVIOUS
<1>1. PICK end \in Nat : end = buf.offset + Len(c.bytes)
  BY DEF Buffers, Chunks, Texts
<1>2. PICK t \in Texts : t = buf.text \o c.bytes
  <2>1. buf.text \in Seq(Byte) /\ c.bytes \in Seq(Byte)
    BY DEF Buffers, Chunks, Texts
  <2> QED
    BY <2>1, ConcatProperties DEF Texts
<1>3. PICK b \in BOOLEAN : b = (buf.fits /\ end + Ending(c) <= len)
  OBVIOUS
<1>4. Write(buf, c, noalloc) = [ok |-> TRUE, length |-> len, offset |-> end, text |-> t, fits |-> b]
  BY <1>0, <1>1, <1>2, <1>3 DEF Write
<1>5. PICK r : r = [ok |-> TRUE, length |-> len, offset |-> end, text |-> t, fits |-> b]
  OBVIOUS
<1>6. r \in Buffers /\ r.ok /\ r.length = len /\ r.offset = end /\ r.text = t /\ (r.fits <=> b)
  BY <1>5 DEF Buffers
<1>7. r.fits <=> (buf.fits /\ end + Ending(c) <= len)
  BY <1>3, <1>6
<1> QED
  BY <1>0, <1>1, <1>2, <1>4, <1>5, <1>6, <1>7

\* Whatever was written lies within the buffer, and the next byte too.
Filled(buf) == buf.fits /\ (buf.length > 0 => buf.offset < buf.length) /\ Len(buf.text) = buf.offset
Grown(buf, c, noalloc, new) ==
  /\ new \in Buffers /\ Filled(new)
  /\ new.ok => buf.ok /\ new.text = buf.text \o c.bytes
  /\ buf.ok /\ ~noalloc => new.ok
LEMMA WriteKeeps ==
  ASSUME NEW buf \in Buffers, NEW c \in Chunks, NEW noalloc \in BOOLEAN, Reserved(c), Filled(buf)
  PROVE  Grown(buf, c, noalloc, Write(buf, c, noalloc))
<1>0. PICK new : new = Write(buf, c, noalloc)
  OBVIOUS
<1> SUFFICES Grown(buf, c, noalloc, new)
  BY <1>0
<1>1. PICK need \in Nat, o \in Nat, m \in Nat, z \in {0, 1} :
        /\ need = c.need /\ o = buf.offset /\ m = Len(c.bytes) /\ z = Ending(c)
        /\ m + z <= need
  <2>1. c.need \in Nat /\ buf.offset \in Nat /\ c.bytes \in Seq(Byte)
    BY DEF Buffers, Chunks, Texts
  <2>2. Len(c.bytes) \in Nat
    BY <2>1
  <2>3. PICK z \in {0, 1} : z = Ending(c)
    BY DEF Ending
  <2>4. Len(c.bytes) + Ending(c) <= c.need
    BY <2>1, <2>2, <2>3 DEF Reserved
  <2> QED
    BY <2>1, <2>2, <2>3, <2>4
<1>2. PICK len \in Nat : len = Ensure(buf, need, noalloc)
  BY EnsureIs
<1>3. CASE ~buf.ok \/ len = 0
  <2>1. new \in Buffers /\ ~new.ok /\ new.length = buf.length /\ new.offset = buf.offset /\ new.text = buf.text /\ new.fits = buf.fits
    BY <1>0, <1>1, <1>2, <1>3, WriteFails
  <2>2. Filled(new)
    BY <2>1 DEF Filled
  <2>3. ~(buf.ok /\ ~noalloc)
    <3>1. SUFFICES ASSUME ~noalloc PROVE len # 0
      BY <1>3
    <3> QED
      BY <1>2, <3>1, EnsureIs DEF Filled
  <2> QED
    BY <2>1, <2>2, <2>3 DEF Grown
<1>4. CASE buf.ok /\ len # 0
  <2>1. len = Ensure(buf, c.need, noalloc) /\ buf.ok /\ len # 0
    BY <1>1, <1>2, <1>4
  <2>2. /\ new \in Buffers /\ new.ok /\ new.length = len
        /\ new.offset = buf.offset + Len(c.bytes) /\ new.text = buf.text \o c.bytes
        /\ new.fits <=> (buf.fits /\ buf.offset + Len(c.bytes) + z <= len)
    <3>1. Ensure(buf, c.need, noalloc) \in Nat /\ Ensure(buf, c.need, noalloc) # 0
      BY <2>1
    <3> QED
      BY <1>0, <1>1, <2>1, <3>1, WriteWorks
  <2>3. need + o + 1 <= len
    BY <1>1, <1>2, <1>4, EnsureIs
  <2>4. o + m + z <= len /\ o + m < len
    BY <1>1, <2>3, RoomForBytes
  <2>5. new.fits /\ new.offset = o + m
    BY <1>1, <2>2, <2>4 DEF Filled
  <2>6. Len(new.text) = o + m
    <3>1. buf.text \in Seq(Byte) /\ c.bytes \in Seq(Byte) /\ Len(buf.text) = o
      BY <1>1 DEF Buffers, Chunks, Texts, Filled
    <3>2. Len(buf.text \o c.bytes) = Len(buf.text) + Len(c.bytes)
      BY <3>1, ConcatProperties
    <3> QED
      BY <1>1, <2>2, <3>1, <3>2
  <2>7. Filled(new)
    BY <2>2, <2>4, <2>5, <2>6 DEF Filled
  <2> QED
    BY <1>4, <2>2, <2>7 DEF Grown
<1> QED
  BY <1>3, <1>4

LEMMA FilledIs ==
  ASSUME NEW chunks \in Seq(Chunks), NEW k \in Nat, k = Len(chunks),
         NEW length \in Nat, NEW noalloc \in BOOLEAN
  PROVE  \E f : IsFilled(chunks, k, length, noalloc, f)
<1>a. Empty(length) \in Buffers
  BY EmptySeq DEF Empty, Buffers, Texts
<1>b. ASSUME NEW i \in 1..k, NEW buf \in Buffers PROVE Write(buf, chunks[i], noalloc) \in Buffers
  <2>1. PICK c \in Chunks : c = chunks[i]
    OBVIOUS
  <2>2. PICK need \in Nat : need = c.need
    BY DEF Chunks
  <2>3. Ensure(buf, need, noalloc) \in Nat
    BY EnsureIs
  <2>4. CASE ~buf.ok \/ Ensure(buf, need, noalloc) = 0
    BY <2>1, <2>2, <2>4, WriteFails
  <2>5. CASE buf.ok /\ Ensure(buf, need, noalloc) # 0
    BY <2>1, <2>2, <2>3, <2>5, WriteWorks
  <2> QED
    BY <2>4, <2>5
<1>0. PICK V : V = Buffers /\ V # {}
  BY <1>a
<1> DEFINE I == 0..k
           Body(i, f) == IF i = 0 THEN Empty(length) ELSE Write(f[i - 1], chunks[i], noalloc)
           H == [x \in I \X [I -> V] |-> Body(x[1], x[2])]
           Solves(g) == g = [i \in I |-> Body(i, g)]
           g == CHOOSE g : Solves(g)
<1>1. PICK Z \in Nat : Z = k
  OBVIOUS
<1>2. PICK r \in [I -> 0..Z] : r = Upto(k)
  <2>1. \A i \in I : Upto(k)[i] \in 0..Z
    BY <1>1 DEF Upto
  <2>2. Upto(k) = [i \in I |-> Upto(k)[i]]
    BY DEF Upto
  <2> HIDE DEF I
  <2> QED
    BY <2>1, <2>2
<1>3. \A i \in I : i # 0 => i - 1 \in I /\ r[i - 1] < r[i] /\ i \in 1..k
  BY <1>2 DEF Upto
<1>4. ASSUME NEW i \in I, NEW f \in [I -> V] PROVE Body(i, f) \in V
  <2>1. CASE i # 0
    <3>1. f[i - 1] \in Buffers /\ i \in 1..k
      BY <1>0, <1>3, <2>1
    <3>2. Write(f[i - 1], chunks[i], noalloc) \in Buffers
      BY <1>b, <3>1
    <3> QED
      BY <1>0, <2>1, <3>2
  <2>2. CASE i = 0
    BY <1>0, <1>a, <2>2
  <2> QED
    BY <2>1, <2>2
<1>5. ASSUME NEW i \in I, NEW f, NEW h, \A j \in I : r[j] < r[i] => f[j] = h[j] PROVE Body(i, f) = Body(i, h)
  BY <1>3, <1>5
<1> HIDE DEF Body
<1>6. \E f \in [I -> V] : \A i \in I : f[i] = Body(i, f)
  <2>1. \A i \in I : \A f \in [I -> V] : H[<<i, f>>] = Body(i, f)
    OBVIOUS
  <2> HIDE DEF I, H
  <2>2. \A i \in I, f \in [I -> V] : H[<<i, f>>] \in V
    BY <1>4, <2>1
  <2>3. ASSUME NEW i \in I, NEW f \in [I -> V], NEW h \in [I -> V], \A j \in I : r[j] < r[i] => f[j] = h[j]
        PROVE  H[<<i, f>>] = H[<<i, h>>]
    <3>1. Body(i, f) = Body(i, h)
      BY <1>5, <2>3
    <3> QED
      BY <2>1, <3>1
  <2>4. Recursive(I, V, Z, r, H)
    BY <1>0, <2>2, <2>3 DEF Recursive
  <2>5. \E f \in [I -> V] : \A i \in I : f[i] = H[<<i, f>>]
    BY <2>4, Recursion
  <2> QED
    BY <2>1, <2>5
<1>7. PICK f \in [I -> V] : \A i \in I : f[i] = Body(i, f)
  BY <1>6
<1>8. Solves(g)
  <2>1. Solves(f)
    BY <1>7
  <2> QED
    BY <2>1
<1>9. Fill(chunks, length, noalloc) = g[k]
  BY DEF Fill, Empty, Body
<1> HIDE DEF g, I
<1>10. f = g
  <2>1. ASSUME NEW i \in I, \A j \in I : r[j] < r[i] => f[j] = g[j] PROVE f[i] = g[i]
    BY <1>5, <1>7, <1>8, <2>1
  <2>2. Alike(I, Z, r, f, g)
    BY <2>1 DEF Alike
  <2>3. \A i \in I : f[i] = g[i]
    BY <2>2, Recursions
  <2> QED
    BY <1>8, <2>3
<1> QED
  <2>1. f \in [0..k -> Buffers]
    BY <1>0, <1>7 DEF I
  <2>2. IsFilled(chunks, k, length, noalloc, f)
    BY <1>7, <1>9, <1>10, <2>1 DEF Body, I, IsFilled
  <2> QED
    BY <2>2

\* How the buffer grows
Growth(chunks, k, length, noalloc, f) ==
  /\ f[0] = Empty(length)
  /\ \A i \in 0..k : f[i] \in Buffers /\ Filled(f[i]) /\ (~noalloc => f[i].ok)
  /\ \A i \in 1..k : f[i].ok => f[i - 1].ok /\ f[i].text = f[i - 1].text \o chunks[i].bytes
LEMMA FilledSteps ==
  ASSUME NEW chunks \in Seq(Chunks), NEW k \in Nat, k = Len(chunks), \A i \in 1..k : Reserved(chunks[i]),
         NEW length \in Nat, NEW noalloc \in BOOLEAN,
         NEW f, IsFilled(chunks, k, length, noalloc, f)
  PROVE  Growth(chunks, k, length, noalloc, f)
<1>1. f[0] = Empty(length) /\ \A i \in 0..k : f[i] \in Buffers
  BY DEF IsFilled
<1>2. ASSUME NEW i \in 1..k
      PROVE  f[i] = Write(f[i - 1], chunks[i], noalloc) /\ i - 1 \in 0..k /\ chunks[i] \in Chunks /\ Reserved(chunks[i])
  <2>1. i \in 0..k /\ i # 0
    OBVIOUS
  <2>2. f[i] = Write(f[i - 1], chunks[i], noalloc)
    BY <2>1 DEF IsFilled
  <2> QED
    BY <2>2
<1>3. PICK T : T = {i \in 0..k : Filled(f[i]) /\ (~noalloc => f[i].ok)}
  OBVIOUS
<1>4. 0 \in T
  <2>1. Empty(length).fits /\ Empty(length).ok /\ Empty(length).length = length /\ Empty(length).offset = 0
        /\ Empty(length).text = <<>>
    BY DEF Empty
  <2>2. Filled(Empty(length))
    BY <2>1, EmptySeq DEF Filled
  <2> QED
    BY <1>1, <1>3, <2>1, <2>2
<1>5. ASSUME NEW i \in 1..k, i - 1 \in T PROVE i \in T
  <2>1. PICK buf \in Buffers, c \in Chunks : buf = f[i - 1] /\ c = chunks[i] /\ f[i] = Write(buf, c, noalloc)
    BY <1>1, <1>2
  <2>2. Filled(buf) /\ (~noalloc => buf.ok) /\ Reserved(c)
    BY <1>2, <1>3, <1>5, <2>1
  <2>3. Filled(f[i]) /\ (~noalloc => f[i].ok)
    <3>1. Grown(buf, c, noalloc, Write(buf, c, noalloc))
      BY <2>2, WriteKeeps
    <3> QED
      BY <2>1, <2>2, <3>1 DEF Grown
  <2> QED
    BY <1>3, <2>3
<1>6. \A i \in 0..k : i \in T
  BY <1>4, <1>5, Upward
<1>7. ASSUME NEW i \in 1..k, f[i].ok PROVE f[i - 1].ok /\ f[i].text = f[i - 1].text \o chunks[i].bytes
  <2>1. PICK buf \in Buffers, c \in Chunks : buf = f[i - 1] /\ c = chunks[i] /\ f[i] = Write(buf, c, noalloc)
    BY <1>1, <1>2
  <2>2. Filled(buf) /\ Reserved(c)
    BY <1>2, <1>3, <1>6, <2>1
  <2>3. Grown(buf, c, noalloc, f[i])
    BY <2>1, <2>2, WriteKeeps
  <2> QED
    BY <1>7, <2>1, <2>3 DEF Grown
<1> QED
  BY <1>1, <1>3, <1>6, <1>7 DEF Growth

\* A text that is printed chunk by chunk, each of which asked for what it
\* writes: no byte lands behind the buffer, whatever its length at the start; a
\* buffer that may grow takes all of it; the text does not depend on the
\* buffer; and two bytes more than the text are enough for a buffer that may
\* not grow, where cJSON.h:160 advises five (cJSON.c:389-474).  Lengths are any
\* numbers here: the code refuses texts of INT_MAX bytes.
THEOREM BuffersSuffice ==
  ASSUME NEW chunks \in Seq(Chunks), \A i \in 1..Len(chunks) : Reserved(chunks[i]),
         NEW length \in Nat, NEW noalloc \in BOOLEAN, NEW start \in Nat
  PROVE  LET whole == Fill(chunks, start, FALSE)
             filled == Fill(chunks, length, noalloc)
         IN /\ filled.fits
            /\ ~noalloc => filled.ok
            /\ filled.ok => filled.text = whole.text
            /\ length >= Len(whole.text) + 2 => filled.ok
<1>1. PICK k \in Nat : k = Len(chunks)
  OBVIOUS
<1>2. PICK f : IsFilled(chunks, k, length, noalloc, f)
  BY <1>1, FilledIs
<1>3. PICK g : IsFilled(chunks, k, start, FALSE, g)
  BY <1>1, FilledIs
<1>4. Fill(chunks, length, noalloc) = f[k] /\ Fill(chunks, start, FALSE) = g[k]
  BY <1>2, <1>3 DEF IsFilled
<1>5. /\ \A i \in 0..k : f[i] \in Buffers /\ Filled(f[i]) /\ (~noalloc => f[i].ok)
      /\ f[0] = Empty(length)
      /\ \A i \in 1..k : f[i].ok => f[i - 1].ok /\ f[i].text = f[i - 1].text \o chunks[i].bytes
  <2>1. Growth(chunks, k, length, noalloc, f)
    BY <1>1, <1>2, FilledSteps
  <2> QED
    BY <2>1 DEF Growth
<1>6. /\ \A i \in 0..k : g[i] \in Buffers /\ Filled(g[i]) /\ g[i].ok
      /\ g[0] = Empty(start)
      /\ \A i \in 1..k : g[i].text = g[i - 1].text \o chunks[i].bytes
  <2>1. Growth(chunks, k, start, FALSE, g)
    BY <1>1, <1>3, FilledSteps
  <2>2. \A i \in 0..k : g[i] \in Buffers /\ Filled(g[i]) /\ g[i].ok
    BY <2>1 DEF Growth
  <2>3. ASSUME NEW i \in 1..k PROVE g[i].text = g[i - 1].text \o chunks[i].bytes
    <3>1. i \in 0..k
      OBVIOUS
    <3> QED
      BY <2>1, <2>2, <3>1 DEF Growth
  <2> QED
    BY <2>1, <2>2, <2>3 DEF Growth
<1>7. \A i \in 0..k : f[i].ok => f[i].text = g[i].text
  <2>1. PICK T : T = {i \in 0..k : f[i].ok => f[i].text = g[i].text}
    OBVIOUS
  <2>2. 0 \in T
    BY <1>5, <1>6, <2>1 DEF Empty
  <2>3. ASSUME NEW i \in 1..k, i - 1 \in T PROVE i \in T
    <3>1. i \in 0..k
      OBVIOUS
    <3>2. ASSUME f[i].ok PROVE f[i].text = g[i].text
      <4>1. f[i - 1].ok /\ f[i].text = f[i - 1].text \o chunks[i].bytes
        BY <1>5, <3>2
      <4>2. f[i - 1].text = g[i - 1].text
        BY <2>1, <2>3, <4>1
      <4>3. g[i].text = g[i - 1].text \o chunks[i].bytes
        BY <1>6
      <4> QED
        BY <4>1, <4>2, <4>3
    <3> QED
      BY <2>1, <3>1, <3>2
  <2>4. \A i \in 0..k : i \in T
    BY <2>2, <2>3, Upward
  <2> QED
    BY <2>1, <2>4
<1>8. k \in 0..k
  OBVIOUS
<1>9. ASSUME length >= Len(g[k].text) + 2, noalloc PROVE f[k].ok
  <2>1. ASSUME NEW i \in 1..k
        PROVE  /\ Len(g[i].text) \in Nat /\ Len(g[i - 1].text) \in Nat /\ Len(chunks[i].bytes) \in Nat
               /\ Len(g[i].text) = Len(g[i - 1].text) + Len(chunks[i].bytes)
    <3>1. i - 1 \in 0..k /\ i \in 0..k /\ chunks[i] \in Chunks
      BY <1>1
    <3>2. g[i - 1].text \in Seq(Byte) /\ chunks[i].bytes \in Seq(Byte)
      BY <1>6, <3>1 DEF Buffers, Chunks, Texts
    <3>3. g[i].text = g[i - 1].text \o chunks[i].bytes
      BY <1>6
    <3>4. PICK x \in Seq(Byte), y \in Seq(Byte) : x = g[i - 1].text /\ y = chunks[i].bytes /\ g[i].text = x \o y
      BY <3>2, <3>3
    <3>5. x \o y \in Seq(Byte) /\ Len(x \o y) = Len(x) + Len(y) /\ Len(x) \in Nat /\ Len(y) \in Nat
      BY ConcatProperties
    <3>6. Len(x \o y) \in Nat
      BY <3>5
    <3> QED
      BY <3>4, <3>5, <3>6
  <2>2. \A i \in 0..k : Len(g[i].text) <= Len(g[k].text)
    <3>1. PICK T : T = {i \in 0..k : Len(g[i].text) <= Len(g[k].text)}
      OBVIOUS
    <3>2. Len(g[k].text) \in Nat
      BY <1>6, <1>8 DEF Buffers, Texts
    <3>3. k \in T
      BY <1>8, <3>1, <3>2
    <3>4. ASSUME NEW i \in 1..k, i \in T PROVE i - 1 \in T
      <4>1. Len(g[i].text) <= Len(g[k].text)
        BY <3>1, <3>4
      <4>2. PICK a \in Nat, b \in Nat, c \in Nat, m \in Nat :
              a = Len(g[i].text) /\ b = Len(g[i - 1].text) /\ c = Len(chunks[i].bytes) /\ m = Len(g[k].text) /\ a = b + c
        BY <2>1, <3>2
      <4>3. a <= m
        BY <4>1, <4>2
      <4>5. b <= m
        BY <4>2, <4>3, PartBelow
      <4>4. i - 1 \in 0..k
        OBVIOUS
      <4> QED
        BY <3>1, <4>2, <4>4, <4>5
    <3> QED
      <4>1. \A i \in 0..k : i \in T
        BY <3>3, <3>4, Downward
      <4> QED
        BY <3>1, <4>1
  <2>3. PICK T : T = {i \in 0..k : f[i].ok /\ f[i].length = length}
    OBVIOUS
  <2>4. 0 \in T
    BY <1>5, <2>3 DEF Empty
  <2>5. ASSUME NEW i \in 1..k, i - 1 \in T PROVE i \in T
    <3>1. i - 1 \in 0..k /\ i \in 0..k /\ i # 0 /\ chunks[i] \in Chunks /\ Reserved(chunks[i])
      BY <1>1
    <3>2. PICK buf \in Buffers, c \in Chunks : buf = f[i - 1] /\ c = chunks[i]
      BY <1>5, <3>1
    <3>3. f[i] = Write(buf, c, TRUE)
      BY <1>2, <1>9, <3>1, <3>2 DEF IsFilled
    <3>4. buf.ok /\ buf.length = length /\ Filled(buf) /\ Reserved(c) /\ buf.text = g[i - 1].text
      BY <1>5, <1>7, <2>3, <2>5, <3>1, <3>2
    <3>5. PICK a \in Nat, b \in Nat, l \in Nat, m \in Nat, need \in Nat :
            /\ a = Len(g[i].text) /\ b = Len(g[i - 1].text) /\ l = Len(c.bytes) /\ m = Len(g[k].text) /\ need = c.need
            /\ a = b + l /\ a <= m /\ need <= l + 1 /\ buf.offset = b
      <4>1. Len(g[i].text) <= Len(g[k].text)
        BY <2>2, <3>1
      <4>2. Len(g[k].text) \in Nat
        <5>1. g[k].text \in Seq(Byte)
          BY <1>6, <1>8 DEF Buffers, Texts
        <5> QED
          BY <5>1
      <4>3. c.need \in Nat /\ c.need <= Len(c.bytes) + 1 /\ buf.offset = Len(buf.text)
        BY <3>4 DEF Chunks, Reserved, Filled
      <4> QED
        BY <2>1, <3>2, <3>4, <4>1, <4>2, <4>3
    <3>6. length >= m + 2
      BY <1>9, <3>5
    <3>7. buf.offset < buf.length /\ need + buf.offset + 1 <= buf.length
      <4>1. b < length /\ need + b + 1 <= length
        BY <3>5, <3>6, RoomForChunk
      <4> QED
        BY <3>4, <3>5, <4>1
    <3>8. Ensure(buf, need, TRUE) = length /\ length # 0
      BY <3>4, <3>5, <3>6, <3>7, EnsureIs
    <3>9. Write(buf, c, TRUE).ok /\ Write(buf, c, TRUE).length = length
      BY <3>4, <3>5, <3>8, WriteWorks
    <3> QED
      BY <2>3, <3>1, <3>3, <3>9
  <2>6. \A i \in 0..k : i \in T
    BY <2>4, <2>5, Upward
  <2> QED
    BY <1>8, <2>3, <2>6
<1>10. f[k].fits /\ (~noalloc => f[k].ok) /\ (f[k].ok => f[k].text = g[k].text)
  BY <1>5, <1>7, <1>8 DEF Filled
<1> QED
  BY <1>4, <1>9, <1>10

(***************************************************************************)
(* A printed string is minified                                            *)
(***************************************************************************)
IsCopied(s, n, f) ==
  /\ f \in [1..n + 2 -> Nat]
  /\ \A i \in 1..n + 2 : MinifiedString(s, i) = f[i]
  /\ \A i \in 1..n + 2 : f[i] = IF At(s, i) = 0 THEN i
       ELSE IF At(s, i) = Quote THEN i + 1
       ELSE IF At(s, i) = Backslash /\ At(s, i + 1) = Quote THEN f[i + 2]
       ELSE f[i + 1]
LEMMA CopiedIs ==
  ASSUME NEW s, NEW n \in Nat, n = Len(s)
  PROVE  \E f : IsCopied(s, n, f)
<1>a. ASSUME NEW i \in 1..n + 2
      PROVE  /\ At(s, i) # 0 => i \in 1..n /\ i + 1 \in 1..n + 2
             /\ At(s, i) # 0 /\ At(s, i + 1) = Quote => i + 2 \in 1..n + 2
  BY DEF At, Quote
<1>0. PICK V : V = Nat /\ V # {}
  OBVIOUS
<1> DEFINE I == 1..n + 2
           Body(i, f) == IF At(s, i) = 0 THEN i
                         ELSE IF At(s, i) = Quote THEN i + 1
                         ELSE IF At(s, i) = Backslash /\ At(s, i + 1) = Quote THEN f[i + 2]
                         ELSE f[i + 1]
           H == [x \in I \X [I -> V] |-> Body(x[1], x[2])]
           Solves(g) == g = [i \in I |-> Body(i, g)]
           g == CHOOSE g : Solves(g)
<1>1. PICK Z \in Nat : Z = n + 2
  OBVIOUS
<1>2. PICK r \in [I -> 0..Z] : r = Ahead(n + 1)
  <2>1. \A i \in I : Ahead(n + 1)[i] \in 0..Z
    BY <1>1 DEF Ahead
  <2>2. Ahead(n + 1) = [i \in I |-> Ahead(n + 1)[i]]
    BY DEF Ahead
  <2> HIDE DEF I
  <2> QED
    BY <2>1, <2>2
<1>3. \A i \in I : /\ At(s, i) # 0 => i + 1 \in I /\ r[i + 1] < r[i]
                   /\ At(s, i) # 0 /\ At(s, i + 1) = Quote => i + 2 \in I /\ r[i + 2] < r[i]
  BY <1>a, <1>2 DEF Ahead
<1>4. ASSUME NEW i \in I, NEW f \in [I -> V] PROVE Body(i, f) \in V
  <2>1. At(s, i) # 0 => f[i + 1] \in Nat
    <3>1. At(s, i) # 0 => i + 1 \in I
      BY <1>3
    <3> QED
      BY <1>0, <3>1
  <2>2. At(s, i) # 0 /\ At(s, i + 1) = Quote => f[i + 2] \in Nat
    <3>1. At(s, i) # 0 /\ At(s, i + 1) = Quote => i + 2 \in I
      BY <1>3
    <3> QED
      BY <1>0, <3>1
  <2>3. Body(i, f) \in Nat
    BY <2>1, <2>2
  <2> QED
    BY <1>0, <2>3
<1>5. ASSUME NEW i \in I, NEW f, NEW h, \A j \in I : r[j] < r[i] => f[j] = h[j] PROVE Body(i, f) = Body(i, h)
  <2>1. At(s, i) # 0 => f[i + 1] = h[i + 1]
    BY <1>3, <1>5
  <2>2. At(s, i) # 0 /\ At(s, i + 1) = Quote => f[i + 2] = h[i + 2]
    BY <1>3, <1>5
  <2> QED
    BY <2>1, <2>2
<1> HIDE DEF Body
<1>6. \E f \in [I -> V] : \A i \in I : f[i] = Body(i, f)
  <2>1. \A i \in I : \A f \in [I -> V] : H[<<i, f>>] = Body(i, f)
    OBVIOUS
  <2> HIDE DEF I, H
  <2>2. \A i \in I, f \in [I -> V] : H[<<i, f>>] \in V
    BY <1>4, <2>1
  <2>3. ASSUME NEW i \in I, NEW f \in [I -> V], NEW h \in [I -> V], \A j \in I : r[j] < r[i] => f[j] = h[j]
        PROVE  H[<<i, f>>] = H[<<i, h>>]
    <3>1. Body(i, f) = Body(i, h)
      BY <1>5, <2>3
    <3> QED
      BY <2>1, <3>1
  <2>4. Recursive(I, V, Z, r, H)
    BY <1>0, <2>2, <2>3 DEF Recursive
  <2>5. \E f \in [I -> V] : \A i \in I : f[i] = H[<<i, f>>]
    BY <2>4, Recursion
  <2> QED
    BY <2>1, <2>5
<1>7. PICK f \in [I -> V] : \A i \in I : f[i] = Body(i, f)
  BY <1>6
<1>8. Solves(g)
  <2>1. Solves(f)
    BY <1>7
  <2> QED
    BY <2>1
<1>9. \A i \in I : MinifiedString(s, i) = g[i]
  BY DEF MinifiedString, Body
<1> HIDE DEF g, I
<1>10. f = g
  <2>1. ASSUME NEW i \in I, \A j \in I : r[j] < r[i] => f[j] = g[j] PROVE f[i] = g[i]
    BY <1>5, <1>7, <1>8, <2>1
  <2>2. Alike(I, Z, r, f, g)
    BY <2>1 DEF Alike
  <2>3. \A i \in I : f[i] = g[i]
    BY <2>2, Recursions
  <2> QED
    BY <1>8, <2>3
<1> QED
  <2>1. f \in [1..n + 2 -> Nat]
    BY <1>0, <1>7 DEF I
  <2>2. IsCopied(s, n, f)
    BY <1>7, <1>9, <1>10, <2>1 DEF Body, I, IsCopied
  <2> QED
    BY <2>2

LEMMA CopyStep ==
  ASSUME NEW s, NEW n \in Nat, n = Len(s), NEW i \in 1..n, s[i] # 0
  PROVE  /\ s[i] = Quote => MinifiedString(s, i) = i + 1
         /\ s[i] = Backslash /\ At(s, i + 1) = Quote => MinifiedString(s, i) = MinifiedString(s, i + 2)
         /\ s[i] # Quote /\ ~(s[i] = Backslash /\ At(s, i + 1) = Quote) => MinifiedString(s, i) = MinifiedString(s, i + 1)
<1>1. PICK f : IsCopied(s, n, f)
  BY CopiedIs
<1>2. i \in 1..n + 2 /\ i + 1 \in 1..n + 2 /\ i + 2 \in 1..n + 2 /\ At(s, i) = s[i] /\ Quote # Backslash
  BY DEF At, Quote, Backslash
<1>3. MinifiedString(s, i) = f[i] /\ MinifiedString(s, i + 1) = f[i + 1] /\ MinifiedString(s, i + 2) = f[i + 2]
  BY <1>1, <1>2 DEF IsCopied
<1>4. f[i] = IF At(s, i) = 0 THEN i
             ELSE IF At(s, i) = Quote THEN i + 1
             ELSE IF At(s, i) = Backslash /\ At(s, i + 1) = Quote THEN f[i + 2]
             ELSE f[i + 1]
  BY <1>1, <1>2 DEF IsCopied
<1> QED
  BY <1>2, <1>3, <1>4

LEMMA CopyPlain ==
  ASSUME NEW s, NEW n \in Nat, n = Len(s), NEW i \in 1..n, s[i] # 0, s[i] # Quote, s[i] # Backslash
  PROVE  MinifiedString(s, i) = MinifiedString(s, i + 1)
BY CopyStep

\* The copying ends at the end of the text, or goes on.
LEMMA CopyAhead ==
  ASSUME NEW s, NEW n \in Nat, n = Len(s), NEW i \in 1..n + 2
  PROVE  /\ At(s, i) = 0 => MinifiedString(s, i) = i
         /\ At(s, i) # 0 => MinifiedString(s, i) \in Nat /\ MinifiedString(s, i) > i
<1>0. PICK f : IsCopied(s, n, f)
  BY CopiedIs
<1>1. /\ f \in [1..n + 2 -> Nat]
      /\ \A k \in 1..n + 2 : MinifiedString(s, k) = f[k]
      /\ \A k \in 1..n + 2 : f[k] = IF At(s, k) = 0 THEN k
           ELSE IF At(s, k) = Quote THEN k + 1
           ELSE IF At(s, k) = Backslash /\ At(s, k + 1) = Quote THEN f[k + 2]
           ELSE f[k + 1]
  BY <1>0 DEF IsCopied
<1> DEFINE Bad == {k \in 1..n + 2 : ~(f[k] >= k /\ (At(s, k) # 0 => f[k] > k))}
<1>2. Bad = {}
  <2>1. SUFFICES ASSUME Bad # {} PROVE FALSE
    OBVIOUS
  <2>2. PICK k \in Bad : \A m \in Bad : m <= k
    <3>1. Bad \in SUBSET (0..n + 2) /\ n + 2 \in Nat
      OBVIOUS
    <3> HIDE DEF Bad
    <3> QED
      BY <2>1, <3>1, GreatestNumber
  <2>3. k \in 1..n + 2 /\ k \in Int
    OBVIOUS
  <2>4. At(s, k) # 0 /\ k <= n
    <3>1. At(s, k) # 0
      BY <1>1, <2>2
    <3> QED
      BY <2>3, <3>1 DEF At
  <2>5. ASSUME NEW m \in 1..n + 2, m > k PROVE f[m] \in Nat /\ f[m] > k
    <3>1. m \notin Bad
      <4> HIDE DEF Bad
      <4> QED
        BY <2>2, <2>3, <2>5
    <3>2. f[m] >= m /\ f[m] \in Nat
      BY <1>1, <3>1
    <3> QED
      BY <2>3, <2>5, <3>2
  <2>6. k + 1 \in 1..n + 2 /\ k + 2 \in 1..n + 2 /\ k + 1 > k /\ k + 2 > k
    BY <2>3, <2>4
  <2>7. f[k + 1] > k /\ f[k + 2] > k
    BY <2>5, <2>6
  <2>8. f[k] = k + 1 \/ f[k] = f[k + 2] \/ f[k] = f[k + 1]
    BY <1>1, <2>3, <2>4
  <2>9. f[k] > k /\ f[k] \in Nat
    BY <1>1, <2>3, <2>6, <2>7, <2>8
  <2> QED
    BY <2>2, <2>3, <2>9
<1>3. i \notin Bad
  BY <1>2
<1>4. MinifiedString(s, i) = f[i] /\ f[i] \in Nat /\ (At(s, i) = 0 => f[i] = i)
  BY <1>1
<1> QED
  BY <1>3, <1>4

\* The copying walks over an escaped byte, unless a backslash stands before a quote.
LEMMA EscapedCopied ==
  ASSUME NEW s, NEW n \in Nat, n = Len(s), NEW i \in Nat, i >= 1, NEW b \in Chars,
         Here(s, i, Escaped(b)), i + Len(Escaped(b)) <= n,
         b = Backslash => s[i + 2] # Quote
  PROVE  MinifiedString(s, i) = MinifiedString(s, i + Len(Escaped(b)))
<1>0. b \in Byte /\ b # 0
  BY DEF Chars
<1>1. CASE Plain(b)
  <2>1. s[i + (1 - 1)] = b /\ Len(Escaped(b)) = 1
    BY <1>1 DEF Plain, Here
  <2>2. s[i] = b /\ b # Backslash /\ b # Quote /\ i \in 1..n
    BY <1>1, <2>1 DEF Plain, ShortEscapes
  <2> QED
    BY <1>0, <2>1, <2>2, CopyStep
<1>2. CASE Short(b)
  <2>1. s[i + (1 - 1)] = Backslash /\ s[i + (2 - 1)] = Letter(b) /\ Len(Escaped(b)) = 2
    BY <1>2 DEF Short, Here
  <2>2. s[i] = Backslash /\ s[i + 1] = Letter(b) /\ i \in 1..n /\ i + 1 \in 1..n /\ i + 2 \in 1..n /\ (i + 1) + 1 = i + 2
    BY <2>1
  <2>3. Quote # Backslash /\ Backslash # 0 /\ At(s, i + 1) = s[i + 1] /\ At(s, i + 2) = s[i + 2]
    BY <2>2 DEF Quote, Backslash, At
  <2>4. Letter(b) # 0
    <3>1. Letter(b) \in Letters
      BY <1>2 DEF Short
    <3> QED
      BY <3>1 DEF Letters, Quote, Backslash
  <2>5. CASE Letter(b) = Quote
    BY <2>1, <2>2, <2>3, <2>5, CopyStep
  <2>6. CASE Letter(b) # Quote
    <3>1. MinifiedString(s, i) = MinifiedString(s, i + 1)
      BY <2>2, <2>3, <2>6, CopyStep
    <3>2. ~(s[i + 1] = Backslash /\ At(s, (i + 1) + 1) = Quote)
      BY <1>2, <2>2, <2>3 DEF Short
    <3>3. MinifiedString(s, i + 1) = MinifiedString(s, (i + 1) + 1)
      BY <2>2, <2>3, <2>4, <2>6, <3>2, CopyStep
    <3> QED
      BY <2>1, <2>2, <3>1, <3>3
  <2> QED
    BY <2>5, <2>6
<1>3. CASE Control(b)
  <2>1. PICK x, y : x = Hex(b \div 16) /\ y = Hex(b % 16)
    OBVIOUS
  <2>2. /\ Escaped(b) = <<Backslash, 117, 48, 48, x, y>> /\ Len(Escaped(b)) = 6
        /\ x \notin {0, Quote, Backslash} /\ y \notin {0, Quote, Backslash}
    BY <1>3, <2>1 DEF Control
  <2>3. /\ s[i + (1 - 1)] = Backslash /\ s[i + (2 - 1)] = 117 /\ s[i + (3 - 1)] = 48
        /\ s[i + (4 - 1)] = 48 /\ s[i + (5 - 1)] = x /\ s[i + (6 - 1)] = y
    BY <2>2 DEF Here
  <2>4. s[i] = Backslash /\ s[i + 1] = 117 /\ s[i + 2] = 48 /\ s[i + 3] = 48 /\ s[i + 4] = x /\ s[i + 5] = y
    BY <2>3
  <2>5. /\ 48 # Quote /\ 48 # Backslash /\ 117 # Quote /\ 117 # Backslash /\ Backslash # Quote /\ Backslash # 0
        /\ x # Quote /\ x # Backslash /\ y # Quote /\ y # Backslash /\ x # 0 /\ y # 0
    <3>1. /\ 48 # Quote /\ 48 # Backslash /\ 117 # Quote /\ 117 # Backslash
          /\ Backslash # Quote /\ Backslash # 0
      BY DEF Quote, Backslash
    <3> QED
      BY <2>2, <3>1
  <2>6. i \in 1..n /\ i + 1 \in 1..n /\ i + 2 \in 1..n /\ i + 3 \in 1..n /\ i + 4 \in 1..n /\ i + 5 \in 1..n
    <3>1. i + 6 <= n
      BY <2>2
    <3> HIDE <2>2
    <3> QED
      BY <3>1
  <2>7. MinifiedString(s, i) = MinifiedString(s, i + 1)
    <3>1. At(s, i + 1) # Quote
      BY <2>4, <2>5, <2>6 DEF At
    <3> QED
      BY <2>4, <2>5, <2>6, <3>1, CopyStep
  <2>8. MinifiedString(s, i + 1) = MinifiedString(s, i + 2)
    <3>1. (i + 1) + 1 = i + 2
      OBVIOUS
    <3> QED
      BY <2>4, <2>5, <2>6, <3>1, CopyPlain
  <2>9. MinifiedString(s, i + 2) = MinifiedString(s, i + 3)
    <3>1. (i + 2) + 1 = i + 3
      OBVIOUS
    <3> QED
      BY <2>4, <2>5, <2>6, <3>1, CopyPlain
  <2>10. MinifiedString(s, i + 3) = MinifiedString(s, i + 4)
    <3>1. (i + 3) + 1 = i + 4
      OBVIOUS
    <3> QED
      BY <2>4, <2>5, <2>6, <3>1, CopyPlain
  <2>11. MinifiedString(s, i + 4) = MinifiedString(s, i + 5)
    <3>1. (i + 4) + 1 = i + 5
      OBVIOUS
    <3> QED
      BY <2>4, <2>5, <2>6, <3>1, CopyPlain
  <2>12. MinifiedString(s, i + 5) = MinifiedString(s, i + 6)
    <3>1. (i + 5) + 1 = i + 6
      OBVIOUS
    <3> QED
      BY <2>4, <2>5, <2>6, <3>1, CopyPlain
  <2> QED
    BY <2>2, <2>7, <2>8, <2>9, <2>10, <2>11, <2>12
<1> QED
  BY <1>0, <1>1, <1>2, <1>3, Shapes

\* No escape starts with a quote.
LEMMA EscapedStarts ==
  ASSUME NEW b \in Byte
  PROVE  Len(Escaped(b)) >= 1 /\ Len(Escaped(b)) \in Nat /\ Escaped(b)[1] # Quote
<1>1. CASE Plain(b)
  BY <1>1 DEF Plain, ShortEscapes
<1>2. CASE Short(b)
  BY <1>2 DEF Short, Quote, Backslash
<1>3. CASE Control(b)
  BY <1>3 DEF Control, Quote, Backslash
<1> QED
  BY <1>1, <1>2, <1>3, Shapes

\* A printed string is copied up to its closing quote, unless it ends in a
\* backslash and more text follows: minify_string() knows \" but not \\, takes
\* the second backslash for an escape of the closing quote, and copies on
\* behind the string (cJSON.c:2690-2706).
THEOREM MinifyCopiesString ==
  ASSUME NEW v \in Seq(Chars), NEW s \in Texts, NEW p \in 1..Len(s),
         Starts(s, p, PrintString(v).bytes)
  PROVE  MinifiedString(s, p + 1) = p + Len(PrintString(v).bytes)
         <=> v = <<>> \/ v[Len(v)] # Backslash \/ At(s, p + Len(PrintString(v).bytes)) = 0
<1>1. PICK n \in Nat, z \in Nat : n = Len(v) /\ z = Len(s)
  BY DEF Texts
<1>2. v \in Texts /\ (v = <<>> <=> n = 0)
  <2>1. v \in Texts
    BY DEF Texts, Chars, Byte
  <2>2. v = <<>> => n = 0
    BY <1>1
  <2>3. v # <<>> => n # 0
    BY <1>1, EmptySeq
  <2> QED
    BY <2>1, <2>2, <2>3
<1>3. PICK e, at : Stands(s, p, v, n, e, at) /\ p + Len(PrintString(v).bytes) = e + 1
  BY <1>1, <1>2, PrintedStands
<1>4. /\ e \in 1..z /\ e \in Nat /\ s[e] = Quote
      /\ at[1] = p + 1 /\ at[n + 1] = e
      /\ \A i \in 1..n + 1 : at[i] \in p + 1..e
  <2>1. e \in p + 1..Len(s) /\ p \in Nat
    BY <1>3 DEF Stands
  <2>2. e \in 1..z /\ e \in Nat
    BY <1>1, <2>1
  <2> QED
    BY <1>3, <2>2 DEF Stands
<1>5. ASSUME NEW i \in 1..n
      PROVE  /\ v[i] \in Chars /\ at[i] \in Nat /\ at[i] >= 1 /\ at[i + 1] \in Nat /\ at[i + 1] <= e
             /\ Here(s, at[i], Escaped(v[i])) /\ at[i + 1] = at[i] + Len(Escaped(v[i]))
             /\ s[at[i]] # Quote
  <2>1. i \in 1..n + 1 /\ i + 1 \in 1..n + 1 /\ p \in Nat /\ p >= 1
    OBVIOUS
  <2>2. at[i] \in p + 1..e /\ at[i + 1] \in p + 1..e
    BY <1>4, <2>1
  <2>3. Here(s, at[i], Escaped(v[i])) /\ at[i + 1] = at[i] + Len(Escaped(v[i]))
    BY <1>3 DEF Stands
  <2>4. v[i] \in Chars /\ v[i] \in Byte
    BY <1>1 DEF Chars
  <2>5. PICK a \in Nat : a = at[i] /\ a >= 1
    BY <1>4, <2>1, <2>2
  <2>6. s[a + (1 - 1)] = Escaped(v[i])[1] /\ Escaped(v[i])[1] # Quote
    BY <2>3, <2>4, <2>5, EscapedStarts DEF Here
  <2>7. a + (1 - 1) = a
    OBVIOUS
  <2>8. at[i + 1] \in Nat /\ at[i + 1] <= e
    BY <1>4, <2>1, <2>2
  <2> QED
    BY <2>3, <2>4, <2>5, <2>6, <2>7, <2>8
\* The first byte, too, is copied unless a backslash stands before the closing quote.
<1>6. ASSUME NEW i \in 1..n, v[i] = Backslash => i < n
      PROVE  MinifiedString(s, at[i]) = MinifiedString(s, at[i + 1])
  <2>1. PICK a \in Nat, b \in Chars : a = at[i] /\ b = v[i] /\ a >= 1 /\ Here(s, a, Escaped(b))
    BY <1>5
  <2>2. a + Len(Escaped(b)) <= z /\ at[i + 1] = a + Len(Escaped(b))
    <3>1. at[i + 1] = a + Len(Escaped(b)) /\ at[i + 1] \in Nat /\ at[i + 1] <= e
      BY <1>5, <2>1
    <3>2. at[i + 1] <= z
      BY <1>4, <3>1
    <3> QED
      BY <3>1, <3>2
  <2>3. ASSUME b = Backslash PROVE s[a + 2] # Quote
    <3>1. i + 1 \in 1..n
      BY <1>6, <2>1, <2>3
    <3>2. Len(Escaped(b)) = 2
      BY <2>3 DEF Escaped, ShortEscapes, Backslash
    <3> QED
      BY <1>5, <2>2, <3>1, <3>2
  <2> QED
    <3>1. MinifiedString(s, a) = MinifiedString(s, a + Len(Escaped(b)))
      <4>1. z \in Nat /\ z = Len(s) /\ a >= 1 /\ Here(s, a, Escaped(b)) /\ a + Len(Escaped(b)) <= z
        BY <1>1, <2>1, <2>2
      <4> HIDE <1>1, <2>1, <2>2
      <4> QED
        BY <2>3, <4>1, EscapedCopied
    <3> QED
      BY <2>1, <2>2, <3>1
<1>7. ASSUME NEW j \in 1..n + 1, \A i \in 1..n : i < j /\ v[i] = Backslash => i < n
      PROVE  MinifiedString(s, p + 1) = MinifiedString(s, at[j])
  <2>1. PICK T : T = {i \in 0..n : i < j => MinifiedString(s, at[i + 1]) = MinifiedString(s, p + 1)}
    OBVIOUS
  <2>2. 0 \in T
    <3>1. at[0 + 1] = p + 1 /\ 0 \in 0..n
      BY <1>4
    <3> QED
      BY <2>1, <3>1
  <2>3. ASSUME NEW i \in 1..n, i - 1 \in T PROVE i \in T
    <3>1. SUFFICES ASSUME i < j PROVE MinifiedString(s, at[i + 1]) = MinifiedString(s, p + 1)
      BY <2>1
    <3>2. i - 1 < j /\ (i - 1) + 1 = i
      BY <3>1
    <3>3. MinifiedString(s, at[i]) = MinifiedString(s, p + 1)
      BY <2>1, <2>3, <3>2
    <3>4. MinifiedString(s, at[i]) = MinifiedString(s, at[i + 1])
      BY <1>6, <1>7, <3>1
    <3> QED
      BY <3>3, <3>4
  <2>4. \A i \in 0..n : i \in T
    BY <2>2, <2>3, Upward
  <2>5. j - 1 \in 0..n /\ j - 1 < j /\ (j - 1) + 1 = j
    OBVIOUS
  <2> QED
    BY <2>1, <2>4, <2>5
<1>8. CASE n = 0 \/ v[n] # Backslash
  <2>1. n + 1 \in 1..n + 1 /\ \A i \in 1..n : i < n + 1 /\ v[i] = Backslash => i < n
    BY <1>8
  <2>2. MinifiedString(s, p + 1) = MinifiedString(s, e)
    BY <1>4, <1>7, <2>1
  <2>3. MinifiedString(s, e) = e + 1
    <3>1. s[e] # 0
      BY <1>4 DEF Quote
    <3> QED
      BY <1>1, <1>4, <3>1, CopyStep
  <2> QED
    BY <1>1, <1>2, <1>3, <1>8, <2>2, <2>3
<1>9. CASE n # 0 /\ v[n] = Backslash
  <2>1. n \in 1..n /\ n \in 1..n + 1 /\ \A i \in 1..n : i < n /\ v[i] = Backslash => i < n
    BY <1>9
  <2>2. MinifiedString(s, p + 1) = MinifiedString(s, at[n])
    BY <1>7, <2>1
  <2>3. PICK a \in Nat : a = at[n] /\ a >= 1 /\ e = a + 2 /\ s[a] = Backslash /\ s[a + 1] = Backslash
    <3>1. Escaped(Backslash) = <<Backslash, Backslash>>
      BY DEF Escaped, ShortEscapes, Letter, Backslash, Quote
    <3>2. PICK a \in Nat : a = at[n] /\ a >= 1 /\ Here(s, a, <<Backslash, Backslash>>) /\ e = a + Len(<<Backslash, Backslash>>)
      BY <1>4, <1>5, <1>9, <2>1, <3>1
    <3>3. s[a] = Backslash /\ s[a + 1] = Backslash
      BY <3>2, TwoHere
    <3>4. Len(<<Backslash, Backslash>>) = 2
      OBVIOUS
    <3> QED
      BY <3>2, <3>3, <3>4
  <2>4. /\ Quote # Backslash /\ Backslash # 0 /\ a \in 1..z /\ a + 1 \in 1..z /\ a + 2 \in 1..z /\ (a + 1) + 1 = a + 2 /\ (a + 1) + 2 = e + 1
        /\ At(s, a + 1) = Backslash /\ At(s, a + 2) = Quote
    <3>1. Quote # Backslash /\ Backslash # 0
      BY DEF Quote, Backslash
    <3>2. a + 2 \in 1..z /\ s[a + 2] = Quote
      BY <1>4, <2>3
    <3>3. a \in 1..z /\ a + 1 \in 1..z /\ (a + 1) + 1 = a + 2 /\ (a + 1) + 2 = e + 1
      <4>1. z \in Nat /\ a + 2 <= z /\ a >= 1 /\ e = a + 2
        BY <2>3, <3>2
      <4> QED
        BY <4>1
    <3> QED
      BY <1>1, <2>3, <3>1, <3>2, <3>3 DEF At
  <2>5. MinifiedString(s, a) = MinifiedString(s, a + 1)
    BY <1>1, <2>3, <2>4, CopyStep
  <2>6. MinifiedString(s, a + 1) = MinifiedString(s, (a + 1) + 2)
    BY <1>1, <2>3, <2>4, CopyStep
  <2>7. MinifiedString(s, p + 1) = MinifiedString(s, e + 1)
    BY <2>2, <2>3, <2>4, <2>5, <2>6
  <2>8. PICK k \in 1..z + 2 : k = e + 1
    BY <1>4
  <2>9. MinifiedString(s, k) = k <=> At(s, k) = 0
    BY <1>1, CopyAhead
  <2> QED
    BY <1>1, <1>2, <1>3, <1>9, <2>7, <2>8, <2>9
<1> QED
  BY <1>8, <1>9
=============================================================================
