--------------------------- MODULE XmlTreeProofs ---------------------------
(***************************************************************************)
(* For any documents, nodes and variables every live node of libxml2 has   *)
(* exactly one owner, and a result never outlives its document or the      *)
(* nodes it names.                                                         *)
(*                                                                         *)
(* The argument is about forests.  Forest(t, O) says that the live nodes   *)
(* are those that hang, at some depth, below the nodes of O, which hang    *)
(* below nothing.  The lemmas say what freeing trees, hanging a top below  *)
(* a node, copying a tree and planting a new node do to a forest and to    *)
(* what is below the other nodes.  The actions are made of these.          *)
(***************************************************************************)
EXTENDS XmlTree, TLAPS

States == {"fresh", "live", "freed"}
NodeStates == [s : States, in : Docs \union {Null}, below : Nodes \union {Null}, text : BOOLEAN]
Trees == [Nodes -> NodeStates]
LiveIn(t)  == {n \in Nodes : t[n].s = "live"}
RootsOf(t) == {n \in Nodes : t[n].in # Null}

Forest(t, O) ==
  /\ O \subseteq LiveIn(t)
  /\ \A n \in O : t[n].below = Null
  /\ \A n \in Nodes : t[n].below # Null => n \in LiveIn(t) /\ t[n].below \in LiveIn(t)
  /\ LiveIn(t) \subseteq Below(t, O)

(***************************************************************************)
(* What is below a set of nodes                                            *)
(***************************************************************************)

\* Below(t, S) is a closed set around S, ...
LEMMA BelowCloses ==
  ASSUME NEW t, NEW S \in SUBSET Nodes
  PROVE  /\ S \subseteq Below(t, S) /\ Below(t, S) \subseteq Nodes
         /\ Closed(t, Below(t, S))
BY DEF Below, Closed, ChildrenOf

\* ... and the least one.
LEMMA BelowLeast ==
  ASSUME NEW t, NEW S, NEW T \in SUBSET Nodes, S \subseteq T, Closed(t, T)
  PROVE  Below(t, S) \subseteq T
BY DEF Below

\* Who is below S, and not of S, hangs below one who is.
LEMMA BelowUp ==
  ASSUME NEW t, NEW S \in SUBSET Nodes, NEW n \in Below(t, S), n \notin S
  PROVE  t[n].below \in Below(t, S)
<1> DEFINE T == S \union {m \in Below(t, S) : t[m].below \in Below(t, S)}
<1>1. S \subseteq Below(t, S) /\ Below(t, S) \subseteq Nodes /\ Closed(t, Below(t, S))
  BY BelowCloses
<1>2. Closed(t, T)
  BY <1>1 DEF Closed, ChildrenOf
<1>3. Below(t, S) \subseteq T
  BY <1>1, <1>2, BelowLeast
<1> QED
  BY <1>3

\* A closed set around S holds what is below S; so what is below a larger
\* set is more.
LEMMA BelowGrows ==
  ASSUME NEW t, NEW S \in SUBSET Nodes, NEW T \in SUBSET Nodes, S \subseteq T
  PROVE  Below(t, S) \subseteq Below(t, T)
<1>1. T \subseteq Below(t, T) /\ Below(t, T) \subseteq Nodes /\ Closed(t, Below(t, T))
  BY BelowCloses
<1> QED
  BY <1>1, BelowLeast

\* What is below one of two sets is below their union, and nothing else is.
LEMMA BelowUnion ==
  ASSUME NEW t, NEW S \in SUBSET Nodes, NEW T \in SUBSET Nodes
  PROVE  Below(t, S \union T) = Below(t, S) \union Below(t, T)
<1> DEFINE B == Below(t, S) \union Below(t, T)
<1>1. /\ S \subseteq Below(t, S) /\ Below(t, S) \subseteq Nodes /\ Closed(t, Below(t, S))
      /\ T \subseteq Below(t, T) /\ Below(t, T) \subseteq Nodes /\ Closed(t, Below(t, T))
  BY BelowCloses
<1>2. Closed(t, B)
  BY <1>1 DEF Closed
<1>3. Below(t, S \union T) \subseteq B
  <2>1. S \union T \subseteq B /\ B \in SUBSET Nodes
    BY <1>1
  <2> QED
    BY <1>2, <2>1, BelowLeast
<1>4. Below(t, S) \subseteq Below(t, S \union T) /\ Below(t, T) \subseteq Below(t, S \union T)
  <2>1. S \union T \in SUBSET Nodes /\ S \subseteq S \union T /\ T \subseteq S \union T
    OBVIOUS
  <2> QED
    BY <2>1, BelowGrows
<1> QED
  BY <1>3, <1>4

\* The children of what is below S decide what is below S.
LEMMA BelowSame ==
  ASSUME NEW t, NEW u, NEW S \in SUBSET Nodes,
         \A a \in Below(t, S) : ChildrenOf(u, a) = ChildrenOf(t, a)
  PROVE  Below(u, S) = Below(t, S)
<1>1. /\ S \subseteq Below(t, S) /\ Below(t, S) \subseteq Nodes /\ Closed(t, Below(t, S))
      /\ S \subseteq Below(u, S) /\ Below(u, S) \subseteq Nodes /\ Closed(u, Below(u, S))
  BY BelowCloses
<1>2. Below(u, S) \subseteq Below(t, S)
  <2>1. Closed(u, Below(t, S))
    BY <1>1 DEF Closed
  <2> QED
    BY <1>1, <2>1, BelowLeast
<1>3. Below(t, S) \subseteq Below(u, S)
  <2>1. Closed(t, Below(u, S))
    BY <1>1, <1>2 DEF Closed
  <2> QED
    BY <1>1, <2>1, BelowLeast
<1> QED
  BY <1>2, <1>3

\* With more children there is more below.
LEMMA BelowMore ==
  ASSUME NEW t, NEW u, NEW S \in SUBSET Nodes,
         \A a \in Nodes : ChildrenOf(t, a) \subseteq ChildrenOf(u, a)
  PROVE  Below(t, S) \subseteq Below(u, S)
<1>1. S \subseteq Below(u, S) /\ Below(u, S) \subseteq Nodes /\ Closed(u, Below(u, S))
  BY BelowCloses
<1>2. Closed(t, Below(u, S))
  BY <1>1 DEF Closed
<1> QED
  BY <1>1, <1>2, BelowLeast

\* Below different tops hang different nodes.
LEMMA BelowApart ==
  ASSUME NEW t, NEW S \in SUBSET Nodes, NEW T \in SUBSET Nodes,
         \A n \in S \union T : t[n].below = Null, S \intersect T = {}
  PROVE  Below(t, S) \intersect Below(t, T) = {}
<1> DEFINE B == Below(t, S) \ Below(t, T)
<1>1. /\ S \subseteq Below(t, S) /\ Below(t, S) \subseteq Nodes /\ Closed(t, Below(t, S))
      /\ T \subseteq Below(t, T) /\ Below(t, T) \subseteq Nodes
  BY BelowCloses
<1>2. \A n \in Below(t, T) : n \in T \/ t[n].below \in Below(t, T)
  BY BelowUp
<1>3. Null \notin Nodes
  BY NullIsNone
<1>4. S \subseteq B
  BY <1>1, <1>2, <1>3
<1>5. Closed(t, B)
  <2> SUFFICES ASSUME NEW n \in B, NEW m \in ChildrenOf(t, n)
               PROVE  m \in B
    BY DEF Closed
  <2>1. m \in Below(t, S) /\ t[m].below = n /\ n # Null
    BY <1>1, <1>3 DEF Closed, ChildrenOf
  <2>2. m \notin Below(t, T)
    BY <1>2, <2>1
  <2> QED
    BY <2>1, <2>2
<1>6. Below(t, S) \subseteq B
  BY <1>1, <1>4, <1>5, BelowLeast
<1> QED
  BY <1>6

(***************************************************************************)
(* Forests                                                                 *)
(***************************************************************************)

\* What a node that is gone is.
LEMMA FreedIs == Freed \in NodeStates /\ Freed.s = "freed" /\ Freed.below = Null /\ Freed.in = Null
BY DEF Freed, Fresh, NodeStates, States

\* In a forest the live nodes are those below the tops.
LEMMA ForestLives ==
  ASSUME NEW t, NEW O, Forest(t, O), NEW S \in SUBSET LiveIn(t)
  PROVE  /\ Below(t, S) \subseteq LiveIn(t)
         /\ LiveIn(t) = Below(t, O)
<1> USE DEF LiveIn
<1>1. Closed(t, LiveIn(t))
  BY NullIsNone DEF Closed, ChildrenOf, Forest
<1>2. LiveIn(t) \in SUBSET Nodes /\ O \subseteq LiveIn(t)
  BY DEF Forest
<1>3. Below(t, S) \subseteq LiveIn(t) /\ Below(t, O) \subseteq LiveIn(t)
  BY <1>1, <1>2, BelowLeast
<1> QED
  BY <1>3 DEF Forest

\* Only what hangs where matters to a forest.
LEMMA ForestSame ==
  ASSUME NEW t, NEW u, NEW O, Forest(t, O),
         \A n \in Nodes : u[n].s = t[n].s /\ u[n].below = t[n].below
  PROVE  /\ Forest(u, O) /\ LiveIn(u) = LiveIn(t)
         /\ \A S \in SUBSET Nodes : Below(u, S) = Below(t, S)
<1>1. \A n \in Nodes : ChildrenOf(u, n) = ChildrenOf(t, n)
  BY DEF ChildrenOf
<1>2. \A S \in SUBSET Nodes : Below(u, S) = Below(t, S)
  <2> TAKE S \in SUBSET Nodes
  <2>1. Below(t, S) \subseteq Nodes
    BY DEF Below
  <2> QED
    BY <1>1, <2>1, BelowSame
<1>3. LiveIn(u) = LiveIn(t)
  BY DEF LiveIn
<1>4. O \in SUBSET Nodes
  BY DEF Forest, LiveIn
<1> QED
  BY <1>2, <1>3, <1>4 DEF Forest

\* Freeing the trees of some tops leaves the trees of the others as they are.
LEMMA ForestFrees ==
  ASSUME NEW t, NEW O, Forest(t, O), NEW S \in SUBSET O
  PROVE  /\ Forest(FreeNodes(t, S), O \ S)
         /\ \A T \in SUBSET (O \ S) : Below(FreeNodes(t, S), T) = Below(t, T)
         /\ \A T \in SUBSET (O \ S) : \A n \in Below(t, T) : FreeNodes(t, S)[n] = t[n]
<1> DEFINE u == FreeNodes(t, S)
<1>1. O \in SUBSET Nodes /\ S \in SUBSET Nodes
  BY DEF Forest, LiveIn
<1>2. \A n \in Nodes : /\ n \in Below(t, S) => u[n] = Freed
                       /\ n \notin Below(t, S) => u[n] = t[n]
  BY DEF FreeNodes
<1>3. Freed.s = "freed" /\ Freed.below = Null /\ Freed.in = Null
  BY FreedIs
<1> HIDE DEF u
<1>4. ASSUME NEW T \in SUBSET (O \ S)
      PROVE  Below(t, T) \intersect Below(t, S) = {}
  <2>1. /\ T \in SUBSET Nodes /\ T \intersect S = {} 
        /\ \A n \in T \union S : t[n].below = Null
    BY <1>1 DEF Forest
  <2> QED
    BY <1>1, <2>1, BelowApart
<1>5. ASSUME NEW T \in SUBSET (O \ S)
      PROVE  Below(u, T) = Below(t, T)
  <2>1. T \in SUBSET Nodes
    BY <1>1
  <2>2. Below(t, T) \subseteq Nodes /\ Closed(t, Below(t, T))
    BY <2>1, BelowCloses
  <2>3. ASSUME NEW a \in Below(t, T)
        PROVE  ChildrenOf(u, a) = ChildrenOf(t, a)
    <3>1. a \in Nodes /\ a # Null
      BY <2>2, NullIsNone
    <3>2. ChildrenOf(t, a) \subseteq Below(t, T)
      BY <2>2 DEF Closed
    <3> QED
      BY <1>2, <1>3, <1>4, <3>1, <3>2 DEF ChildrenOf
  <2> QED
    BY <2>1, <2>3, BelowSame
<1>6. ASSUME NEW T \in SUBSET (O \ S), NEW n \in Below(t, T)
      PROVE  u[n] = t[n]
  BY <1>2, <1>4 DEF Below
<1>7. Closed(t, Below(t, S)) /\ Below(t, S) \subseteq Nodes
  BY <1>1, BelowCloses
<1>8. O \ S \subseteq Below(t, O \ S)
  <2>1. O \ S \in SUBSET Nodes
    BY <1>1
  <2> QED
    BY <2>1, BelowCloses
<1>9. O \ S \subseteq LiveIn(u) /\ \A n \in O \ S : u[n].below = Null
  <2>1. \A n \in O \ S : u[n] = t[n]
    BY <1>6, <1>8
  <2> QED
    BY <2>1 DEF Forest, LiveIn
<1>10. ASSUME NEW n \in Nodes, u[n].below # Null
       PROVE  n \in LiveIn(u) /\ u[n].below \in LiveIn(u)
  <2>1. u[n] = t[n] /\ n \notin Below(t, S)
    BY <1>2, <1>3, <1>10
  <2>2. n \in LiveIn(t) /\ t[n].below \in LiveIn(t)
    BY <1>10, <2>1 DEF Forest
  <2>3. t[n].below \notin Below(t, S)
    BY <1>7, <2>1 DEF Closed, ChildrenOf
  <2> QED
    BY <1>2, <2>1, <2>2, <2>3 DEF LiveIn
<1>11. LiveIn(u) \subseteq Below(u, O \ S)
  <2>1. Below(t, O) = Below(t, O \ S) \union Below(t, S)
    <3>1. O = (O \ S) \union S /\ O \ S \in SUBSET Nodes
      BY <1>1
    <3> QED
      BY <1>1, <3>1, BelowUnion
  <2>2. ASSUME NEW n \in LiveIn(u) 
        PROVE  n \in Below(t, O \ S)
    <3>1. n \in Nodes /\ u[n].s = "live" /\ n \notin Below(t, S)
      BY <1>2, <1>3 DEF LiveIn
    <3>2. n \in LiveIn(t)
      BY <1>2, <3>1 DEF LiveIn
    <3> QED
      BY <2>1, <3>1, <3>2 DEF Forest
  <2> QED
    BY <1>5, <2>2
<1> QED
  BY <1>5, <1>6, <1>9, <1>10, <1>11 DEF Forest, u

\* Freeing the children of a node, and what is below them, leaves the rest of
\* the forest where it is.
LEMMA ForestCuts ==
  ASSUME NEW t, NEW O, Forest(t, O), NEW n \in LiveIn(t), NEW C, C = ChildrenOf(t, n)
  PROVE  /\ Forest(FreeNodes(t, C), O)
         /\ n \in LiveIn(FreeNodes(t, C)) /\ O \intersect Below(t, C) = {}
         /\ \A T \in SUBSET Nodes : Below(t, T) \ Below(t, C) \subseteq Below(FreeNodes(t, C), T)
<1> DEFINE B == Below(t, C)
           u == FreeNodes(t, C)
<1>1. O \in SUBSET Nodes /\ C \in SUBSET Nodes /\ n \in Nodes /\ Null \notin Nodes
  BY NullIsNone DEF Forest, LiveIn, ChildrenOf
<1>2. \A m \in Nodes : /\ m \in B => u[m] = Freed
                       /\ m \notin B => u[m] = t[m]
  BY DEF FreeNodes
<1>3. Freed.s = "freed" /\ Freed.below = Null
  BY FreedIs
<1>4. C \subseteq B /\ B \subseteq Nodes /\ \A a \in B : ChildrenOf(t, a) \subseteq B
  BY <1>1, BelowCloses DEF Closed
<1>5. \A m \in B : t[m].below = n \/ t[m].below \in B
  BY <1>1, BelowUp DEF ChildrenOf
<1> HIDE DEF B, u
<1>6. O \intersect B = {}
  BY <1>1, <1>4, <1>5 DEF Forest
<1>7. n \notin B
  <2> SUFFICES ASSUME n \in B PROVE FALSE
    OBVIOUS
  <2> DEFINE Z == Below(t, O) \ B
  <2>1. /\ O \subseteq Below(t, O) /\ Below(t, O) \subseteq Nodes
        /\ \A a \in Below(t, O) : ChildrenOf(t, a) \subseteq Below(t, O)
    BY <1>1, BelowCloses DEF Closed
  <2>2. Closed(t, Z)
    <3> SUFFICES ASSUME NEW a \in Z, NEW m \in ChildrenOf(t, a)
                 PROVE  m \in Z
      BY DEF Closed
    <3>1. m \in Below(t, O) /\ t[m].below = a
      BY <2>1 DEF ChildrenOf
    <3> QED
      BY <1>5, <3>1
  <2>3. Z \in SUBSET Nodes /\ O \subseteq Z
    BY <1>6, <2>1
  <2>4. Below(t, O) \subseteq Z
    BY <2>2, <2>3, BelowLeast
  <2> QED
    BY <2>4 DEF Forest
<1>8. ASSUME NEW T \in SUBSET Nodes
      PROVE  Below(t, T) \ B \subseteq Below(u, T)
  <2> DEFINE X == Below(u, T) \union B
  <2>1. /\ T \subseteq Below(u, T) /\ Below(u, T) \subseteq Nodes
        /\ \A a \in Below(u, T) : ChildrenOf(u, a) \subseteq Below(u, T)
    BY BelowCloses DEF Closed
  <2>2. Closed(t, X)
    <3> SUFFICES ASSUME NEW a \in X, NEW m \in ChildrenOf(t, a), m \notin B
                 PROVE  m \in Below(u, T)
      BY DEF Closed
    <3>1. m \in Nodes /\ t[m].below = a /\ u[m] = t[m]
      BY <1>2 DEF ChildrenOf
    <3>2. a \in Below(u, T)
      BY <1>4
    <3> QED
      BY <2>1, <3>1, <3>2 DEF ChildrenOf
  <2>3. X \in SUBSET Nodes /\ T \subseteq X
    BY <1>4, <2>1
  <2>4. Below(t, T) \subseteq X
    BY <2>2, <2>3, BelowLeast
  <2> QED
    BY <2>4
<1>9. LiveIn(u) = LiveIn(t) \ B
  BY <1>2, <1>3 DEF LiveIn
<1>10. O \subseteq LiveIn(u) /\ \A m \in O : u[m].below = Null
  BY <1>1, <1>2, <1>6, <1>9 DEF Forest
<1>11. ASSUME NEW m \in Nodes, u[m].below # Null
       PROVE  m \in LiveIn(u) /\ u[m].below \in LiveIn(u)
  <2>1. u[m] = t[m] /\ m \notin B
    BY <1>2, <1>3, <1>11
  <2>2. m \in LiveIn(t) /\ t[m].below \in LiveIn(t)
    BY <1>11, <2>1 DEF Forest
  <2>3. t[m].below \notin B
    BY <1>4, <2>1 DEF ChildrenOf
  <2> QED
    BY <1>9, <2>1, <2>2, <2>3
<1>12. LiveIn(u) \subseteq Below(u, O)
  BY <1>1, <1>8, <1>9 DEF Forest
<1>13. Forest(u, O)
  BY <1>10, <1>11, <1>12 DEF Forest
<1> QED
  BY <1>6, <1>7, <1>8, <1>9, <1>13 DEF B, u

\* A new node below a live one.
LEMMA ForestGrows ==
  ASSUME NEW t, NEW O, Forest(t, O), NEW p \in LiveIn(t), NEW x \in Spare(t),
         NEW u, u[x].s = "live", u[x].below = p, \A n \in Nodes \ {x} : u[n] = t[n]
  PROVE  /\ Forest(u, O)
         /\ \A S \in SUBSET Nodes : Below(t, S) \subseteq Below(u, S)
<1>1. x \in Nodes /\ x \notin LiveIn(t) /\ O \in SUBSET Nodes /\ x \notin O /\ p \in Nodes
  BY DEF Spare, LiveIn, Forest
<1>2. t[x].below = Null /\ Null \notin Nodes
  BY <1>1, NullIsNone DEF Forest
<1>3. LiveIn(u) = LiveIn(t) \union {x}
  BY <1>1 DEF LiveIn
<1>4. \A a \in Nodes : ChildrenOf(t, a) \subseteq ChildrenOf(u, a)
  BY <1>2 DEF ChildrenOf
<1>5. \A S \in SUBSET Nodes : Below(t, S) \subseteq Below(u, S)
  BY <1>4, BelowMore
<1>6. /\ O \subseteq LiveIn(u) /\ \A n \in O : u[n].below = Null
      /\ \A n \in Nodes : u[n].below # Null => n \in LiveIn(u) /\ u[n].below \in LiveIn(u)
  BY <1>1, <1>3 DEF Forest
<1>7. LiveIn(u) \subseteq Below(u, O)
  <2>1. LiveIn(t) \subseteq Below(u, O)
    BY <1>1, <1>5 DEF Forest
  <2>2. \A a \in Below(u, O) : ChildrenOf(u, a) \subseteq Below(u, O)
    BY <1>1, BelowCloses DEF Closed
  <2>3. x \in ChildrenOf(u, p)
    BY <1>1 DEF ChildrenOf
  <2> QED
    BY <1>3, <2>1, <2>2, <2>3
<1> QED
  BY <1>5, <1>6, <1>7 DEF Forest

\* Hanging a top below a node that is not in its tree leaves a forest, and
\* more below every node.
LEMMA ForestHangs ==
  ASSUME NEW t, NEW O, Forest(t, O), NEW x \in O, NEW p \in LiveIn(t),
         p \notin Below(t, {x}),
         NEW u, u[x].below = p, u[x].s = t[x].s, \A n \in Nodes \ {x} : u[n] = t[n]
  PROVE  /\ Forest(u, O \ {x})
         /\ \A S \in SUBSET Nodes : Below(t, S) \subseteq Below(u, S)
<1>1. O \in SUBSET Nodes /\ x \in Nodes /\ p \in Nodes /\ p # Null
  BY NullIsNone DEF Forest, LiveIn
<1>2. t[x].below = Null
  BY DEF Forest
<1>3. /\ u[x].below = p /\ u[x].s = t[x].s
      /\ \A n \in Nodes \ {x} : u[n] = t[n]
  OBVIOUS
<1>4. LiveIn(u) = LiveIn(t)
  BY <1>3 DEF LiveIn
<1>5. \A a \in Nodes : ChildrenOf(t, a) \subseteq ChildrenOf(u, a)
  BY <1>2, <1>3, NullIsNone DEF ChildrenOf
<1>6. \A S \in SUBSET Nodes : Below(t, S) \subseteq Below(u, S)
  BY <1>5, BelowMore
<1>7. /\ O \ {x} \subseteq LiveIn(u)
      /\ \A n \in O \ {x} : u[n].below = Null
      /\ \A n \in Nodes : u[n].below # Null => n \in LiveIn(u) /\ u[n].below \in LiveIn(u)
  BY <1>1, <1>3, <1>4 DEF Forest
<1>8. LiveIn(u) \subseteq Below(u, O \ {x})
  <2>1. O = (O \ {x}) \union {x} /\ O \ {x} \in SUBSET Nodes /\ {x} \in SUBSET Nodes
    BY <1>1
  <2>2. Below(t, O) = Below(t, O \ {x}) \union Below(t, {x})
    BY <2>1, BelowUnion
  <2>3. p \in Below(t, O \ {x})
    BY <2>2 DEF Forest
  <2>4. /\ Below(t, O \ {x}) \subseteq Below(u, O \ {x})
        /\ Below(t, {x}) \subseteq Below(u, {x})
    BY <1>6, <2>1
  <2>5. Closed(u, Below(u, O \ {x})) /\ Below(u, O \ {x}) \in SUBSET Nodes
    BY <2>1, BelowCloses
  <2>6. x \in Below(u, O \ {x})
    BY <1>1, <1>3, <2>3, <2>4, <2>5 DEF Closed, ChildrenOf
  <2>7. Below(u, {x}) \subseteq Below(u, O \ {x})
    <3>1. {x} \subseteq Below(u, O \ {x})
      BY <2>6
    <3> QED
      BY <2>5, <3>1, BelowLeast
  <2> QED
    BY <1>4, <2>2, <2>4, <2>7 DEF Forest
<1> QED
  BY <1>4, <1>6, <1>7, <1>8 DEF Forest

\* A new node below nothing is a new top, with nothing below it.
LEMMA ForestPlants ==
  ASSUME NEW t, NEW O, Forest(t, O), NEW x \in Spare(t),
         NEW u, u[x].s = "live", u[x].below = Null, \A n \in Nodes \ {x} : u[n] = t[n]
  PROVE  /\ Forest(u, O \union {x})
         /\ \A S \in SUBSET Nodes : Below(u, S) = Below(t, S)
         /\ Below(t, {x}) = {x}
<1>1. x \in Nodes /\ t[x].s = "fresh" /\ x \notin LiveIn(t) /\ O \in SUBSET Nodes /\ x \notin O
  BY DEF Spare, LiveIn, Forest
<1>2. /\ u[x].below = Null /\ u[x].s = "live" /\ t[x].below = Null
      /\ \A n \in Nodes \ {x} : u[n] = t[n]
  BY <1>1 DEF Forest, LiveIn
<1>3. LiveIn(u) = LiveIn(t) \union {x}
  BY <1>1, <1>2 DEF LiveIn
<1>4. \A a \in Nodes : ChildrenOf(u, a) = ChildrenOf(t, a)
  BY <1>2 DEF ChildrenOf
<1>5. ASSUME NEW S \in SUBSET Nodes
      PROVE  Below(u, S) = Below(t, S)
  <2>1. Below(t, S) \subseteq Nodes
    BY DEF Below
  <2> QED
    BY <1>4, <2>1, BelowSame
<1>6. Below(t, {x}) = {x}
  <2>1. Closed(t, {x})
    BY <1>1, NullIsNone DEF Closed, ChildrenOf, Forest
  <2>2. {x} \in SUBSET Nodes
    BY <1>1
  <2> QED
    BY <2>1, <2>2, BelowLeast, BelowCloses
<1>7. LiveIn(u) \subseteq Below(u, O \union {x})
  <2>1. Below(t, O \union {x}) = Below(t, O) \union {x}
    <3>1. {x} \in SUBSET Nodes
      BY <1>1
    <3> QED
      BY <1>1, <1>6, <3>1, BelowUnion
  <2>2. O \union {x} \in SUBSET Nodes
    BY <1>1
  <2> QED
    BY <1>3, <1>5, <2>1, <2>2 DEF Forest
<1>8. /\ O \union {x} \subseteq LiveIn(u)
      /\ \A n \in O \union {x} : u[n].below = Null
      /\ \A n \in Nodes : u[n].below # Null => n \in LiveIn(u) /\ u[n].below \in LiveIn(u)
  BY <1>1, <1>2, <1>3 DEF Forest
<1> QED
  BY <1>5, <1>6, <1>7, <1>8 DEF Forest

\* The copy of a node: every node of its tree has a new one at its place,
\* and the other nodes are as they were.
LEMMA CopyIs ==
  ASSUME NEW t \in Trees, NEW n \in Nodes, Copyable(t, n)
  PROVE  \E f \in [Below(t, {n}) -> Spare(t)] :
           /\ \A a, b \in Below(t, {n}) : f[a] = f[b] => a = b
           /\ New(t, n) = f[n]
           /\ \A a \in Below(t, {n}) :
                CopyNode(t, n)[f[a]] = NewNode(Null, IF a = n THEN Null ELSE f[t[a].below], t[a].text)
           /\ \A m \in Nodes : (\A a \in Below(t, {n}) : f[a] # m) => CopyNode(t, n)[m] = t[m]
<1> DEFINE f == Place(t, n)
           D == Below(t, {n})
<1>1. f \in Places(t, n)
  BY DEF Place, Copyable
<1>2. f \in [D -> Spare(t)] /\ \A a, b \in D : f[a] = f[b] => a = b
  BY <1>1 DEF Places, Injection, IsInjective
<1> DEFINE CopyOf(a) == NewNode(Null, IF a = n THEN Null ELSE f[t[a].below], t[a].text)
<1>3. CopyNode(t, n) = [m \in Nodes |-> IF m \in Range(f) THEN CopyOf(CHOOSE a \in DOMAIN f : f[a] = m) ELSE t[m]]
  BY DEF CopyNode
<1>4. New(t, n) = f[n]
  BY DEF New
<1> HIDE DEF f
<1>5. Range(f) = {f[a] : a \in D} /\ DOMAIN f = D
  BY <1>2 DEF Range
<1>6. ASSUME NEW a \in D
      PROVE  CopyNode(t, n)[f[a]] = CopyOf(a)
  <2>1. (CHOOSE b \in DOMAIN f : f[b] = f[a]) = a
    BY <1>2
  <2>2. f[a] \in Nodes /\ f[a] \in Range(f)
    BY <1>2, <1>5 DEF Spare
  <2> HIDE DEF CopyOf
  <2> QED
    BY <1>3, <2>1, <2>2
<1>7. \A m \in Nodes : (\A a \in D : f[a] # m) => CopyNode(t, n)[m] = t[m]
  BY <1>3, <1>5
<1> QED
  BY <1>2, <1>4, <1>6, <1>7

\* A copy is a new top; below the nodes there were nothing changes, and
\* below the copy there are only new nodes.
LEMMA ForestCopies ==
  ASSUME NEW t \in Trees, NEW O, Forest(t, O), NEW n \in LiveIn(t), Copyable(t, n),
         RootsOf(t) \subseteq O
  PROVE  /\ CopyNode(t, n) \in Trees
         /\ Forest(CopyNode(t, n), O \union {New(t, n)})
         /\ New(t, n) \in Spare(t) /\ LiveIn(t) \subseteq LiveIn(CopyNode(t, n))
         /\ \A m \in Nodes : CopyNode(t, n)[m].in = t[m].in
         /\ \A S \in SUBSET LiveIn(t) : Below(CopyNode(t, n), S) = Below(t, S)
         /\ Below(CopyNode(t, n), {New(t, n)}) \subseteq Spare(t)
<1> DEFINE u == CopyNode(t, n)
           D == Below(t, {n})
           r == New(t, n)
<1>1. n \in Nodes /\ {n} \in SUBSET Nodes
  BY DEF LiveIn
<1>2. PICK f \in [D -> Spare(t)] :
           /\ \A a, b \in D : f[a] = f[b] => a = b
           /\ r = f[n]
           /\ \A a \in D : u[f[a]] = NewNode(Null, IF a = n THEN Null ELSE f[t[a].below], t[a].text)
           /\ \A m \in Nodes : (\A a \in D : f[a] # m) => u[m] = t[m]
  BY <1>1, CopyIs
<1>3. n \in D /\ D \subseteq Nodes /\ Closed(t, D)
  BY <1>1, BelowCloses
<1>4. r = f[n]
  BY <1>2
<1>5. \A a \in D : a = n \/ t[a].below \in D
  BY <1>1, BelowUp
<1>6. D \subseteq LiveIn(t)
  <2>1. {n} \in SUBSET LiveIn(t)
    OBVIOUS
  <2> QED
    BY <2>1, ForestLives
<1>7. \A a \in D : f[a] \in Spare(t) /\ f[a] \in Nodes /\ f[a] \notin LiveIn(t)
  BY <1>2 DEF Spare, LiveIn
<1>8. \A a \in D : /\ u[f[a]].s = "live" /\ u[f[a]].in = Null /\ u[f[a]].text = t[a].text
                   /\ u[f[a]].below = IF a = n THEN Null ELSE f[t[a].below]
                   /\ u[f[a]] \in NodeStates
  <2> TAKE a \in D
  <2> HIDE DEF u, D
  <2>1. t[a].text \in BOOLEAN
    BY <1>3 DEF Trees, NodeStates
  <2>2. (IF a = n THEN Null ELSE f[t[a].below]) \in Nodes \union {Null}
    BY <1>5, <1>7
  <2>3. u[f[a]] = NewNode(Null, IF a = n THEN Null ELSE f[t[a].below], t[a].text)
    BY <1>2
  <2> QED
    BY <2>1, <2>2, <2>3 DEF NewNode, NodeStates, States
<1>9. \A m \in Nodes : (\A a \in D : f[a] # m) => u[m] = t[m]
  BY <1>2
<1>10. u \in Trees
  <2>1. \A m \in Nodes : u[m] \in NodeStates
    BY <1>8, <1>9 DEF Trees
  <2>2. u = [m \in Nodes |-> u[m]]
    BY DEF CopyNode
  <2> QED
    BY <2>1, <2>2 DEF Trees
<1>11. \A m \in Nodes \ Spare(t) : u[m] = t[m]
  BY <1>7, <1>9
<1> HIDE DEF u, D
<1>12. LiveIn(u) = LiveIn(t) \union {f[a] : a \in D}
  BY <1>7, <1>8, <1>9 DEF LiveIn
<1>13. \A m \in Nodes : u[m].in = t[m].in
  <2> TAKE m \in Nodes
  <2>1. CASE \E a \in D : f[a] = m
    BY <1>7, <1>8, <2>1 DEF Forest, RootsOf
  <2>2. CASE \A a \in D : f[a] # m
    BY <1>9, <2>2
  <2> QED
    BY <2>1, <2>2
<1>14. \A m \in Nodes : t[m].s # "live" => t[m].below = Null
  BY DEF Forest, LiveIn
<1>15. ASSUME NEW S \in SUBSET LiveIn(t)
       PROVE  Below(u, S) = Below(t, S)
  <2>1. Below(t, S) \subseteq LiveIn(t)
    BY ForestLives
  <2>2. S \in SUBSET Nodes
    BY DEF LiveIn
  <2>3. ASSUME NEW a \in LiveIn(t), NEW m \in Nodes
        PROVE  u[m].below = a <=> t[m].below = a
    <3>1. a # Null /\ a \in Nodes /\ \A b \in D : f[b] # a
      BY <1>7, NullIsNone DEF LiveIn
    <3>2. CASE \E b \in D : f[b] = m
      <4>1. PICK b \in D : f[b] = m
        BY <3>2
      <4>2. u[m].below # a
        BY <1>5, <1>8, <3>1, <4>1
      <4>3. t[m].below # a
        BY <1>7, <1>14, <3>1, <4>1 DEF Spare
      <4> QED
        BY <4>2, <4>3
    <3>3. CASE \A b \in D : f[b] # m
      BY <1>9, <3>3
    <3> QED
      BY <3>2, <3>3
  <2>4. \A a \in Below(t, S) : ChildrenOf(u, a) = ChildrenOf(t, a)
    BY <2>1, <2>3 DEF ChildrenOf
  <2> QED
    BY <2>2, <2>4, BelowSame
<1>16. r \in Spare(t) /\ r \in Nodes /\ {r} \in SUBSET Nodes
  BY <1>4, <1>3, <1>7
<1>17. Below(u, {r}) \subseteq {f[a] : a \in D}
  <2>1. {f[a] : a \in D} \in SUBSET Nodes /\ {r} \subseteq {f[a] : a \in D}
    BY <1>4, <1>3, <1>7
  <2>2. Closed(u, {f[a] : a \in D})
    <3> SUFFICES ASSUME NEW a \in D, NEW m \in Nodes, u[m].below = f[a]
                 PROVE  \E b \in D : m = f[b]
      BY DEF Closed, ChildrenOf
    <3>1. t[m].below # f[a]
      BY <1>7, NullIsNone DEF Forest
    <3> QED
      BY <1>9, <3>1
  <2> QED
    BY <2>1, <2>2, BelowLeast
<1>18. \A a \in D : f[a] \in Below(u, {r})
  <2> DEFINE T == {a \in D : f[a] \in Below(u, {r})}
  <2>1. r \in Below(u, {r}) /\ Closed(u, Below(u, {r}))
    BY <1>16, BelowCloses
  <2>2. n \in T
    BY <1>4, <1>3, <2>1
  <2>3. Closed(t, T)
    <3> SUFFICES ASSUME NEW a \in T, NEW m \in Nodes, t[m].below = a
                 PROVE  m \in T
      BY DEF Closed, ChildrenOf
    <3>1. m \in D
      BY <1>3 DEF Closed, ChildrenOf
    <3>2. m = n \/ u[f[m]].below = f[a]
      BY <1>8, <3>1
    <3>3. f[m] \in Below(u, {r}) \/ m = n
      BY <1>7, <2>1, <3>1, <3>2 DEF Closed, ChildrenOf
    <3> QED
      BY <2>2, <3>1, <3>3
  <2>4. T \in SUBSET Nodes /\ {n} \subseteq T
    BY <1>3, <2>2
  <2>5. D \subseteq T
    BY <2>3, <2>4, BelowLeast DEF D
  <2> QED
    BY <2>5
<1>19. Forest(u, O \union {r})
  <2>1. O \subseteq LiveIn(t) /\ O \in SUBSET Nodes /\ O \in SUBSET LiveIn(t)
    BY DEF Forest, LiveIn
  <2>2. Below(u, O \union {r}) = Below(t, O) \union Below(u, {r})
    BY <1>15, <1>16, <2>1, BelowUnion
  <2>3. LiveIn(u) \subseteq Below(u, O \union {r})
    BY <1>12, <1>18, <2>2 DEF Forest
  <2>4. O \union {r} \subseteq LiveIn(u) /\ r = f[n]
    BY <1>4, <1>3, <1>12, <2>1
  <2>5. \A m \in LiveIn(t) : u[m] = t[m]
    BY <1>11 DEF LiveIn, Spare
  <2>6. \A m \in O \union {r} : u[m].below = Null
    BY <1>3, <1>8, <2>1, <2>4, <2>5 DEF Forest
  <2>7. ASSUME NEW m \in Nodes, u[m].below # Null
        PROVE  m \in LiveIn(u) /\ u[m].below \in LiveIn(u)
    <3>1. CASE \E b \in D : f[b] = m
      BY <1>5, <1>8, <1>12, <2>7, <3>1
    <3>2. CASE \A b \in D : f[b] # m
      <4>1. u[m] = t[m]
        BY <1>9, <3>2
      <4> QED
        BY <1>12, <2>7, <4>1 DEF Forest
    <3> QED
      BY <3>1, <3>2
  <2> QED
    BY <2>3, <2>4, <2>6, <2>7 DEF Forest
<1>20. Below(u, {r}) \subseteq Spare(t)
  BY <1>7, <1>17
<1> QED
  BY <1>10, <1>12, <1>13, <1>15, <1>16, <1>19, <1>20 DEF u

\* Adding a top to a node frees it, or hangs it there; the other tops are
\* what they were, and there is no less below them.
LEMMA ForestAdds ==
  ASSUME NEW t \in Trees, NEW O, Forest(t, O), NEW x \in O, NEW p \in LiveIn(t),
         p \notin Below(t, {x}), RootsOf(t) \subseteq O, x \notin RootsOf(t),
         AddChild(t, p, x)
  PROVE  /\ node' \in Trees
         /\ Forest(node', O \ {x})
         /\ \A m \in Nodes : node'[m].in = t[m].in
         /\ \A T \in SUBSET (O \ {x}) : Below(t, T) \subseteq Below(node', T)
<1>1. O \in SUBSET Nodes /\ {x} \in SUBSET O /\ x \in Nodes /\ p \in Nodes
  BY DEF Forest, LiveIn
<1>2. CASE node' = FreeNodes(t, {x})
  <2>1. node' \in Trees
    BY <1>2, FreedIs DEF FreeNodes, Trees
  <2>2. /\ Forest(node', O \ {x})
        /\ \A T \in SUBSET (O \ {x}) : Below(node', T) = Below(t, T)
        /\ \A T \in SUBSET (O \ {x}) : \A n \in Below(t, T) : node'[n] = t[n]
    <3>1. ASSUME NEW S \in SUBSET O, S = {x}
          PROVE  /\ Forest(FreeNodes(t, S), O \ S)
                 /\ \A T \in SUBSET (O \ S) : Below(FreeNodes(t, S), T) = Below(t, T)
                 /\ \A T \in SUBSET (O \ S) : \A n \in Below(t, T) : FreeNodes(t, S)[n] = t[n]
      BY ForestFrees
    <3> QED
      BY <1>1, <1>2, <3>1
  <2>3. ASSUME NEW m \in RootsOf(t)
        PROVE  node'[m] = t[m]
    <3>1. {m} \in SUBSET (O \ {x}) /\ {m} \in SUBSET Nodes
      BY <1>1
    <3>2. m \in Below(t, {m})
      BY <3>1, BelowCloses
    <3> QED
      BY <2>2, <3>1, <3>2
  <2>4. ASSUME NEW m \in Nodes \ RootsOf(t)
        PROVE  node'[m].in = t[m].in
    BY <1>2, FreedIs DEF FreeNodes, RootsOf
  <2> QED
    BY <2>1, <2>2, <2>3, <2>4
<1>3. CASE node' = [t EXCEPT ![x].below = p]
  <2>1. /\ Forest(node', O \ {x})
        /\ \A S \in SUBSET Nodes : Below(t, S) \subseteq Below(node', S)
    <3>1. node'[x].below = p /\ node'[x].s = t[x].s /\ \A n \in Nodes \ {x} : node'[n] = t[n]
      BY <1>1, <1>3 DEF Trees, NodeStates
    <3> QED
      BY <3>1, ForestHangs
  <2>2. node' \in Trees /\ \A m \in Nodes : node'[m].in = t[m].in
    BY <1>1, <1>3 DEF Trees, NodeStates
  <2> QED
    BY <1>1, <2>1, <2>2
<1> QED
  BY <1>2, <1>3 DEF AddChild

(***************************************************************************)
(* Holders                                                                 *)
(***************************************************************************)
HolderStates == [n : Nodes \union {Null}, ref : BOOLEAN]

\* The nodes that NodeHolder own.
TopsOf(hold) == {hold[h].n : h \in {g \in NodeVars : ~hold[g].ref}}

HoldersOK(vr, hold) ==
  /\ \A h \in NodeVars : ~hold[h].ref => hold[h].n \in Nodes
  /\ \A h, g \in NodeVars : ~hold[h].ref /\ ~hold[g].ref /\ h # g => hold[h].n # hold[g].n
  /\ \A h \in NodeVars : (\A v \in NodeVars : vr[v] # h) => hold[h] = NoHolder

\* Letting go of freed nodes takes no node from its owner.
LEMMA KeptKeeps ==
  ASSUME NEW vr, NEW hold \in [NodeVars -> HolderStates], HoldersOK(vr, hold), NEW t
  PROVE  /\ Kept(hold, t) \in [NodeVars -> HolderStates]
         /\ HoldersOK(vr, Kept(hold, t))
         /\ TopsOf(Kept(hold, t)) = TopsOf(hold)
<1> DEFINE k == Kept(hold, t)
<1>1. NoHolder \in HolderStates /\ NoHolder.ref = TRUE
  BY DEF NoHolder, HolderStates
<1>2. \A h \in NodeVars : k[h] = hold[h] \/ (k[h] = NoHolder /\ hold[h].ref)
  BY DEF Kept
<1>3. k \in [NodeVars -> HolderStates]
  BY <1>1 DEF Kept
<1> HIDE DEF k
<1>4. \A h \in NodeVars : /\ k[h].ref <=> hold[h].ref
                          /\ ~hold[h].ref => k[h] = hold[h]
                          /\ hold[h] = NoHolder => k[h] = NoHolder
  BY <1>1, <1>2
<1>5. HoldersOK(vr, k)
  BY <1>4 DEF HoldersOK
<1>6. TopsOf(k) = TopsOf(hold)
  BY <1>4 DEF TopsOf
<1> QED
  BY <1>3, <1>5, <1>6 DEF k

\* A holder that becomes a reference, or goes, gives up its node.
LEMMA GivesUp ==
  ASSUME HoldersOK(var, holder),
         NEW h \in NodeVars, NEW k \in [NodeVars -> HolderStates],
         k[h].ref, \A g \in NodeVars \ {h} : k[g] = holder[g],
         \A g \in NodeVars \ {h} : (\A w \in NodeVars : var'[w] # g) => \A w \in NodeVars : var[w] # g,
         k[h] = NoHolder \/ \E w \in NodeVars : var'[w] = h
  PROVE  /\ HoldersOK(var', k)
         /\ holder[h].ref => TopsOf(k) = TopsOf(holder)
         /\ ~holder[h].ref => TopsOf(k) = TopsOf(holder) \ {holder[h].n}
<1>1. HoldersOK(var', k)
  BY DEF HoldersOK
<1>2. \A g \in NodeVars \ {h} : ~holder[g].ref /\ ~holder[h].ref => holder[g].n # holder[h].n
  BY DEF HoldersOK
<1>3. CASE holder[h].ref
  BY <1>1, <1>3 DEF TopsOf
<1>4. CASE ~holder[h].ref
  BY <1>1, <1>2, <1>4 DEF TopsOf
<1> QED
  BY <1>1, <1>3, <1>4

\* A new Node owns its node, if it is no reference.
LEMMA WrapOwns ==
  ASSUME holder \in [NodeVars -> HolderStates], var \in [NodeVars -> NodeVars \union {NoVar}],
         HoldersOK(var, holder), NEW v \in NodeVars, NEW n \in Nodes, NEW ref \in BOOLEAN,
         ref \/ n \notin TopsOf(holder), Wrap(v, n, ref)
  PROVE  /\ holder' \in [NodeVars -> HolderStates] /\ var' \in [NodeVars -> NodeVars \union {NoVar}]
         /\ HoldersOK(var', holder')
         /\ TopsOf(holder') = TopsOf(holder) \union (IF ref THEN {} ELSE {n})
<1>1. PICK h \in NodeVars \ {var[w] : w \in NodeVars} :
        holder' = [holder EXCEPT ![h] = [n |-> n, ref |-> ref]] /\ var' = [var EXCEPT ![v] = h]
  BY DEF Wrap
<1>2. [n |-> n, ref |-> ref] \in HolderStates
  BY DEF HolderStates
<1>3. holder' \in [NodeVars -> HolderStates] /\ var' \in [NodeVars -> NodeVars \union {NoVar}]
  BY <1>1, <1>2
<1>4. /\ holder'[h].n = n /\ holder'[h].ref = ref
      /\ \A g \in NodeVars \ {h} : holder'[g] = holder[g]
      /\ var'[v] = h /\ var[v] = NoVar /\ \A w \in NodeVars \ {v} : var'[w] = var[w]
  BY <1>1 DEF Wrap
<1>5. holder[h] = NoHolder /\ holder[h].ref = TRUE
  BY <1>1 DEF HoldersOK, NoHolder
<1>6. \A g \in NodeVars : ~holder[g].ref => g # h /\ holder[g].n \in TopsOf(holder)
  BY <1>5 DEF TopsOf
<1>7. HoldersOK(var', holder')
  <2>1. \A g \in NodeVars : ~holder'[g].ref => holder'[g].n \in Nodes
    BY <1>4 DEF HoldersOK
  <2>2. \A g, f \in NodeVars : ~holder'[g].ref /\ ~holder'[f].ref /\ g # f => holder'[g].n # holder'[f].n
    BY <1>4, <1>6 DEF HoldersOK
  <2>3. \A g \in NodeVars : (\A w \in NodeVars : var'[w] # g) => holder'[g] = NoHolder
    <3> SUFFICES ASSUME NEW g \in NodeVars, \A w \in NodeVars : var'[w] # g
                 PROVE  holder'[g] = NoHolder
      OBVIOUS
    <3>1. g # h /\ \A w \in NodeVars : var[w] # g
      BY <1>4, NoVarIsNone
    <3> QED
      BY <1>4, <3>1 DEF HoldersOK
  <2> QED
    BY <2>1, <2>2, <2>3 DEF HoldersOK
<1>8. TopsOf(holder') = TopsOf(holder) \union (IF ref THEN {} ELSE {n})
  BY <1>4, <1>5, <1>6 DEF TopsOf
<1> QED
  BY <1>3, <1>7, <1>8

(***************************************************************************)
(* The invariant                                                           *)
(***************************************************************************)
TypeOK ==
  /\ doc \in [Docs -> States]
  /\ node \in Trees
  /\ xml \in [Xmls -> Docs \union {Null}]
  /\ var \in [NodeVars -> NodeVars \union {NoVar}]
  /\ holder \in [NodeVars -> HolderStates]
  /\ result \in [Results -> [d : Docs \union {Null}, nodes : SUBSET Nodes]]
  /\ lost \in SUBSET Nodes

\* A document has one root, and roots have documents.
RootInv ==
  \A m, n \in RootsOf(node) : /\ doc[node[n].in] = "live"
                              /\ node[m].in = node[n].in => m = n
\* No node has two owners.
ApartInv == /\ RootsOf(node) \intersect TopsOf(holder) = {}
            /\ lost \intersect (RootsOf(node) \union TopsOf(holder)) = {}
\* Xml and results keep their documents.
DocInv ==
  /\ \A x \in Xmls : xml[x] # Null => doc[xml[x]] = "live"
  /\ \A r \in Results : result[r].d # Null => doc[result[r].d] = "live"
\* The nodes of a result are in its document, or in what set_root() forgot, or
\* were freed by set_root() or set_text().
ResultInv ==
  \A r \in Results :
    /\ result[r].d = Null => result[r].nodes = {}
    /\ result[r].nodes \ replaced \subseteq Below(node, RootOf(node, result[r].d) \union lost)

XmlInv == /\ TypeOK /\ Forest(node, Owners) /\ HoldersOK(var, holder)
          /\ RootInv /\ ApartInv /\ DocInv /\ ResultInv

LEMMA OwnersAre == Owners = RootsOf(node) \union TopsOf(holder) \union lost
BY DEF Owners, Roots, Tops, RootsOf, TopsOf

LEMMA OwnersWillBe == Owners' = RootsOf(node') \union TopsOf(holder') \union lost'
BY DEF Owners, Roots, Tops, RootsOf, TopsOf

\* What is to be had of a usable Node.
LEMMA UsableIs ==
  ASSUME TypeOK, NEW v \in NodeVars, Usable(v)
  PROVE  var[v] \in NodeVars /\ N(v) \in LiveIn(node) /\ holder[var[v]].n = N(v)
BY DEF TypeOK, Usable, N, HolderStates, LiveIn

LEMMA InitXmlInv == Init => XmlInv
<1> SUFFICES ASSUME Init PROVE XmlInv
  OBVIOUS
<1>1. Fresh \in NodeStates /\ Fresh.s = "fresh" /\ Fresh.in = Null /\ Fresh.below = Null
  BY DEF Fresh, NodeStates, States
<1>2. NoHolder \in HolderStates /\ NoHolder.ref = TRUE
  BY DEF NoHolder, HolderStates
<1>3. NoResult.d = Null /\ NoResult.nodes = {} /\ NoResult \in [d : Docs \union {Null}, nodes : SUBSET Nodes]
  BY DEF NoResult
<1>4. TypeOK
  BY <1>1, <1>2, <1>3 DEF Init, TypeOK, Trees, States
<1>5. RootsOf(node) = {} /\ TopsOf(holder) = {} /\ lost = {} /\ LiveIn(node) = {}
  BY <1>1, <1>2 DEF Init, RootsOf, TopsOf, LiveIn
<1>6. Forest(node, Owners)
  BY <1>1, <1>5, OwnersAre DEF Forest, Init
<1>7. HoldersOK(var, holder)
  BY <1>2 DEF Init, HoldersOK
<1>8. RootInv /\ ApartInv
  BY <1>5 DEF RootInv, ApartInv
<1>9. DocInv /\ ResultInv
  BY <1>3 DEF DocInv, ResultInv, Init
<1> QED
  BY <1>4, <1>6, <1>7, <1>8, <1>9 DEF XmlInv

\* Steps that change no tree and no owner.
LEMMA QuietSteps ==
  ASSUME XmlInv, UNCHANGED <<doc, node, lost, replaced>>,
         var' \in [NodeVars -> NodeVars \union {NoVar}], holder' \in [NodeVars -> HolderStates],
         HoldersOK(var', holder'), TopsOf(holder') = TopsOf(holder),
         xml' \in [Xmls -> Docs \union {Null}],
         \A x \in Xmls : xml'[x] = Null \/ \E y \in Xmls : xml'[x] = xml[y],
         result' \in [Results -> [d : Docs \union {Null}, nodes : SUBSET Nodes]],
         \A r \in Results :
           \/ result'[r] = result[r] \/ result'[r] = NoResult
           \/ \E x \in Xmls : /\ xml[x] # Null /\ result'[r].d = xml[x]
                              /\ result'[r].nodes \subseteq Below(node, RootOf(node, xml[x]))
  PROVE  XmlInv'
<1>1. TypeOK'
  BY DEF XmlInv, TypeOK
<1>2. Forest(node, Owners)'
  BY OwnersAre, OwnersWillBe DEF XmlInv
<1>3. RootInv'
  BY DEF XmlInv, RootInv
<1>4. ApartInv'
  BY DEF XmlInv, ApartInv
<1>5. NoResult.d = Null /\ NoResult.nodes = {}
  BY DEF NoResult
<1>6. DocInv'
  BY <1>5 DEF XmlInv, DocInv
<1>7. ResultInv'
  <2> SUFFICES ASSUME NEW r \in Results
               PROVE  /\ result'[r].d = Null => result'[r].nodes = {}
                      /\ result'[r].nodes \ replaced \subseteq Below(node, RootOf(node, result'[r].d) \union lost)
    BY DEF ResultInv
  <2>1. CASE result'[r] = result[r]
    BY <2>1 DEF XmlInv, ResultInv
  <2>2. CASE result'[r] = NoResult
    BY <1>5, <2>2
  <2>3. ASSUME NEW x \in Xmls, xml[x] # Null, result'[r].d = xml[x],
               result'[r].nodes \subseteq Below(node, RootOf(node, xml[x]))
        PROVE  /\ result'[r].d = Null => result'[r].nodes = {}
               /\ result'[r].nodes \ replaced \subseteq Below(node, RootOf(node, result'[r].d) \union lost)
    <3>1. /\ RootOf(node, xml[x]) \in SUBSET Nodes /\ RootOf(node, xml[x]) \union lost \in SUBSET Nodes
          /\ RootOf(node, xml[x]) \subseteq RootOf(node, xml[x]) \union lost
      BY DEF RootOf, XmlInv, TypeOK
    <3> QED
      BY <2>3, <3>1, BelowGrows
  <2> QED
    BY <2>1, <2>2, <2>3
<1> QED
  BY <1>1, <1>2, <1>3, <1>4, <1>6, <1>7 DEF XmlInv

\* Steps that change trees, and the holders with them, but no document.
LEMMA TreeSteps ==
  ASSUME XmlInv, UNCHANGED <<doc, xml, result, lost>>, replaced \subseteq replaced',
         node' \in Trees, \A m \in Nodes : node'[m].in = node[m].in,
         var' \in [NodeVars -> NodeVars \union {NoVar}], holder' \in [NodeVars -> HolderStates],
         HoldersOK(var', holder'),
         TopsOf(holder') \intersect (RootsOf(node) \union lost) = {},
         Forest(node', RootsOf(node) \union TopsOf(holder') \union lost),
         \A T \in SUBSET (RootsOf(node) \union lost) : Below(node, T) \ replaced' \subseteq Below(node', T)
  PROVE  XmlInv'
<1>1. TypeOK'
  BY DEF XmlInv, TypeOK
<1>2. RootsOf(node') = RootsOf(node) /\ \A d : RootOf(node', d) = RootOf(node, d)
  BY DEF RootsOf, RootOf
<1>3. Forest(node, Owners)'
  BY <1>2, OwnersWillBe
<1>4. RootInv'
  <2>1. \A m \in RootsOf(node) : m \in Nodes
    BY DEF RootsOf
  <2> QED
    BY <1>2, <2>1 DEF XmlInv, RootInv
<1>5. ApartInv'
  BY <1>2 DEF XmlInv, ApartInv
<1>6. DocInv'
  BY DEF XmlInv, DocInv
<1>7. ResultInv'
  <2> SUFFICES ASSUME NEW r \in Results
               PROVE  /\ result[r].d = Null => result[r].nodes = {}
                      /\ result[r].nodes \ replaced' \subseteq Below(node', RootOf(node', result[r].d) \union lost)
    BY DEF ResultInv
  <2>1. /\ result[r].d = Null => result[r].nodes = {}
        /\ result[r].nodes \ replaced \subseteq Below(node, RootOf(node, result[r].d) \union lost)
    BY DEF XmlInv, ResultInv
  <2>2. CASE result[r].d = Null
    BY <2>1, <2>2
  <2>3. CASE result[r].d # Null
    <3>1. RootOf(node, result[r].d) \union lost \in SUBSET (RootsOf(node) \union lost)
      BY <2>3 DEF RootOf, RootsOf
    <3> QED
      BY <1>2, <2>1, <3>1
  <2> QED
    BY <2>2, <2>3
<1> QED
  BY <1>1, <1>3, <1>4, <1>5, <1>6, <1>7 DEF XmlInv

(***************************************************************************)
(* The actions                                                             *)
(***************************************************************************)

\* A new reference changes no owner.
LEMMA ReferenceStep ==
  ASSUME XmlInv, UNCHANGED <<doc, node, xml, result, lost, replaced>>,
         NEW v \in NodeVars, NEW n \in Nodes, Wrap(v, n, TRUE)
  PROVE  XmlInv'
<1>1. /\ holder \in [NodeVars -> HolderStates] /\ var \in [NodeVars -> NodeVars \union {NoVar}]
      /\ HoldersOK(var, holder)
  BY DEF XmlInv, TypeOK
<1>2. /\ holder' \in [NodeVars -> HolderStates] /\ var' \in [NodeVars -> NodeVars \union {NoVar}]
      /\ HoldersOK(var', holder') /\ TopsOf(holder') = TopsOf(holder)
  BY <1>1, WrapOwns
<1>3. /\ xml' \in [Xmls -> Docs \union {Null}]
      /\ result' \in [Results -> [d : Docs \union {Null}, nodes : SUBSET Nodes]]
  BY DEF XmlInv, TypeOK
<1> QED
  BY <1>2, <1>3, QuietSteps

LEMMA ReferenceActions ==
  ASSUME XmlInv, NEW v \in NodeVars
  PROVE  /\ \A x \in Xmls : Root(x, v) => XmlInv'
         /\ \A w \in NodeVars : Child(w, v) => XmlInv'
         /\ \A r \in Results : Deref(r, v) => XmlInv'
<1>1. TypeOK
  BY DEF XmlInv
<1>2. ASSUME NEW x \in Xmls, Root(x, v) PROVE XmlInv'
  <2>1. PICK n \in RootOf(node, xml[x]) : Wrap(v, n, TRUE)
    BY <1>2 DEF Root
  <2> QED
    BY <1>2, <2>1, ReferenceStep DEF Root, RootOf
<1>3. ASSUME NEW w \in NodeVars, Child(w, v) PROVE XmlInv'
  <2>1. PICK n \in ChildrenOf(node, N(w)) \union ({node[N(w)].below} \ {Null}) : Wrap(v, n, TRUE)
    BY <1>3 DEF Child
  <2>2. N(w) \in LiveIn(node)
    BY <1>1, <1>3, UsableIs DEF Child
  <2>3. n \in Nodes
    BY <1>1, <2>2 DEF ChildrenOf, LiveIn, TypeOK, Trees, NodeStates
  <2> QED
    BY <1>3, <2>1, <2>3, ReferenceStep DEF Child
<1>4. ASSUME NEW r \in Results, Deref(r, v) PROVE XmlInv'
  <2>1. PICK n \in result[r].nodes : Wrap(v, n, TRUE)
    BY <1>4 DEF Deref
  <2>2. n \in Nodes
    BY <1>1 DEF TypeOK
  <2> QED
    BY <1>4, <2>1, <2>2, ReferenceStep DEF Deref
<1> QED
  BY <1>2, <1>3, <1>4

LEMMA ShareActions ==
  ASSUME XmlInv
  PROVE  /\ \A x, y \in Xmls : CopyXml(x, y) => XmlInv'
         /\ \A v, w \in NodeVars : ShareNode(v, w) => XmlInv'
         /\ \A x \in Xmls, r \in Results : Eval(x, r) => XmlInv'
<1>1. TypeOK /\ HoldersOK(var, holder)
  BY DEF XmlInv
<1>2. ASSUME NEW x \in Xmls, NEW y \in Xmls, CopyXml(x, y) PROVE XmlInv'
  <2>1. /\ xml' \in [Xmls -> Docs \union {Null}]
        /\ \A z \in Xmls : xml'[z] = Null \/ \E u \in Xmls : xml'[z] = xml[u]
    BY <1>1, <1>2 DEF CopyXml, TypeOK
  <2>2. UNCHANGED <<doc, node, var, holder, result, lost, replaced>>
    BY <1>2 DEF CopyXml
  <2> QED
    BY <1>1, <2>1, <2>2, QuietSteps DEF TypeOK
<1>3. ASSUME NEW v \in NodeVars, NEW w \in NodeVars, ShareNode(v, w) PROVE XmlInv'
  <2>1. UNCHANGED <<doc, node, xml, holder, result, lost, replaced>>
    BY <1>3 DEF ShareNode
  <2>2. var[v] \in NodeVars
    BY <1>1, <1>3, UsableIs DEF ShareNode
  <2>3. var' = [var EXCEPT ![w] = var[v]] /\ var[w] = NoVar
    BY <1>3 DEF ShareNode
  <2>4. var' \in [NodeVars -> NodeVars \union {NoVar}]
    BY <1>1, <2>2, <2>3 DEF TypeOK
  <2>5. \A h \in NodeVars : (\A z \in NodeVars : var'[z] # h) => \A z \in NodeVars : var[z] # h
    BY <1>1, <2>3, NoVarIsNone DEF TypeOK
  <2>6. HoldersOK(var', holder')
    BY <1>1, <2>1, <2>5 DEF HoldersOK
  <2> QED
    BY <1>1, <2>1, <2>4, <2>6, QuietSteps DEF TypeOK
<1>4. ASSUME NEW x \in Xmls, NEW r \in Results, Eval(x, r) PROVE XmlInv'
  <2>1. PICK S \in SUBSET Below(node, RootOf(node, xml[x])) :
          result' = [result EXCEPT ![r] = [d |-> xml[x], nodes |-> S]]
    BY <1>4 DEF Eval
  <2>2. xml[x] \in Docs /\ xml[x] # Null /\ S \in SUBSET Nodes
    BY <1>1, <1>4 DEF Eval, TypeOK, Below
  <2>3. UNCHANGED <<doc, node, xml, var, holder, lost, replaced>>
    BY <1>4 DEF Eval
  <2>4. [d |-> xml[x], nodes |-> S] \in [d : Docs \union {Null}, nodes : SUBSET Nodes]
    BY <2>2
  <2>5. result' \in [Results -> [d : Docs \union {Null}, nodes : SUBSET Nodes]]
    BY <1>1, <2>1, <2>4 DEF TypeOK
  <2>6. \A q \in Results :
           \/ result'[q] = result[q] \/ result'[q] = NoResult
           \/ \E y \in Xmls : /\ xml[y] # Null /\ result'[q].d = xml[y]
                              /\ result'[q].nodes \subseteq Below(node, RootOf(node, xml[y]))
    BY <1>1, <2>1, <2>2 DEF TypeOK
  <2> QED
    BY <1>1, <2>3, <2>5, <2>6, QuietSteps DEF TypeOK
<1> QED
  BY <1>2, <1>3, <1>4

\* xmlCopyNode() of a node of the program.
LEMMA NodeCopies ==
  ASSUME XmlInv, NEW n \in LiveIn(node), Copyable(node, n)
  PROVE  /\ CopyNode(node, n) \in Trees
         /\ Forest(CopyNode(node, n), Owners \union {New(node, n)})
         /\ New(node, n) \in Spare(node) /\ LiveIn(node) \subseteq LiveIn(CopyNode(node, n))
         /\ \A m \in Nodes : CopyNode(node, n)[m].in = node[m].in
         /\ \A S \in SUBSET LiveIn(node) : Below(CopyNode(node, n), S) = Below(node, S)
         /\ Below(CopyNode(node, n), {New(node, n)}) \subseteq Spare(node)
<1>1. node \in Trees /\ Forest(node, Owners) /\ RootsOf(node) \subseteq Owners
  BY OwnersAre DEF XmlInv, TypeOK
<1> QED
  BY <1>1, ForestCopies, Zenon

\* copy(): the new Node owns the copy.
LEMMA CopyAction ==
  ASSUME XmlInv, NEW v \in NodeVars, NEW w \in NodeVars, Copy(v, w)
  PROVE  XmlInv'
<1> DEFINE n == N(v)
           r == New(node, N(v))
           O == RootsOf(node) \union TopsOf(holder) \union lost
<1>1. /\ node \in Trees /\ holder \in [NodeVars -> HolderStates]
      /\ var \in [NodeVars -> NodeVars \union {NoVar}] /\ HoldersOK(var, holder)
      /\ Forest(node, O) /\ TopsOf(holder) \intersect (RootsOf(node) \union lost) = {}
  BY OwnersAre DEF XmlInv, TypeOK, ApartInv
<1>2. /\ n \in LiveIn(node) /\ Copyable(node, n) /\ node' = CopyNode(node, n) /\ Wrap(w, r, FALSE)
      /\ UNCHANGED <<doc, xml, result, lost, replaced>>
  BY UsableIs DEF Copy, XmlInv
<1> HIDE DEF n
<1>4. /\ node' \in Trees
      /\ Forest(node', O \union {New(node, n)})
      /\ New(node, n) \in Spare(node)
      /\ \A m \in Nodes : node'[m].in = node[m].in
      /\ \A S \in SUBSET LiveIn(node) : Below(node', S) = Below(node, S)
  BY <1>2, NodeCopies, OwnersAre
<1>5. r \in Spare(node) /\ r = New(node, n) /\ r \in Nodes /\ r \notin O /\ O \subseteq LiveIn(node)
  BY <1>1, <1>4 DEF Spare, Forest, LiveIn, n
<1>6. /\ holder' \in [NodeVars -> HolderStates] /\ var' \in [NodeVars -> NodeVars \union {NoVar}]
      /\ HoldersOK(var', holder')
      /\ TopsOf(holder') = TopsOf(holder) \union {r}
  BY <1>1, <1>2, <1>5, WrapOwns
<1>7. Forest(node', RootsOf(node) \union TopsOf(holder') \union lost)
  <2>1. RootsOf(node) \union TopsOf(holder') \union lost = O \union {r}
    BY <1>6
  <2> QED
    BY <1>4, <1>5, <2>1
<1>8. \A T \in SUBSET (RootsOf(node) \union lost) : Below(node, T) \subseteq Below(node', T)
  BY <1>4, <1>5
<1>9. TopsOf(holder') \intersect (RootsOf(node) \union lost) = {}
  BY <1>1, <1>5, <1>6
<1> QED
  BY <1>2, <1>4, <1>6, <1>7, <1>8, <1>9, TreeSteps

\* ~Node(): the last Node of a NodeHolder frees the tree it owns.
LEMMA DropNodeAction ==
  ASSUME XmlInv, NEW v \in NodeVars, DropNode(v)
  PROVE  XmlInv'
<1> DEFINE h == var[v]
           c == holder[h]
           O == RootsOf(node) \union TopsOf(holder) \union lost
<1>1. /\ node \in Trees /\ holder \in [NodeVars -> HolderStates]
      /\ var \in [NodeVars -> NodeVars \union {NoVar}] /\ HoldersOK(var, holder)
      /\ Forest(node, O) /\ TopsOf(holder) \intersect (RootsOf(node) \union lost) = {}
  BY OwnersAre DEF XmlInv, TypeOK, ApartInv
<1>2. h \in NodeVars /\ var' = [var EXCEPT ![v] = NoVar] /\ UNCHANGED <<doc, xml, result, lost, replaced>>
  BY <1>1 DEF DropNode
<1>3. var' \in [NodeVars -> NodeVars \union {NoVar}] /\ \A w \in NodeVars \ {v} : var'[w] = var[w]
  BY <1>1, <1>2
<1>4. CASE \E w \in NodeVars \ {v} : var[w] = h
  <2>1. UNCHANGED <<node, holder>>
    BY <1>4 DEF DropNode
  <2>2. HoldersOK(var', holder')
    <3>1. \A g \in NodeVars : (\A w \in NodeVars : var'[w] # g) => \A w \in NodeVars : var[w] # g
      BY <1>3, <1>4
    <3> QED
      BY <1>1, <2>1, <3>1 DEF HoldersOK
  <2>3. /\ xml' \in [Xmls -> Docs \union {Null}]
        /\ result' \in [Results -> [d : Docs \union {Null}, nodes : SUBSET Nodes]]
    BY <1>2 DEF XmlInv, TypeOK
  <2> QED
    BY <1>1, <1>2, <1>3, <2>1, <2>2, <2>3, QuietSteps
<1>5. CASE ~ \E w \in NodeVars \ {v} : var[w] = h
  <2> DEFINE k == [holder EXCEPT ![h] = NoHolder]
  <2>1. /\ node' = IF c.ref THEN node ELSE FreeNodes(node, {c.n})
        /\ holder' = Kept(k, node')
    BY <1>5 DEF DropNode
  <2>2. NoHolder \in HolderStates /\ NoHolder.ref
    BY DEF NoHolder, HolderStates
  <2>3. \A g \in NodeVars \ {h} : (\A w \in NodeVars : var'[w] # g) => \A w \in NodeVars : var[w] # g
    BY <1>3
  <2>4. /\ k \in [NodeVars -> HolderStates] /\ HoldersOK(var', k)
        /\ TopsOf(k) = TopsOf(holder) \ (IF c.ref THEN {} ELSE {c.n})
    <3>1. holder \in [NodeVars -> HolderStates] /\ HoldersOK(var, holder) /\ h \in NodeVars
      BY <1>1, <1>2
    <3>2. /\ k \in [NodeVars -> HolderStates] /\ k[h] = NoHolder
          /\ \A g \in NodeVars \ {h} : k[g] = holder[g]
      BY <2>2, <3>1
    <3> HIDE DEF k, h
    <3>3. /\ HoldersOK(var', k)
          /\ holder[h].ref => TopsOf(k) = TopsOf(holder)
          /\ ~holder[h].ref => TopsOf(k) = TopsOf(holder) \ {holder[h].n}
      BY <2>2, <2>3, <3>1, <3>2, GivesUp
    <3> QED
      BY <3>2, <3>3
  <2> HIDE DEF k
  <2>5. /\ holder' \in [NodeVars -> HolderStates] /\ HoldersOK(var', holder')
        /\ TopsOf(holder') = TopsOf(holder) \ (IF c.ref THEN {} ELSE {c.n})
    BY <2>1, <2>4, KeptKeeps
  <2>6. TopsOf(holder') \intersect (RootsOf(node) \union lost) = {}
    BY <1>1, <2>5
  <2>7. CASE c.ref
    <3>1. node' = node /\ TopsOf(holder') = TopsOf(holder)
      BY <2>1, <2>5, <2>7
    <3>2. /\ xml' \in [Xmls -> Docs \union {Null}]
          /\ result' \in [Results -> [d : Docs \union {Null}, nodes : SUBSET Nodes]]
      BY <1>2 DEF XmlInv, TypeOK
    <3> QED
      BY <1>2, <1>3, <2>5, <3>1, <3>2, QuietSteps
  <2>8. CASE ~c.ref
    <3>1. c.n \in TopsOf(holder) /\ c.n \in Nodes /\ c.n \notin RootsOf(node) \union lost
      BY <1>1, <1>2, <2>8 DEF TopsOf, HoldersOK
    <3>1f. Forest(node, O)
      BY <1>1
    <3>2. ASSUME NEW S \in SUBSET O, S = {c.n}
          PROVE  /\ Forest(FreeNodes(node, S), O \ S)
                 /\ \A T \in SUBSET (O \ S) : Below(FreeNodes(node, S), T) = Below(node, T)
                 /\ \A T \in SUBSET (O \ S) : \A n \in Below(node, T) : FreeNodes(node, S)[n] = node[n]
      <4> HIDE DEF O
      <4> QED
        BY <3>1f, ForestFrees
    <3>3. /\ Forest(node', O \ {c.n})
          /\ \A T \in SUBSET (O \ {c.n}) : Below(node', T) = Below(node, T)
          /\ \A T \in SUBSET (O \ {c.n}) : \A n \in Below(node, T) : node'[n] = node[n]
      <4>1. {c.n} \in SUBSET O /\ node' = FreeNodes(node, {c.n})
        BY <2>1, <2>8, <3>1
      <4> HIDE DEF O
      <4> QED
        BY <3>2, <4>1
    <3>4. RootsOf(node) \union TopsOf(holder') \union lost = O \ {c.n}
      BY <2>5, <2>8, <3>1
    <3>5. node' \in Trees
      BY <1>1, <2>1, <2>8, FreedIs DEF FreeNodes, Trees
    <3>6. ASSUME NEW m \in Nodes
          PROVE  node'[m].in = node[m].in
      <4>1. CASE m \in RootsOf(node)
        <5>1. {m} \in SUBSET (O \ {c.n}) /\ {m} \in SUBSET Nodes
          BY <3>1, <4>1
        <5>2. m \in Below(node, {m})
          BY <5>1, BelowCloses
        <5> QED
          BY <3>3, <5>1, <5>2
      <4>2. CASE m \notin RootsOf(node)
        BY <2>1, <2>8, <4>2, FreedIs DEF FreeNodes, RootsOf
      <4> QED
        BY <4>1, <4>2
    <3>7. \A T \in SUBSET (RootsOf(node) \union lost) : Below(node, T) \subseteq Below(node', T)
      BY <3>1, <3>3
    <3> QED
      BY <1>2, <1>3, <2>5, <2>6, <3>3, <3>4, <3>5, <3>6, <3>7, TreeSteps
  <2> QED
    BY <2>7, <2>8
<1> QED
  BY <1>4, <1>5

\* add_child(): what is added is no owner any more.
LEMMA AddNodeAction ==
  ASSUME XmlInv, NEW v \in NodeVars, NEW w \in NodeVars, AddNode(v, w)
  PROVE  XmlInv'
<1> DEFINE O == RootsOf(node) \union TopsOf(holder) \union lost
<1>1. /\ node \in Trees /\ holder \in [NodeVars -> HolderStates]
      /\ var \in [NodeVars -> NodeVars \union {NoVar}]
  BY DEF XmlInv, TypeOK
<1>2. HoldersOK(var, holder) /\ TopsOf(holder) \intersect (RootsOf(node) \union lost) = {}
  BY DEF XmlInv, ApartInv
<1>3. Forest(node, O)
  BY OwnersAre DEF XmlInv
<1>4. PICK p : p = N(v)
  OBVIOUS
<1>5. PICK n : n = N(w)
  OBVIOUS
<1>6. /\ p \in LiveIn(node) /\ n \in LiveIn(node) /\ var[w] \in NodeVars /\ holder[var[w]].n = n
      /\ UNCHANGED <<doc, xml, var, result, lost, replaced>>
  BY <1>4, <1>5, UsableIs DEF AddNode, XmlInv
<1>7. RootsOf(node) \subseteq O /\ O \subseteq LiveIn(node) /\ RootsOf(node) \union lost \subseteq O
  BY <1>3 DEF Forest
<1>8. CASE holder[var[w]].ref
  <2>1. PICK r : r = New(node, n)
    OBVIOUS
  <2>2. PICK t : t = CopyNode(node, n)
    OBVIOUS
  <2>3. Copyable(node, n) /\ AddChild(t, p, r) /\ UNCHANGED holder
    BY <1>4, <1>5, <1>8, <2>1, <2>2 DEF AddNode
  <2> HIDE DEF O
  <2>4. /\ t \in Trees /\ Forest(t, O \union {r})
        /\ r \in Spare(node) /\ LiveIn(node) \subseteq LiveIn(t)
        /\ \A m \in Nodes : t[m].in = node[m].in
        /\ \A S \in SUBSET LiveIn(node) : Below(t, S) = Below(node, S)
        /\ Below(t, {r}) \subseteq Spare(node)
    BY <1>6, <2>1, <2>2, <2>3, NodeCopies, OwnersAre DEF O
  <2>5. r \notin LiveIn(node) /\ p \notin Below(t, {r}) /\ p \in LiveIn(t)
    BY <1>6, <2>4 DEF Spare, LiveIn
  <2>6. RootsOf(t) = RootsOf(node) /\ r \notin RootsOf(t) /\ r \notin O
    BY <1>7, <2>4, <2>5 DEF RootsOf
  <2>7. PICK U : U = O \union {r}
    OBVIOUS
  <2>8. Forest(t, U) /\ r \in U /\ RootsOf(t) \subseteq U /\ U \ {r} = O
    BY <1>7, <2>4, <2>6, <2>7
  <2>9. /\ node' \in Trees
        /\ Forest(node', O)
        /\ \A m \in Nodes : node'[m].in = t[m].in
        /\ \A T \in SUBSET O : Below(t, T) \subseteq Below(node', T)
    BY <2>3, <2>4, <2>5, <2>6, <2>8, ForestAdds
  <2>10. \A m \in Nodes : node'[m].in = node[m].in
    BY <2>4, <2>9
  <2>11. \A T \in SUBSET (RootsOf(node) \union lost) : Below(node, T) \subseteq Below(node', T)
    BY <1>7, <2>4, <2>9
  <2>12. Forest(node', RootsOf(node) \union TopsOf(holder') \union lost)
    BY <2>3, <2>9 DEF O
  <2> QED
    BY <1>1, <1>2, <1>6, <2>3, <2>9, <2>10, <2>11, <2>12, TreeSteps
<1>9. CASE ~holder[var[w]].ref
  <2>1. PICK k : k = [holder EXCEPT ![var[w]].ref = TRUE]
    OBVIOUS
  <2>2. p \notin Below(node, {n}) /\ AddChild(node, p, n) /\ holder' = Kept(k, node')
    BY <1>4, <1>5, <1>9, <2>1 DEF AddNode
  <2>3. n \in TopsOf(holder) /\ n \in O /\ n \notin RootsOf(node) \union lost
    BY <1>2, <1>6, <1>9 DEF TopsOf
  <2>4. /\ k \in [NodeVars -> HolderStates] /\ k[var[w]].ref
        /\ \A g \in NodeVars \ {var[w]} : k[g] = holder[g]
    BY <1>1, <1>6, <2>1 DEF HolderStates
  <2>5. HoldersOK(var', k) /\ TopsOf(k) = TopsOf(holder) \ {n}
    BY <1>2, <1>6, <1>9, <2>4, GivesUp
  <2>6. /\ holder' \in [NodeVars -> HolderStates] /\ HoldersOK(var', holder')
        /\ TopsOf(holder') = TopsOf(holder) \ {n}
    BY <2>2, <2>4, <2>5, KeptKeeps
  <2>7. RootsOf(node) \union TopsOf(holder') \union lost = O \ {n}
    BY <2>3, <2>6
  <2>8. RootsOf(node) \union lost \subseteq O \ {n}
    BY <1>7, <2>3
  <2> HIDE DEF O
  <2>9. /\ node' \in Trees
        /\ Forest(node', O \ {n})
        /\ \A m \in Nodes : node'[m].in = node[m].in
        /\ \A T \in SUBSET (O \ {n}) : Below(node, T) \subseteq Below(node', T)
    <3>1. /\ node \in Trees /\ Forest(node, O) /\ n \in O /\ p \in LiveIn(node)
          /\ p \notin Below(node, {n}) /\ RootsOf(node) \subseteq O /\ n \notin RootsOf(node)
          /\ AddChild(node, p, n)
      BY <1>1, <1>3, <1>6, <1>7, <2>2, <2>3
    <3> QED
      BY <3>1, ForestAdds
  <2>10. TopsOf(holder') \intersect (RootsOf(node) \union lost) = {}
    BY <1>2, <2>6
  <2>11. \A T \in SUBSET (RootsOf(node) \union lost) : Below(node, T) \subseteq Below(node', T)
    BY <2>8, <2>9
  <2> QED
    BY <1>1, <1>6, <2>6, <2>7, <2>9, <2>10, <2>11, TreeSteps
<1> QED
  BY <1>8, <1>9

\* set_text(): the children go, and a new text may come.
LEMMA SetTextAction ==
  ASSUME XmlInv, NEW v \in NodeVars, SetText(v)
  PROVE  XmlInv'
<1> DEFINE O == RootsOf(node) \union TopsOf(holder) \union lost
<1>1. /\ node \in Trees /\ holder \in [NodeVars -> HolderStates]
      /\ var \in [NodeVars -> NodeVars \union {NoVar}] /\ HoldersOK(var, holder)
      /\ Forest(node, O) /\ TopsOf(holder) \intersect (RootsOf(node) \union lost) = {}
  BY OwnersAre DEF XmlInv, TypeOK, ApartInv
<1>2. PICK n : n = N(v)
  OBVIOUS
<1>3. PICK C : C = ChildrenOf(node, n)
  OBVIOUS
<1>4. PICK u : u = FreeNodes(node, C)
  OBVIOUS
<1>5. PICK x : x = CHOOSE m \in Nodes : m \in Spare(node)
  OBVIOUS
<1>6. /\ n \in LiveIn(node)
      /\ \/ node' = u
         \/ Spare(node) # {} /\ node' = [u EXCEPT ![x] = NewNode(Null, n, TRUE)]
      /\ holder' = Kept(holder, node') /\ replaced' = replaced \union Below(node, C)
      /\ UNCHANGED <<doc, xml, var, result, lost>>
  BY <1>2, <1>3, <1>4, <1>5, UsableIs DEF SetText, XmlInv
<1>7. O \in SUBSET LiveIn(node) /\ RootsOf(node) \subseteq O /\ RootsOf(node) \union lost \in SUBSET O
  BY <1>1 DEF Forest
<1>8. LiveIn(node) \in SUBSET Nodes
  BY DEF LiveIn
<1>9. Forest(node, RootsOf(node) \union TopsOf(holder) \union lost)
  BY <1>1
<1> HIDE DEF O
<1>10. /\ Forest(u, O) /\ n \in LiveIn(u) /\ O \intersect Below(node, C) = {}
       /\ \A T \in SUBSET Nodes : Below(node, T) \ Below(node, C) \subseteq Below(u, T)
  BY <1>3, <1>4, <1>6, <1>9, ForestCuts DEF O
<1>11. /\ \A m \in Nodes : \/ m \in Below(node, C) /\ u[m] = Freed
                           \/ m \notin Below(node, C) /\ u[m] = node[m]
       /\ u \in Trees
  BY <1>1, <1>4, FreedIs DEF FreeNodes, Trees
<1>12. \A m \in Nodes : u[m].in = node[m].in
  <2>1. \A m \in Below(node, C) : m \in Nodes => node[m].in = Null
    BY <1>7, <1>10 DEF RootsOf
  <2> QED
    BY <1>11, <2>1, FreedIs
<1>13. /\ holder' \in [NodeVars -> HolderStates] /\ HoldersOK(var', holder')
       /\ TopsOf(holder') = TopsOf(holder)
  BY <1>1, <1>6, KeptKeeps
<1>14. /\ node' \in Trees /\ \A m \in Nodes : node'[m].in = node[m].in
       /\ Forest(node', O) /\ \A T \in SUBSET Nodes : Below(u, T) \subseteq Below(node', T)
  <2>1. CASE node' = u
    BY <1>10, <1>11, <1>12, <2>1
  <2>2. CASE Spare(node) # {} /\ node' = [u EXCEPT ![x] = NewNode(Null, n, TRUE)]
    <3>1. x \in Nodes /\ x \in Spare(node)
      BY <1>5, <2>2 DEF Spare
    <3>2. x \notin LiveIn(node) /\ x \notin Below(node, C)
      <4>1. x \notin LiveIn(node)
        BY <3>1 DEF Spare, LiveIn
      <4>2. C \in SUBSET LiveIn(node)
        BY <1>1, <1>3, <1>6, <1>8, NullIsNone DEF Forest, ChildrenOf
      <4>3. Below(node, C) \subseteq LiveIn(node)
        BY <1>1, <4>2, ForestLives
      <4> QED
        BY <4>1, <4>3
    <3>3. x \in Spare(u) /\ node[x].in = Null
      BY <1>7, <1>11, <3>1, <3>2 DEF Spare, RootsOf
    <3>4. NewNode(Null, n, TRUE) \in NodeStates
      BY <1>6 DEF NewNode, NodeStates, States, LiveIn
    <3>5. /\ NewNode(Null, n, TRUE).s = "live" /\ NewNode(Null, n, TRUE).below = n
          /\ NewNode(Null, n, TRUE).in = Null
      BY DEF NewNode
    <3>6. /\ node' \in Trees /\ node'[x] = NewNode(Null, n, TRUE)
          /\ \A m \in Nodes \ {x} : node'[m] = u[m]
      BY <1>11, <2>2, <3>1, <3>4 DEF Trees
    <3>7. Forest(node', O) /\ \A T \in SUBSET Nodes : Below(u, T) \subseteq Below(node', T)
      <4>1. /\ Forest(u, O) /\ n \in LiveIn(u) /\ x \in Spare(u)
            /\ node'[x].s = "live" /\ node'[x].below = n
            /\ \A m \in Nodes \ {x} : node'[m] = u[m]
        BY <1>10, <3>3, <3>5, <3>6
      <4> QED
        BY <4>1, ForestGrows
    <3>8. \A m \in Nodes : node'[m].in = node[m].in
      BY <1>12, <3>3, <3>5, <3>6
    <3> QED
      BY <3>6, <3>7, <3>8
  <2> QED
    BY <1>6, <2>1, <2>2
<1>15. \A T \in SUBSET (RootsOf(node) \union lost) : Below(node, T) \ replaced' \subseteq Below(node', T)
  BY <1>6, <1>7, <1>8, <1>10, <1>14
<1>16. Forest(node', RootsOf(node) \union TopsOf(holder') \union lost)
  BY <1>13, <1>14 DEF O
<1>17. replaced \subseteq replaced' /\ var' \in [NodeVars -> NodeVars \union {NoVar}]
       /\ TopsOf(holder') \intersect (RootsOf(node) \union lost) = {}
  BY <1>1, <1>6, <1>13
<1> QED
  BY <1>6, <1>13, <1>14, <1>15, <1>16, <1>17, TreeSteps

\* What becomes of a document and its tree when an Xml or a result lets go.
LEMMA ReleaseSteps ==
  ASSUME XmlInv, NEW d \in Docs, Release(d, xml', result'), UNCHANGED <<var, lost, replaced>>,
         xml' \in [Xmls -> Docs \union {Null}],
         \A x \in Xmls : xml'[x] = Null \/ xml'[x] = xml[x],
         result' \in [Results -> [d : Docs \union {Null}, nodes : SUBSET Nodes]],
         \A r \in Results : result'[r] = result[r] \/ result'[r] = NoResult
  PROVE  XmlInv'
<1> DEFINE O == RootsOf(node) \union TopsOf(holder) \union lost
           S == RootOf(node, d)
<1>1. /\ node \in Trees /\ holder \in [NodeVars -> HolderStates] /\ doc \in [Docs -> States]
      /\ var \in [NodeVars -> NodeVars \union {NoVar}] /\ lost \in SUBSET Nodes
  BY DEF XmlInv, TypeOK
<1>2. HoldersOK(var, holder) /\ ApartInv
  BY DEF XmlInv
<1>3. Forest(node, O)
  BY OwnersAre DEF XmlInv
<1>4. CASE UNCHANGED <<doc, node, holder>>
  <2>1. \A r \in Results :
           \/ result'[r] = result[r] \/ result'[r] = NoResult
           \/ \E x \in Xmls : /\ xml[x] # Null /\ result'[r].d = xml[x]
                              /\ result'[r].nodes \subseteq Below(node, RootOf(node, xml[x]))
    OBVIOUS
  <2>2. \A x \in Xmls : xml'[x] = Null \/ \E y \in Xmls : xml'[x] = xml[y]
    OBVIOUS
  <2> QED
    BY <1>1, <1>2, <1>4, <2>1, <2>2, QuietSteps
<1>5. CASE /\ \A y \in Xmls : xml'[y] # d
           /\ \A r \in Results : result'[r].d # d
           /\ doc' = [doc EXCEPT ![d] = "freed"]
           /\ node' = FreeNodes(node, RootOf(node, d))
           /\ holder' = Kept(holder, node')
  <2>1. /\ holder' \in [NodeVars -> HolderStates] /\ HoldersOK(var', holder')
        /\ TopsOf(holder') = TopsOf(holder)
    BY <1>1, <1>2, <1>5, KeptKeeps
  <2>2. d # Null /\ Null \notin Docs
    BY NullIsNone
  <2>3. S \in SUBSET O /\ S \subseteq RootsOf(node) /\ S \in SUBSET Nodes
    BY <2>2 DEF RootOf, RootsOf
  <2>4. S \intersect (TopsOf(holder) \union lost) = {}
    BY <1>2, <2>3 DEF ApartInv
  <2>5. O \ S = (RootsOf(node) \ S) \union TopsOf(holder) \union lost
    BY <2>4
  <2>6. node' = FreeNodes(node, S)
    BY <1>5
  <2>7. RootsOf(node) \subseteq O
    OBVIOUS
  <2> HIDE DEF O, S
  <2>8. /\ Forest(node', O \ S)
        /\ \A T \in SUBSET (O \ S) : Below(node', T) = Below(node, T)
        /\ \A T \in SUBSET (O \ S) : \A n \in Below(node, T) : node'[n] = node[n]
    BY <1>3, <2>3, <2>6, ForestFrees
  <2>9. node' \in Trees
    BY <1>1, <2>6, FreedIs DEF FreeNodes, Trees
  <2>10. S \subseteq Below(node, S)
    BY <2>3, BelowCloses
  <2>11. \A m \in S : node'[m].in = Null
    BY <2>3, <2>6, <2>10, FreedIs DEF FreeNodes
  <2>12. ASSUME NEW m \in RootsOf(node) \ S
         PROVE  node'[m] = node[m]
    <3>1. {m} \in SUBSET (O \ S) /\ {m} \in SUBSET Nodes
      BY <2>7 DEF RootsOf
    <3>2. m \in Below(node, {m})
      BY <3>1, BelowCloses
    <3> QED
      BY <2>8, <3>1, <3>2
  <2>13. \A m \in Nodes \ RootsOf(node) : node'[m].in = Null
    BY <2>6, FreedIs DEF FreeNodes, RootsOf
  <2>14. RootsOf(node') = RootsOf(node) \ S
    BY <2>3, <2>11, <2>12, <2>13 DEF RootsOf
  <2>15. Forest(node, Owners)'
    BY <2>1, <2>5, <2>8, <2>14, OwnersWillBe
  <2>16. TypeOK'
    BY <1>1, <1>5, <2>1, <2>9 DEF TypeOK, States
  <2>17. \A m \in RootsOf(node') : /\ m \in RootsOf(node) /\ node'[m].in = node[m].in 
                                   /\ node[m].in \in Docs /\ node[m].in # d
    BY <1>1, <2>12, <2>14 DEF RootsOf, RootOf, S, Trees, NodeStates
  <2>18. RootInv'
    <3>1. \A m \in RootsOf(node') : doc'[node'[m].in] = doc[node[m].in]
      BY <1>1, <1>5, <2>17
    <3> QED
      BY <2>17, <3>1 DEF RootInv, XmlInv
  <2>19. ApartInv'
    BY <1>2, <2>1, <2>14 DEF ApartInv
  <2>20. NoResult.d = Null /\ NoResult.nodes = {}
    BY DEF NoResult
  <2>21. DocInv'
    <3>1. \A e \in Docs \ {d} : doc'[e] = doc[e]
      BY <1>1, <1>5
    <3>2. ASSUME NEW x \in Xmls, xml'[x] # Null
          PROVE  doc'[xml'[x]] = "live"
      BY <1>5, <3>1, <3>2 DEF XmlInv, DocInv
    <3>3. ASSUME NEW r \in Results, result'[r].d # Null
          PROVE  doc'[result'[r].d] = "live"
      BY <1>5, <2>20, <3>1, <3>3 DEF XmlInv, DocInv
    <3> QED
      BY <3>2, <3>3 DEF DocInv
  <2>22. ResultInv'
    <3> SUFFICES ASSUME NEW r \in Results
                 PROVE  /\ result'[r].d = Null => result'[r].nodes = {}
                        /\ result'[r].nodes \ replaced \subseteq Below(node', RootOf(node', result'[r].d) \union lost)
      BY DEF ResultInv
    <3>1. CASE result'[r] = NoResult
      BY <2>20, <3>1
    <3>2. CASE result'[r] = result[r]
      <4>1. /\ result[r].d = Null => result[r].nodes = {}
            /\ result[r].nodes \ replaced \subseteq Below(node, RootOf(node, result[r].d) \union lost)
        BY DEF XmlInv, ResultInv
      <4>2. CASE result[r].d = Null
        BY <3>2, <4>1, <4>2
      <4>3. CASE result[r].d # Null
        <5>1. result[r].d # d
          BY <1>5, <3>2
        <5>2. RootOf(node, result[r].d) \subseteq RootsOf(node) \ S
          BY <4>3, <5>1 DEF RootOf, RootsOf, S
        <5>3. RootOf(node, result[r].d) \union lost \subseteq O \ S
          BY <2>5, <5>2
        <5>4. RootOf(node, result[r].d) \subseteq RootOf(node', result[r].d)
          BY <2>12, <5>2 DEF RootOf
        <5>5. RootOf(node', result[r].d) \union lost \in SUBSET Nodes
          BY <1>1 DEF RootOf
        <5>6. Below(node, RootOf(node, result[r].d) \union lost) = Below(node', RootOf(node, result[r].d) \union lost)
          BY <2>8, <5>3
        <5>7. Below(node', RootOf(node, result[r].d) \union lost) \subseteq Below(node', RootOf(node', result[r].d) \union lost)
          <6>1. RootOf(node, result[r].d) \union lost \subseteq RootOf(node', result[r].d) \union lost
            BY <5>4
          <6>2. RootOf(node, result[r].d) \union lost \in SUBSET Nodes
            BY <5>5, <6>1
          <6> QED
            BY <5>5, <6>1, <6>2, BelowGrows
        <5> QED
          BY <3>2, <4>1, <4>3, <5>6, <5>7
      <4> QED
        BY <4>2, <4>3
    <3> QED
      BY <3>1, <3>2
  <2> QED
    BY <2>1, <2>15, <2>16, <2>18, <2>19, <2>21, <2>22 DEF XmlInv
<1> QED
  BY <1>4, <1>5 DEF Release

LEMMA DropActions ==
  ASSUME XmlInv
  PROVE  /\ \A x \in Xmls : DropXml(x) => XmlInv'
         /\ \A r \in Results : DropResult(r) => XmlInv'
<1>1. TypeOK /\ ResultInv
  BY DEF XmlInv
<1>2. ASSUME NEW x \in Xmls, DropXml(x) PROVE XmlInv'
  <2>1. /\ xml[x] \in Docs /\ xml' = [xml EXCEPT ![x] = Null] /\ Release(xml[x], xml', result)
        /\ UNCHANGED <<var, result, lost, replaced>>
    BY <1>1, <1>2 DEF DropXml, TypeOK
  <2>2. Release(xml[x], xml', result')
    BY <2>1
  <2>3. xml' \in [Xmls -> Docs \union {Null}] /\ \A y \in Xmls : xml'[y] = Null \/ xml'[y] = xml[y]
    BY <1>1, <2>1 DEF TypeOK
  <2> QED
    BY <1>1, <2>1, <2>2, <2>3, ReleaseSteps DEF TypeOK
<1>3. ASSUME NEW r \in Results, DropResult(r) PROVE XmlInv'
  <2>1. /\ result[r] # NoResult /\ result' = [result EXCEPT ![r] = NoResult]
        /\ Release(result[r].d, xml, result') /\ UNCHANGED <<xml, var, lost, replaced>>
    BY <1>3 DEF DropResult
  <2>2. result[r].d \in Docs
    <3>1. result[r].d = Null => result[r] = [d |-> Null, nodes |-> {}]
      BY <1>1 DEF TypeOK, ResultInv
    <3> QED
      BY <1>1, <2>1, <3>1 DEF NoResult, TypeOK
  <2>3. Release(result[r].d, xml', result')
    BY <2>1
  <2>4. NoResult \in [d : Docs \union {Null}, nodes : SUBSET Nodes]
    BY DEF NoResult
  <2>5. /\ result' \in [Results -> [d : Docs \union {Null}, nodes : SUBSET Nodes]]
        /\ \A q \in Results : result'[q] = result[q] \/ result'[q] = NoResult
    BY <1>1, <2>1, <2>4 DEF TypeOK
  <2> QED
    BY <1>1, <2>1, <2>2, <2>3, <2>5, ReleaseSteps DEF TypeOK
<1> QED
  BY <1>2, <1>3

\* Parsing makes a document, its root, and perhaps a text below it.
LEMMA ParseAction ==
  ASSUME XmlInv, NEW x \in Xmls, Parse(x)
  PROVE  XmlInv'
<1> DEFINE O == RootsOf(node) \union TopsOf(holder) \union lost
<1>1. /\ node \in Trees /\ holder \in [NodeVars -> HolderStates] /\ doc \in [Docs -> States]
      /\ xml \in [Xmls -> Docs \union {Null}] /\ lost \in SUBSET Nodes
  BY DEF XmlInv, TypeOK
<1>2. Forest(node, O)
  BY OwnersAre DEF XmlInv
<1>3. PICK d : d = CHOOSE e \in Docs : doc[e] = "fresh"
  OBVIOUS
<1>4. PICK top : top = CHOOSE n \in Nodes : n \in Spare(node)
  OBVIOUS
<1>5. PICK txt : txt = CHOOSE n \in Nodes : n \in Spare(node) \ {top}
  OBVIOUS
<1>6. PICK one : one = [node EXCEPT ![top] = NewNode(d, Null, FALSE)]
  OBVIOUS
<1>7. /\ \E e \in Docs : doc[e] = "fresh"
      /\ Spare(node) # {} /\ Spare(node) \subseteq Nodes
      /\ doc' = [doc EXCEPT ![d] = "live"] /\ xml' = [xml EXCEPT ![x] = d]
      /\ \/ node' = one
         \/ /\ Spare(node) \ {top} # {}
            /\ node' = [one EXCEPT ![txt] = NewNode(Null, top, TRUE)]
      /\ UNCHANGED <<var, holder, result, lost, replaced>>
  BY <1>3, <1>4, <1>5, <1>6 DEF Parse, Spare
<1>8. d \in Docs /\ doc[d] = "fresh" /\ d # Null
  BY <1>3, <1>7, NullIsNone
<1>9. top \in Nodes /\ top \in Spare(node)
  BY <1>4, <1>7
<1>10. /\ NewNode(d, Null, FALSE) \in NodeStates
       /\ NewNode(d, Null, FALSE).s = "live" /\ NewNode(d, Null, FALSE).below = Null
       /\ NewNode(d, Null, FALSE).in = d
  BY <1>8 DEF NewNode, NodeStates, States
<1>11. top \notin LiveIn(node) /\ top \notin O /\ O \subseteq LiveIn(node) /\ O \in SUBSET Nodes
  BY <1>2, <1>9 DEF Spare, LiveIn, Forest
<1>12. one \in Trees /\ one[top].in = d /\ one[top].s = "live" /\ \A m \in Nodes \ {top} : one[m] = node[m]
  BY <1>1, <1>6, <1>9, <1>10 DEF Trees
<1>13. PICK U : U = O \union {top}
  OBVIOUS
<1>14. Forest(one, U) /\ \A S \in SUBSET Nodes : Below(one, S) = Below(node, S)
  <2>1. one[top].s = "live" /\ one[top].below = Null /\ \A m \in Nodes \ {top} : one[m] = node[m]
    BY <1>1, <1>6, <1>9, <1>10 DEF Trees
  <2>2. PICK P : P = O
    OBVIOUS
  <2> HIDE DEF O
  <2>3. Forest(node, P) /\ top \in Spare(node)
    BY <1>2, <1>9, <2>2
  <2>4. /\ Forest(one, P \union {top})
        /\ \A S \in SUBSET Nodes : Below(one, S) = Below(node, S)
        /\ Below(node, {top}) = {top}
    BY <2>1, <2>3, ForestPlants
  <2> QED
    BY <1>13, <2>2, <2>4
<1>15. /\ node' \in Trees /\ Forest(node', U)
       /\ \A m \in Nodes : node'[m].in = one[m].in
       /\ \A S \in SUBSET Nodes : Below(node, S) \subseteq Below(node', S)
  <2>1. CASE node' = one
    BY <1>12, <1>14, <2>1
  <2>2. CASE /\ Spare(node) \ {top} # {}
             /\ node' = [one EXCEPT ![txt] = NewNode(Null, top, TRUE)]
    <3>1. txt \in Nodes /\ txt \in Spare(node) /\ txt # top
      BY <1>5, <1>7, <2>2
    <3>2. PICK two : two = [one EXCEPT ![txt] = NewNode(Null, Null, TRUE)]
      OBVIOUS
    <3>3. /\ two[txt].s = "live" /\ two[txt].below = Null
          /\ \A m \in Nodes \ {txt} : two[m] = one[m]
      BY <1>12, <3>1, <3>2 DEF Trees, NewNode
    <3>4. txt \in Spare(one) /\ one[txt] = node[txt]
      BY <1>12, <3>1 DEF Spare
    <3>5. /\ Forest(two, U \union {txt})
          /\ \A S \in SUBSET Nodes : Below(two, S) = Below(one, S)
          /\ Below(one, {txt}) = {txt}
      BY <1>14, <3>3, <3>4, ForestPlants
    <3>6. top \in LiveIn(two) /\ top \notin Below(two, {txt})
      <4>1. {txt} \in SUBSET Nodes
        BY <3>1
      <4> QED
        BY <1>9, <1>12, <3>1, <3>3, <3>5, <4>1 DEF LiveIn
    <3>7. PICK V : V = U \union {txt}
      OBVIOUS
    <3>8. Forest(two, V) /\ txt \in V
      BY <3>5, <3>7
    <3>9. /\ node'[txt].below = top /\ node'[txt].s = two[txt].s
          /\ \A m \in Nodes \ {txt} : node'[m] = two[m]
      BY <1>12, <2>2, <3>1, <3>3 DEF Trees, NewNode
    <3>10. /\ Forest(node', V \ {txt})
           /\ \A S \in SUBSET Nodes : Below(two, S) \subseteq Below(node', S)
      BY <3>6, <3>8, <3>9, ForestHangs
    <3>11. txt \notin U
      BY <1>11, <1>13, <3>1 DEF Spare, LiveIn
    <3>12. V \ {txt} = U
      BY <3>7, <3>11
    <3>13. NewNode(Null, top, TRUE) \in NodeStates /\ NewNode(Null, top, TRUE).in = Null
      BY <1>9 DEF NewNode, NodeStates, States
    <3>14. one[txt].in = Null
      <4>1. txt \notin RootsOf(node)
        BY <1>11, <3>1 DEF Spare, LiveIn
      <4> QED
        BY <3>1, <3>4, <4>1 DEF RootsOf
    <3>15. node' \in Trees /\ \A m \in Nodes : node'[m].in = one[m].in
      BY <1>12, <2>2, <3>1, <3>13, <3>14 DEF Trees
    <3>16. Forest(node', U)
      BY <3>10, <3>12
    <3>17. \A S \in SUBSET Nodes : Below(node, S) \subseteq Below(node', S)
      BY <1>14, <3>5, <3>10
    <3> QED
      BY <3>15, <3>16, <3>17
  <2> QED
    BY <1>7, <2>1, <2>2
<1>16. RootsOf(node') = RootsOf(node) \union {top}
  BY <1>8, <1>9, <1>12, <1>15 DEF RootsOf
<1>17. TypeOK'
  BY <1>1, <1>7, <1>8, <1>15 DEF XmlInv, TypeOK, States
<1>18. Forest(node, Owners)'
  <2>1. RootsOf(node') \union TopsOf(holder') \union lost' = U
    BY <1>7, <1>13, <1>16
  <2> QED
    BY <1>15, <2>1, OwnersWillBe
<1>19. HoldersOK(var, holder)'
  BY <1>7 DEF XmlInv
<1>20. \A m \in RootsOf(node) : /\ m # top /\ node'[m].in = node[m].in
                                /\ node[m].in \in Docs /\ node[m].in # d
  <2>1. \A m \in RootsOf(node) : doc[node[m].in] = "live"
    BY DEF XmlInv, RootInv
  <2> QED
    BY <1>1, <1>8, <1>11, <1>12, <1>15, <2>1 DEF RootsOf, Trees, NodeStates
<1>21. node'[top].in = d
  BY <1>9, <1>12, <1>15
<1>22. doc'[d] = "live" /\ \A e \in Docs \ {d} : doc'[e] = doc[e]
  BY <1>1, <1>7, <1>8
<1>23. RootInv'
  BY <1>16, <1>20, <1>21, <1>22 DEF XmlInv, RootInv
<1>24. ApartInv'
  BY <1>7, <1>11, <1>16 DEF XmlInv, ApartInv
<1>25. DocInv'
  <2>1. ASSUME NEW y \in Xmls, xml'[y] # Null
        PROVE  doc'[xml'[y]] = "live"
    BY <1>1, <1>7, <1>22, <2>1 DEF XmlInv, DocInv
  <2>2. ASSUME NEW r \in Results, result'[r].d # Null
        PROVE  doc'[result'[r].d] = "live"
    <3>1. result'[r].d = result[r].d /\ result[r].d \in Docs
      BY <1>7, <2>2 DEF XmlInv, TypeOK
    <3> QED
      BY <1>22, <2>2, <3>1 DEF XmlInv, DocInv
  <2> QED
    BY <2>1, <2>2 DEF DocInv
<1>26. ResultInv'
  <2> SUFFICES ASSUME NEW r \in Results
               PROVE  /\ result[r].d = Null => result[r].nodes = {}
                      /\ result[r].nodes \ replaced' \subseteq Below(node', RootOf(node', result[r].d) \union lost)
    BY <1>7 DEF ResultInv
  <2>1. /\ result[r].d = Null => result[r].nodes = {}
        /\ result[r].nodes \ replaced \subseteq Below(node, RootOf(node, result[r].d) \union lost)
    BY DEF XmlInv, ResultInv
  <2>2. CASE result[r].d = Null
    BY <2>1, <2>2
  <2>3. CASE result[r].d # Null
    <3>1. RootOf(node, result[r].d) \subseteq RootOf(node', result[r].d)
      BY <1>20, <2>3 DEF RootOf, RootsOf
    <3>2. /\ RootOf(node, result[r].d) \union lost \subseteq RootOf(node', result[r].d) \union lost
          /\ RootOf(node, result[r].d) \union lost \in SUBSET Nodes
          /\ RootOf(node', result[r].d) \union lost \in SUBSET Nodes
      BY <1>1, <3>1 DEF RootOf
    <3>3. Below(node', RootOf(node, result[r].d) \union lost) \subseteq Below(node', RootOf(node', result[r].d) \union lost)
      BY <3>2, BelowGrows
    <3> QED
      BY <1>7, <1>15, <2>1, <2>3, <3>2, <3>3
  <2> QED
    BY <2>2, <2>3
<1> QED
  BY <1>17, <1>18, <1>19, <1>23, <1>24, <1>25, <1>26 DEF XmlInv

\* set_root() of a reference: a copy takes the place of the old tree.
LEMMA SetRootCopies ==
  ASSUME XmlInv, NEW x \in Xmls, NEW v \in NodeVars, SetRoot(x, v), holder[var[v]].ref
  PROVE  XmlInv'
<1> DEFINE O == RootsOf(node) \union TopsOf(holder) \union lost
<1>1. /\ node \in Trees /\ holder \in [NodeVars -> HolderStates] /\ lost \in SUBSET Nodes
      /\ xml \in [Xmls -> Docs \union {Null}]
      /\ result \in [Results -> [d : Docs \union {Null}, nodes : SUBSET Nodes]]
  BY DEF XmlInv, TypeOK
<1>2. HoldersOK(var, holder) /\ ApartInv /\ RootInv
  BY DEF XmlInv
<1>3. Forest(node, O) /\ RootsOf(node) \subseteq O
  BY OwnersAre DEF XmlInv
<1>4. PICK n : n = N(v)
  OBVIOUS
<1>5. PICK d : d = xml[x]
  OBVIOUS
<1>6. PICK r : r = New(node, n)
  OBVIOUS
<1>7. PICK t : t = CopyNode(node, n)
  OBVIOUS
<1>8. PICK old : old = RootOf(node, d)
  OBVIOUS
<1>9. PICK u : u = FreeNodes(t, old)
  OBVIOUS
<1>10. /\ n \in LiveIn(node) /\ Copyable(node, n) /\ d \in Docs /\ d # Null
       /\ node' = [u EXCEPT ![r].in = d] /\ holder' = Kept(holder, node')
       /\ UNCHANGED <<doc, xml, var, result, lost>>
       /\ replaced' = replaced \union Below(node, old)
  BY <1>1, <1>4, <1>5, <1>6, <1>7, <1>8, <1>9, UsableIs DEF SetRoot, XmlInv
<1>11. /\ old \subseteq RootsOf(node) /\ old \in SUBSET Nodes /\ old \subseteq O
       /\ \A m \in RootsOf(node) : m \in old <=> node[m].in = d
  BY <1>3, <1>8, <1>10 DEF RootOf, RootsOf
<1>12. /\ O \in SUBSET Nodes /\ O \subseteq LiveIn(node)
       /\ RootsOf(node) \union lost \subseteq O
       /\ O \ old = (RootsOf(node) \ old) \union TopsOf(holder) \union lost
  <2>1. O \subseteq LiveIn(node) /\ LiveIn(node) \subseteq Nodes
    BY <1>3 DEF Forest, LiveIn
  <2>2. old \intersect (TopsOf(holder) \union lost) = {}
    BY <1>2, <1>11 DEF ApartInv
  <2> QED
    BY <2>1, <2>2
<1>13. /\ TopsOf(holder) \subseteq O /\ lost \subseteq O
  OBVIOUS
<1> HIDE DEF O
<1>14. /\ t \in Trees /\ Forest(t, O \union {r}) /\ r \in Spare(node)
       /\ \A m \in Nodes : t[m].in = node[m].in
       /\ \A T \in SUBSET LiveIn(node) : Below(t, T) = Below(node, T)
  BY <1>6, <1>7, <1>10, NodeCopies, OwnersAre DEF O
<1>15. r \in Nodes /\ r \notin LiveIn(node) /\ r \notin O /\ r \notin old
  BY <1>11, <1>12, <1>14 DEF Spare, LiveIn
<1>16. PICK U : U = O \union {r}
  OBVIOUS
<1>17. old \in SUBSET U /\ Forest(t, U) /\ U \in SUBSET Nodes
  BY <1>11, <1>12, <1>14, <1>15, <1>16
<1>18. /\ Forest(u, U \ old)
       /\ \A T \in SUBSET (U \ old) : Below(u, T) = Below(t, T)
       /\ \A T \in SUBSET (U \ old) : \A m \in Below(t, T) : u[m] = t[m]
  BY <1>9, <1>17, ForestFrees
<1>19. u \in Trees /\ old \subseteq Below(t, old) /\ \A m \in Below(t, old) : m \in Nodes => u[m] = Freed
  BY <1>9, <1>11, <1>14, FreedIs, BelowCloses DEF FreeNodes, Trees
<1>20. ASSUME NEW m \in U \ old
       PROVE  u[m] = t[m]
  <2>1. {m} \in SUBSET (U \ old) /\ {m} \in SUBSET Nodes
    BY <1>17
  <2>2. m \in Below(t, {m})
    BY <2>1, BelowCloses
  <2> QED
    BY <1>18, <2>1, <2>2
<1>21. /\ node' \in Trees /\ node'[r].in = d
       /\ \A m \in Nodes : node'[m].s = u[m].s /\ node'[m].below = u[m].below
       /\ \A m \in Nodes \ {r} : node'[m].in = u[m].in
  BY <1>10, <1>15, <1>19 DEF Trees, NodeStates
<1>22. /\ Forest(node', U \ old)
       /\ \A T \in SUBSET Nodes : Below(node', T) = Below(u, T)
  BY <1>18, <1>21, ForestSame
<1>23. \A m \in RootsOf(node) \ old : m # r /\ node'[m].in = node[m].in
  BY <1>3, <1>14, <1>15, <1>16, <1>20, <1>21 DEF RootsOf
<1>24. \A m \in Nodes \ {r} : m \in old \/ m \notin RootsOf(node) => node'[m].in = Null
  <2>1. \A m \in Nodes : u[m] = Freed \/ u[m] = t[m]
    BY <1>9 DEF FreeNodes
  <2> QED
    BY <1>11, <1>14, <1>19, <1>21, <2>1, FreedIs DEF RootsOf
<1>25. RootsOf(node') = (RootsOf(node) \ old) \union {r}
  BY <1>10, <1>15, <1>21, <1>23, <1>24 DEF RootsOf
<1>26. /\ holder' \in [NodeVars -> HolderStates] /\ HoldersOK(var', holder')
       /\ TopsOf(holder') = TopsOf(holder)
  BY <1>1, <1>2, <1>10, KeptKeeps
<1>27. TypeOK'
  BY <1>1, <1>10, <1>21, <1>26 DEF XmlInv, TypeOK
<1>28. Forest(node, Owners)'
  <2>1. RootsOf(node') \union TopsOf(holder') \union lost' = U \ old
    BY <1>10, <1>12, <1>15, <1>16, <1>25, <1>26
  <2> QED
    BY <1>22, <2>1, OwnersWillBe
<1>29. RootInv'
  <2>1. doc'[d] = "live" /\ doc' = doc
    BY <1>5, <1>10 DEF XmlInv, DocInv
  <2>2. \A m \in RootsOf(node) \ old : node[m].in # d
    BY <1>11
  <2> QED
    BY <1>2, <1>21, <1>23, <1>25, <2>1, <2>2 DEF RootInv
<1>30. ApartInv'
  BY <1>2, <1>10, <1>13, <1>15, <1>25, <1>26 DEF ApartInv
<1>31. Below(t, old) = Below(node, old)
  BY <1>11, <1>12, <1>14
<1>32. DocInv'
  BY <1>10 DEF XmlInv, DocInv
<1>33. ResultInv'
  <2> SUFFICES ASSUME NEW q \in Results
               PROVE  /\ result[q].d = Null => result[q].nodes = {}
                      /\ result[q].nodes \ replaced' \subseteq Below(node', RootOf(node', result[q].d) \union lost)
    BY <1>10 DEF ResultInv
  <2>1. PICK e : e = result[q].d
    OBVIOUS
  <2>2. /\ e = Null => result[q].nodes = {}
        /\ result[q].nodes \ replaced \subseteq Below(node, RootOf(node, e) \union lost)
    BY <2>1 DEF XmlInv, ResultInv
  <2>3. CASE e = Null
    BY <2>1, <2>2, <2>3
  <2>4. CASE e # Null
    <3>1. PICK A : A = RootOf(node, e) \union lost
      OBVIOUS
    <3>2. RootOf(node, e) \subseteq RootsOf(node)
      BY <2>4 DEF RootOf, RootsOf
    <3>3. A \in SUBSET Nodes /\ A \in SUBSET LiveIn(node) /\ A \ old \in SUBSET (U \ old)
      BY <1>12, <1>16, <3>1, <3>2
    <3>4. /\ A \ old \in SUBSET Nodes /\ A \intersect old \in SUBSET Nodes /\ (A \ old) \union (A \intersect old) = A
          /\ A \intersect old \subseteq old
      BY <3>3
    <3>5. Below(t, A) = Below(t, A \ old) \union Below(t, A \intersect old)
      BY <3>4, BelowUnion
    <3>6. Below(t, A \intersect old) \subseteq Below(t, old)
      BY <1>11, <3>4, BelowGrows
    <3>7. A \ old \subseteq RootOf(node', e) \union lost
      BY <1>23, <3>1, <3>2 DEF RootOf
    <3>8. RootOf(node', e) \union lost \in SUBSET Nodes
      BY <1>1 DEF RootOf
    <3>9. Below(node', A \ old) \subseteq Below(node', RootOf(node', e) \union lost)
      BY <3>4, <3>7, <3>8, BelowGrows
    <3>10. ASSUME NEW m \in result[q].nodes \ replaced'
           PROVE  m \in Below(node', RootOf(node', e) \union lost)
      <4>1. m \in result[q].nodes \ replaced /\ m \in Nodes /\ m \notin Below(node, old)
        BY <1>1, <1>10
      <4>2. m \in Below(t, A)
        BY <1>14, <2>2, <3>1, <3>3, <4>1
      <4>3. m \notin Below(t, old)
        BY <1>31, <4>1
      <4>4. m \in Below(t, A \ old)
        BY <3>5, <3>6, <4>2, <4>3
      <4>5. Below(t, A \ old) = Below(node', A \ old)
        BY <1>18, <1>22, <3>3, <3>4
      <4> QED
        BY <3>9, <4>4, <4>5
    <3> QED
      BY <2>1, <2>4, <3>10
  <2> QED
    BY <2>3, <2>4
<1> QED
  BY <1>26, <1>27, <1>28, <1>29, <1>30, <1>32, <1>33 DEF XmlInv

\* set_root() of a node that is no reference: the node changes its owner,
\* and the old root loses its.
LEMMA SetRootTakes ==
  ASSUME XmlInv, NEW x \in Xmls, NEW v \in NodeVars, SetRoot(x, v), ~holder[var[v]].ref
  PROVE  XmlInv'
<1>1. /\ node \in Trees /\ holder \in [NodeVars -> HolderStates] /\ lost \in SUBSET Nodes
      /\ xml \in [Xmls -> Docs \union {Null}]
      /\ result \in [Results -> [d : Docs \union {Null}, nodes : SUBSET Nodes]]
  BY DEF XmlInv, TypeOK
<1>2. HoldersOK(var, holder) /\ ApartInv /\ RootInv
  BY DEF XmlInv
<1>3. Forest(node, Owners)
  BY DEF XmlInv
<1>4. PICK n : n = N(v)
  OBVIOUS
<1>5. PICK d : d = xml[x]
  OBVIOUS
<1>6. PICK S : S = RootOf(node, d)
  OBVIOUS
<1>7. PICK k : k = [holder EXCEPT ![var[v]].ref = TRUE]
  OBVIOUS
<1>8. /\ n \in LiveIn(node) /\ d \in Docs /\ d # Null
      /\ var[v] \in NodeVars /\ holder[var[v]].n = n /\ holder' = k
      /\ node' = [m \in Nodes |-> IF m = n THEN [node[m] EXCEPT !.in = d]
                                  ELSE IF node[m].in = d THEN [node[m] EXCEPT !.in = Null] ELSE node[m]]
      /\ lost' = lost \union S
      /\ UNCHANGED <<doc, xml, var, result, replaced>>
  BY <1>1, <1>4, <1>5, <1>6, <1>7, UsableIs DEF SetRoot, XmlInv
<1>9. n \in Nodes /\ n \in TopsOf(holder) /\ n \notin RootsOf(node) /\ n \notin lost
  BY <1>2, <1>8 DEF TopsOf, ApartInv, LiveIn
<1>10. /\ S \subseteq RootsOf(node) /\ S \in SUBSET Nodes
       /\ \A m \in RootsOf(node) : m \in S <=> node[m].in = d
  BY <1>6, <1>8 DEF RootOf, RootsOf
<1>11. \A m \in Nodes : /\ node'[m].s = node[m].s /\ node'[m].below = node[m].below
                        /\ node'[m].in = IF m = n THEN d ELSE IF m \in S THEN Null ELSE node[m].in
                        /\ node'[m] \in NodeStates
  BY <1>1, <1>6, <1>8 DEF RootOf, Trees, NodeStates
<1>12. node' \in Trees
  BY <1>8, <1>11 DEF Trees
<1>13. /\ Forest(node', Owners)
       /\ \A T \in SUBSET Nodes : Below(node', T) = Below(node, T)
  BY <1>3, <1>11, ForestSame
<1>14. RootsOf(node') = (RootsOf(node) \ S) \union {n}
  BY <1>8, <1>9, <1>10, <1>11 DEF RootsOf
<1>15. /\ k \in [NodeVars -> HolderStates] /\ k[var[v]].ref
       /\ \A g \in NodeVars \ {var[v]} : k[g] = holder[g]
  BY <1>1, <1>7, <1>8 DEF HolderStates
<1>16. HoldersOK(var', k) /\ TopsOf(k) = TopsOf(holder) \ {n}
  BY <1>2, <1>8, <1>15, GivesUp
<1>17. /\ holder' \in [NodeVars -> HolderStates] /\ HoldersOK(var', holder')
       /\ TopsOf(holder') = TopsOf(holder) \ {n}
  BY <1>8, <1>15, <1>16
<1>18. TypeOK'
  BY <1>1, <1>8, <1>10, <1>12, <1>17 DEF XmlInv, TypeOK
<1>19. Forest(node, Owners)'
  <2>1. RootsOf(node') \union TopsOf(holder') \union lost' = RootsOf(node) \union TopsOf(holder) \union lost
    BY <1>8, <1>9, <1>10, <1>14, <1>17
  <2> QED
    BY <1>13, <2>1, OwnersAre, OwnersWillBe
<1>20. RootInv'
  <2>1. doc'[d] = "live" /\ doc' = doc
    BY <1>5, <1>8 DEF XmlInv, DocInv
  <2>2. \A m \in RootsOf(node) \ S : m # n /\ m \in Nodes /\ node'[m].in = node[m].in /\ node[m].in # d
    BY <1>9, <1>10, <1>11 DEF RootsOf
  <2>3. node'[n].in = d
    BY <1>9, <1>11
  <2> QED
    BY <1>2, <1>14, <2>1, <2>2, <2>3 DEF RootInv
<1>21. ApartInv'
  BY <1>2, <1>8, <1>9, <1>10, <1>14, <1>17 DEF ApartInv
<1>23. DocInv'
  BY <1>8 DEF XmlInv, DocInv
<1>24. ResultInv'
  <2> SUFFICES ASSUME NEW q \in Results
               PROVE  /\ result[q].d = Null => result[q].nodes = {}
                      /\ result[q].nodes \ replaced \subseteq Below(node', RootOf(node', result[q].d) \union lost')
    BY <1>8 DEF ResultInv
  <2>1. PICK e : e = result[q].d
    OBVIOUS
  <2>2. /\ e = Null => result[q].nodes = {}
        /\ result[q].nodes \ replaced \subseteq Below(node, RootOf(node, e) \union lost)
    BY <2>1 DEF XmlInv, ResultInv
  <2>3. CASE e = Null
    BY <2>1, <2>2, <2>3
  <2>4. CASE e # Null
    <3>1. RootOf(node, e) \union lost \subseteq RootOf(node', e) \union lost'
      <4>1. RootOf(node, e) \subseteq RootsOf(node)
        BY <2>4 DEF RootOf, RootsOf
      <4> QED
        BY <1>8, <1>9, <1>10, <1>11, <4>1 DEF RootOf
    <3>2. RootOf(node, e) \union lost \in SUBSET Nodes /\ RootOf(node', e) \union lost' \in SUBSET Nodes
      BY <1>1, <1>8, <1>10 DEF RootOf
    <3>3. Below(node, RootOf(node, e) \union lost) \subseteq Below(node, RootOf(node', e) \union lost')
      BY <3>1, <3>2, BelowGrows
    <3>4. Below(node', RootOf(node', e) \union lost') = Below(node, RootOf(node', e) \union lost')
      BY <1>13, <3>2
    <3> QED
      BY <2>1, <2>2, <2>4, <3>3, <3>4
  <2> QED
    BY <2>3, <2>4
<1> QED
  BY <1>17, <1>18, <1>19, <1>20, <1>21, <1>23, <1>24 DEF XmlInv

\* XmlInv is inductive.
LEMMA NextXmlInv ==
  ASSUME XmlInv, [Next]_vars
  PROVE  XmlInv'
<1>1. ASSUME NEW x \in Xmls, Parse(x) \/ DropXml(x) \/ \E y \in Xmls : CopyXml(x, y)
      PROVE  XmlInv'
  BY <1>1, ParseAction, DropActions, ShareActions
<1>2. ASSUME NEW v \in NodeVars, DropNode(v) \/ SetText(v) \/ \E x \in Xmls : Root(x, v) \/ SetRoot(x, v)
      PROVE  XmlInv'
  BY <1>2, DropNodeAction, SetTextAction, ReferenceActions, SetRootCopies, SetRootTakes
<1>3. ASSUME NEW v \in NodeVars, NEW w \in NodeVars,
             Child(v, w) \/ ShareNode(v, w) \/ Copy(v, w) \/ AddNode(v, w)
      PROVE  XmlInv'
  BY <1>3, ReferenceActions, ShareActions, CopyAction, AddNodeAction
<1>4. ASSUME NEW r \in Results,
             \/ DropResult(r)
             \/ \E x \in Xmls : Eval(x, r)
             \/ \E v \in NodeVars : Deref(r, v)
      PROVE  XmlInv'
  BY <1>4, DropActions, ShareActions, ReferenceActions
<1>5. CASE UNCHANGED vars
  <2>1. /\ UNCHANGED <<doc, node, xml, var, holder, result, lost, replaced>>
        /\ RootsOf(node') = RootsOf(node) /\ TopsOf(holder') = TopsOf(holder)
    BY <1>5 DEF vars
  <2>2. Owners' = Owners
    BY <2>1, OwnersAre, OwnersWillBe
  <2> QED
    BY <2>1, <2>2 DEF XmlInv, TypeOK, RootInv, ApartInv, DocInv, ResultInv, RootOf
<1> QED
  BY <1>1, <1>2, <1>3, <1>4, <1>5 DEF Next

(***************************************************************************)
(* The theorems                                                            *)
(***************************************************************************)

\* The inductive invariant implies what the runs check.
LEMMA XmlInvShows == XmlInv => NodesOwnedOnce /\ ResultsKeepDocument
<1> SUFFICES ASSUME XmlInv
             PROVE  NodesOwnedOnce /\ ResultsKeepDocument
  OBVIOUS
<1>1. TypeOK /\ Forest(node, Owners) /\ HoldersOK(var, holder) /\ RootInv /\ ApartInv /\ DocInv /\ ResultInv
  BY DEF XmlInv
<1>2. Live = LiveIn(node) /\ Roots = RootsOf(node) /\ Tops = TopsOf(holder)
  BY DEF Live, LiveIn, Roots, RootsOf, Tops, TopsOf
<1>3. {} \in SUBSET LiveIn(node)
  OBVIOUS
<1>4. LiveIn(node) = Below(node, Owners) /\ Owners \subseteq LiveIn(node)
  BY <1>1, <1>3, ForestLives DEF Forest
<1>5. \A d \in Docs : \A m, n \in RootOf(node, d) : m = n
  BY <1>1, NullIsNone DEF RootInv, RootsOf, RootOf
<1>6. NodesOwnedOnce
  BY <1>1, <1>2, <1>4, <1>5 DEF NodesOwnedOnce, HoldersOK, ApartInv, Forest
<1>7. ResultsKeepDocument
  <2> SUFFICES ASSUME NEW r \in Results, NEW n \in result[r].nodes
               PROVE  doc[result[r].d] = "live" /\ (node[n].s = "live" \/ n \in replaced)
    BY DEF ResultsKeepDocument
  <2>1. result[r].d # Null /\ (n \in replaced \/ n \in Below(node, RootOf(node, result[r].d) \union lost))
    BY <1>1 DEF ResultInv
  <2>2. RootOf(node, result[r].d) \subseteq RootsOf(node)
    BY <2>1 DEF RootOf, RootsOf
  <2>3. RootOf(node, result[r].d) \union lost \in SUBSET LiveIn(node)
    BY <1>4, <2>2, OwnersAre
  <2>4. n \in replaced \/ n \in LiveIn(node)
    BY <1>1, <2>1, <2>3, ForestLives
  <2> QED
    BY <1>1, <2>1, <2>4 DEF DocInv, LiveIn
<1> QED
  BY <1>6, <1>7

\* For any documents, nodes and variables, every node of libxml2 that is not
\* freed has one owner: the document it is the root of, the NodeHolder of
\* its top, or nobody any more when set_root() forgot it (xml.cpp:140-155,
\* 306-318).
THEOREM OneOwnerEach == Spec => []NodesOwnedOnce
<1>1. Init => XmlInv
  BY InitXmlInv
<1>2. XmlInv /\ [Next]_vars => XmlInv'
  BY NextXmlInv
<1>3. XmlInv => NodesOwnedOnce
  BY XmlInvShows
<1> QED
  BY <1>1, <1>2, <1>3, PTL DEF Spec

\* However Xml, Context and Object are copied and dropped, the document of an
\* XPath result and what the result names are not freed before it, but for
\* nodes that set_root() of a reference or set_text() took out of the document
\* (xpath.hpp:33, 88, xml.cpp:149-154, 292-297).
THEOREM ResultsOutliveXml == Spec => []ResultsKeepDocument
<1>1. Init => XmlInv
  BY InitXmlInv
<1>2. XmlInv /\ [Next]_vars => XmlInv'
  BY NextXmlInv
<1>3. XmlInv => ResultsKeepDocument
  BY XmlInvShows
<1> QED
  BY <1>1, <1>2, <1>3, PTL DEF Spec
=============================================================================
