------------------------------ MODULE JsonTree ------------------------------
(***************************************************************************)
(* Who owns a JSON node.  cJSON keeps a document as nodes linked by next,  *)
(* prev and child (src/src/cJSON.c:1735-2647); Box::Json wraps a node in a *)
(* JsonHolder, shared by the copies of a Json, which deletes the node with *)
(* all that hangs on it unless `ref' says that somebody else owns it       *)
(* (src/src/json.cpp).                                                     *)
(*                                                                         *)
(* A program has variables of type Json.  It keeps two rules: it uses no   *)
(* reference whose node is gone, and a node that it hands to cJSON's own   *)
(* interface is one it owns.  A call that leaves a document with no owner  *)
(* or with two, or reads a node it has freed, sets that document adrift:   *)
(* its nodes are marked, what becomes of them is not followed, and         *)
(* whatever is mixed with them goes adrift as well.                        *)
(***************************************************************************)
EXTENDS FiniteSets, Functions

CONSTANTS Nodes,       \* bound: the nodes that are ever allocated
          Vars, Keys

Null == 0
ASSUME NodesAre == Null \notin Nodes /\ IsFiniteSet(Nodes)
Unset   == [n |-> Null, ref |-> TRUE, with |-> {}]
\* A null stands for every leaf; a merge patch is the one place where a null is
\* told from another value, which is then an array.
Kinds   == {"null", "array", "object"}
Cell(t, next, prev, child, key) ==
  [t |-> t, next |-> next, prev |-> prev, child |-> child, key |-> key]
Fresh   == Cell("fresh", Null, Null, Null, "")
Freed   == Cell("freed", Null, Null, Null, "")
Adrift  == Cell("adrift", Null, Null, Null, "")

VARIABLES heap,        \* node -> type, links and key
          json,        \* variable -> the cjson and ref of its JsonHolder, and the
                       \*             variables with this holder, itself included
          fault        \* a freed node was freed again or read
vars == <<heap, json, fault>>

Init == /\ heap = [n \in Nodes |-> Fresh]
        /\ json = [v \in Vars |-> Unset]
        /\ fault = FALSE

(***************************************************************************)
(* cJSON: a heap h goes in, a heap comes out                               *)
(***************************************************************************)
FreshNodes(h) == {n \in Nodes : h[n].t = "fresh"}
New(h) == CHOOSE n \in FreshNodes(h) : TRUE
Create(h, n, t) == [h EXCEPT ![n] = Cell(t, Null, Null, Null, "")]

\* What is reached from S by the links `to': the least set around S that they
\* do not leave.
Closed(to, S) == {T \in {S \union more : more \in SUBSET UNION Range(to)} : \A m \in T : to[m] \subseteq T}
Reach(to, S)  == IF S = {} THEN {}
                 ELSE LET closed == Closed(to, S) IN {n \in Nodes : \A T \in closed : n \in T}
Links(h) == [n \in Nodes |-> {h[n].next, h[n].child} \ {Null}]
Nexts(h) == [n \in Nodes |-> {h[n].next} \ {Null}]
Prevs(h) == [n \in Nodes |-> {h[n].prev} \ {Null}]

Children(h, p)  == Reach(Nexts(h), {h[p].child} \ {Null})
LastChild(h, p) == CHOOSE c \in Children(h, p) : h[c].next = Null
Below(h, n)     == {n} \union Reach(Links(h), {h[n].child} \ {Null})

\* cJSON_Delete(): the node, what is below it, and the nodes after it.
Delete(h, n) ==
  LET gone == Reach(Links(h), {n}) IN [m \in Nodes |-> IF m \in gone THEN Freed ELSE h[m]]

AddItemToArray(h, p, x) ==
  IF h[p].child = Null THEN [h EXCEPT ![p].child = x]
  ELSE [h EXCEPT ![LastChild(h, p)].next = x, ![x].prev = LastChild(h, p)]
AddItemToObject(h, p, k, x) == AddItemToArray([h EXCEPT ![x].key = k], p, x)

SetNext(h, n, x) == IF n = Null THEN h ELSE [h EXCEPT ![n].next = x]
SetPrev(h, n, x) == IF n = Null THEN h ELSE [h EXCEPT ![n].prev = x]
\* If x is the first child of p, y takes its place.
SetFirst(h, p, x, y) == IF h[p].child = x THEN [h EXCEPT ![p].child = y] ELSE h
Unlink(h, x) == SetPrev(SetNext(h, x, Null), x, Null)

DetachForgetsPrev(h, p, x) ==
  LET g == SetNext(h, h[x].prev, h[x].next)
  IN Unlink(SetFirst(g, p, x, h[x].next), x)
DetachItem(h, p, x) ==
  LET g == SetPrev(SetNext(h, h[x].prev, h[x].next), h[x].next, h[x].prev)
  IN Unlink(SetFirst(g, p, x, h[x].next), x)

InsertItem(h, p, after, x) ==
  LET prev == h[after].prev
      g == SetPrev(SetPrev(SetNext(h, x, after), x, prev), after, x)
  IN IF h[p].child = after THEN SetFirst(g, p, after, x) ELSE SetNext(g, prev, x)

ReplaceItem(h, p, old, x) ==
  LET prev == h[old].prev  next == h[old].next
      g == SetPrev(SetNext(h, x, next), x, prev)
      q == SetNext(SetPrev(g, next, x), prev, x)
  IN IF x = old THEN h
     ELSE Delete(Unlink(SetFirst(q, p, old, x), old), old)

\* cJSON_Duplicate() with what is below: each node gets the place that f gives
\* it, one not used yet.
Places(h, S)   == Injection(S, FreshNodes(h))
Place(h, n)    == CHOOSE f \in Places(h, Below(h, n)) : TRUE
Room(h, n)     == Places(h, Below(h, n)) # {}
Duplicate(h, n, f) ==
  LET below     == Below(h, n)
      at(m)     == IF m = Null THEN Null ELSE f[m]
      CopyOf(a) == IF a = n THEN Cell(h[n].t, Null, Null, at(h[n].child), h[n].key)
                   ELSE Cell(h[a].t, at(h[a].next), at(h[a].prev), at(h[a].child), h[a].key)
  IN [m \in Nodes |-> IF \E a \in below : f[a] = m
                      THEN CopyOf(CHOOSE a \in below : f[a] = m) ELSE h[m]]

Found(h, p, k) == {x \in Children(h, p) : h[x].key = k}
FirstFound(h, p, k) ==
  CHOOSE x \in Found(h, p, k) : Reach(Prevs(h), {x}) \intersect Found(h, p, k) = {x}

\* cJSONUtils_MergePatch() of a patch whose members are no objects.  A member
\* c of the patch replaces the first member of its key; a null only removes it.
MergeMember(h, base, c, f) ==
  LET old     == FirstFound(h, base, h[c].key)
      without == IF Found(h, base, h[c].key) = {} THEN h ELSE Delete(DetachItem(h, base, old), old)
  IN IF h[c].t = "null" THEN without
     ELSE AddItemToObject(Duplicate(without, c, f), base, h[c].key, f[c])
MergeMembers(h, base, patch, f) ==
  LET merged[c \in Children(h, patch)] ==     \* the heap after the member c
        MergeMember(IF h[c].prev = Null THEN h ELSE merged[h[c].prev], base, c, f)
  IN IF h[patch].child = Null THEN h ELSE merged[LastChild(h, patch)]
\* What is copied of the patch, a new object for a target that is none included
Copied(h, target, patch) ==
  IF h[patch].t # "object" THEN Below(h, patch)
  ELSE Below(h, patch) \ ( {c \in Children(h, patch) : h[c].t = "null"}
                           \union IF h[target].t = "object" THEN {patch} ELSE {} )
\* The node that is returned
Merged(h, target, patch, f) ==
  IF h[target].t = "object" /\ h[patch].t = "object" THEN target ELSE f[patch]
MergePatch(h, target, patch, f) ==
  CASE h[patch].t # "object"  -> Duplicate(Delete(h, target), patch, f)
    [] h[patch].t = "object" /\ h[target].t = "object" -> MergeMembers(h, target, patch, f)
    [] OTHER -> MergeMembers(Create(Delete(h, target), f[patch], "object"), f[patch], patch, f)

(***************************************************************************)
(* Json                                                                    *)
(***************************************************************************)
N(v) == json[v].n
Usable(v) == N(v) # Null /\ heap[N(v)].t \in Kinds
Is(v, t) == Usable(v) /\ heap[N(v)].t = t
Roots == {v \in Vars : ~json[v].ref /\ Usable(v)}
\* The variables with v's holder see what happens to it.
Held(v, n, ref) == [w \in Vars |-> IF w \in json[v].with THEN [n |-> n, ref |-> ref, with |-> json[v].with] ELSE json[w]]
\* The documents of v and of w, from their roots on, go adrift.
Document(n) == UNION {Below(heap, N(u)) : u \in {u \in Roots : n \in Below(heap, N(u))}}
SetAdrift(v, w) ==
  LET both == Document(N(v)) \union Document(N(w))
  IN heap' = [n \in Nodes |-> IF n \in both THEN Adrift ELSE heap[n]]
\* Json(cjson, ref): a new holder for v
Wrap(v, n, ref) == json' = [json EXCEPT ![v] = [n |-> n, ref |-> ref, with |-> {v}]]

CreateJson(v, t) ==
  /\ json[v] = Unset /\ FreshNodes(heap) # {} /\ t # "null"
  /\ Wrap(v, New(heap), FALSE) /\ heap' = Create(heap, New(heap), t)
  /\ UNCHANGED fault

\* Json(const Json &) and Json(Json &&), which copies as well
Share(v, w) ==
  /\ Usable(v) /\ json[w] = Unset
  /\ LET all == json[v].with \union {w}
     IN json' = [x \in Vars |-> IF x \in all THEN [json[v] EXCEPT !.with = all] ELSE json[x]]
  /\ UNCHANGED <<heap, fault>>

\* copy()
Copy(v, w) ==
  /\ Usable(v) /\ json[w] = Unset /\ Room(heap, N(v))
  /\ LET f == Place(heap, N(v)) IN Wrap(w, f[N(v)], FALSE) /\ heap' = Duplicate(heap, N(v), f)
  /\ UNCHANGED fault

\* ~Json(): the last variable of a holder deletes it, and what it owns.
Drop(v) ==
  /\ json[v] # Unset
  /\ json' = [w \in Vars |-> IF w = v THEN Unset ELSE [json[w] EXCEPT !.with = @ \ {v}]]
  /\ IF json[v].with # {v} \/ json[v].ref \/ heap[N(v)].t = "adrift" THEN UNCHANGED <<heap, fault>>
     ELSE /\ heap' = Delete(heap, N(v))
          /\ fault' = (fault \/ \E n \in Reach(Links(heap), {N(v)}) : heap[n].t = "freed")

\* operator[] and begin(): a reference to a child
Index(v, w) ==
  /\ Usable(v) /\ json[w] = Unset
  /\ \E x \in Children(heap, N(v)) : Wrap(w, x, TRUE)
  /\ UNCHANGED <<heap, fault>>

\* JsonIterator::operator++ and operator-- on a reference, begin() before them:
\* all its copies move along.
Advance(v) ==
  /\ Usable(v) /\ json[v].ref
  /\ \E x \in {heap[N(v)].next, heap[N(v)].prev} :
       (x = Null => heap[N(v)].next = Null) /\ json' = Held(v, x, TRUE)
  /\ UNCHANGED <<heap, fault>>

\* add_string(), add_number(), add_null(), add_bool()
AddLeaf(v, k) ==
  /\ FreshNodes(heap) # {}
  /\ LET x == New(heap) IN
     heap' = CASE Is(v, "array") /\ k = "" -> AddItemToArray(Create(heap, x, "null"), N(v), x)
               [] Is(v, "object") /\ k # "" -> AddItemToObject(Create(heap, x, "null"), N(v), k, x)
               [] OTHER -> heap          \* TypeError
  /\ UNCHANGED <<json, fault>>

\* add_item(key, item): the item becomes a reference; one that is a reference
\* already is copied.  An item put below itself belongs to nobody.
AddMember(v, w, k) ==
  /\ Is(v, "object") /\ Usable(w)
  /\ IF json[w].ref
     THEN /\ Room(heap, N(w)) /\ UNCHANGED json
          /\ LET f == Place(heap, N(w))
             IN heap' = AddItemToObject(Duplicate(heap, N(w), f), N(v), k, f[N(w)])
     ELSE /\ json' = Held(w, N(w), TRUE)
          /\ IF N(v) \in Below(heap, N(w)) THEN SetAdrift(v, w)
             ELSE heap' = AddItemToObject(heap, N(v), k, N(w))
  /\ UNCHANGED fault

\* add_item(item): asks, and changes, the ref of the ARRAY's holder.  An array
\* that was owned belongs to nobody then, and has an item that w deletes.
AddElement(v, w) ==
  /\ Is(v, "array") /\ Usable(w)
  /\ IF json[v].ref
     THEN /\ Room(heap, N(w)) /\ UNCHANGED json
          /\ LET f == Place(heap, N(w))
             IN heap' = AddItemToArray(Duplicate(heap, N(w), f), N(v), f[N(w)])
     ELSE json' = Held(v, N(v), TRUE) /\ SetAdrift(v, w)
  /\ UNCHANGED fault

PopAsReference(v, w) ==
  /\ Usable(v) /\ json[w] = Unset
  /\ \E x \in Children(heap, N(v)) :
       /\ Wrap(w, x, TRUE)
       /\ heap' = DetachItem(heap, N(v), x)
  /\ UNCHANGED fault
\* pop(): the child is detached, and owned by a Json of its own.
Pop(v, w) ==
  /\ Usable(v) /\ json[w] = Unset
  /\ \E x \in Children(heap, N(v)) :
       /\ Wrap(w, x, FALSE)
       /\ heap' = DetachItem(heap, N(v), x)
  /\ UNCHANGED fault

\* merge(): the holder's node is replaced by what MergePatch returns.  It is
\* not the holder's to replace if it is a reference, and must not be merged
\* with a part of itself or with what it is part of: nobody checks that.
Replaces(v, w) == heap[N(v)].t # "object" \/ heap[N(w)].t # "object"
Overlap(v, w)  == N(w) \in Below(heap, N(v)) \/ N(v) \in Below(heap, N(w))
Merge(v, w) ==
  /\ Usable(v) /\ Usable(w) /\ UNCHANGED fault
  /\ IF Overlap(v, w) \/ (json[v].ref /\ Replaces(v, w)) THEN SetAdrift(v, w) /\ UNCHANGED json
     ELSE LET room == Places(heap, Copied(heap, N(v), N(w)))
              f    == CHOOSE g \in room : TRUE
          IN /\ room # {} /\ \A x \in Children(heap, N(w)) : heap[x].t # "object"
             /\ heap' = MergePatch(heap, N(v), N(w), f)
             /\ json' = Held(v, Merged(heap, N(v), N(w), f), json[v].ref)

\* cJSON's own interface: cJSON_InsertItemInArray(), cJSON_ReplaceItemViaPointer()
\* and cJSON_DeleteItemFromArray(); the item given is owned by its parent from
\* then on.
Insert(v, w) ==
  /\ Is(v, "array") /\ Usable(w) /\ ~json[w].ref
  /\ IF N(v) \in Below(heap, N(w)) THEN SetAdrift(v, w)
     ELSE \/ heap' = AddItemToArray(heap, N(v), N(w))      \* no item has this index
          \/ \E x \in Children(heap, N(v)) :
               heap' = InsertItem(heap, N(v), x, N(w)) \/ heap' = ReplaceItem(heap, N(v), x, N(w))
  /\ json' = Held(w, N(w), TRUE)
  /\ UNCHANGED fault
DeleteItem(v) ==
  /\ Usable(v)
  /\ \E x \in Children(heap, N(v)) : heap' = Delete(DetachItem(heap, N(v), x), x)
  /\ UNCHANGED <<json, fault>>

\* A call with v and with a w that is adrift draws the document of v in.
DrawIn(v) ==
  /\ {w \in Vars : N(w) # Null /\ heap[N(w)].t = "adrift"} # {}
  /\ Usable(v) /\ SetAdrift(v, v)
  /\ UNCHANGED <<json, fault>>

Next ==
  \/ \E v \in Vars : Drop(v) \/ Advance(v) \/ DeleteItem(v) \/ DrawIn(v)
  \/ \E v \in Vars : (\E t \in Kinds : CreateJson(v, t)) \/ \E k \in Keys \union {""} : AddLeaf(v, k)
  \/ \E v, w \in Vars : \/ Share(v, w) \/ Copy(v, w) \/ Index(v, w) \/ Pop(v, w)
                        \/ AddElement(v, w) \/ Merge(v, w) \/ Insert(v, w)
                        \/ \E k \in Keys : AddMember(v, w, k)
Spec == Init /\ [][Next]_vars

(***************************************************************************)
(* Properties                                                              *)
(***************************************************************************)
Live  == {n \in Nodes : heap[n].t \in Kinds}

\* Every live node is owned, and owned once: it hangs below exactly one holder
\* that will delete it, or is that holder's own node; nothing leaks, nothing is
\* freed twice (json.cpp:13-17, 544-594).  Excepted, because the code breaks it
\* there, are the documents adrift: of add_item(item) on an owned array
\* (json.cpp:541-553), of a merge() through a reference that replaces the node or
\* with a part of the same document (json.cpp:244-251), of an item put below
\* itself, and whatever a later call mixes with one of these.
OwnedOnce ==
  LET owned == [v \in Roots |-> Below(heap, N(v))]
  IN /\ ~fault
     /\ Live = UNION {owned[v] : v \in Roots}
     /\ \A v, w \in Roots : w \notin json[v].with => owned[v] \intersect owned[w] = {}

\* The lists are whole: next and prev agree, a first child has no prev, and
\* whatever a list links to is allocated (cJSON.c:1836-2223); documents adrift
\* are excepted as above.
WellLinked ==
  \A n \in Live :
    /\ heap[n].next # Null => heap[heap[n].next].prev = n /\ heap[n].next \in Live
    /\ heap[n].prev # Null => heap[heap[n].prev].next = n
    /\ heap[n].child # Null => heap[heap[n].child].prev = Null /\ heap[n].child \in Live
=============================================================================
