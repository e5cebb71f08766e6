------------------------------- MODULE RefPtr -------------------------------
(***************************************************************************)
(* Box::RefPtr, the reference-counted pointer of the wrappers              *)
(* (src/include/Box/refptr.hpp): SubProcess::Popen() and File::Open()      *)
(* return one, and Json, Xml, Node and the XPath classes hold one.         *)
(*                                                                         *)
(* The program gives each object to one RefPtr and copies no empty one,    *)
(* which the code would answer with a null pointer.                        *)
(***************************************************************************)
EXTENDS Integers, FiniteSets

CONSTANTS Objs,     \* what `new' returns
          Vars      \* variables of type RefPtr, of any lifetime

\* A program has finitely many variables.
ASSUME VarsFinite == IsFiniteSet(Vars)

Null == "null"      \* an empty RefPtr
None == "none"      \* a variable outside its lifetime
ASSUME NoNames == Null \notin Objs /\ None \notin Objs

VARIABLES ptr,      \* variable -> its object, Null or None
          count,    \* object -> *refcount
          state     \* object -> "new" (not made), "live", "deleted", or
                    \*           "dropped" (made, and forgotten by reset(ptr))
refs == <<ptr, count, state>>

RefInit == /\ ptr   = [v \in Vars |-> None]
           /\ count = [o \in Objs |-> 0]
           /\ state = [o \in Objs |-> "new"]

Holds(v) == ptr[v] \in Objs

\* RefPtr(T *)
Construct(v, o) ==
  /\ ptr[v] = None /\ state[o] = "new"
  /\ ptr'   = [ptr EXCEPT ![v] = o]
  /\ count' = [count EXCEPT ![o] = 1]
  /\ state' = [state EXCEPT ![o] = "live"]

\* RefPtr(const RefPtr &)
CopyConstruct(v, w) ==
  /\ ptr[v] = None /\ Holds(w)
  /\ ptr'   = [ptr EXCEPT ![v] = ptr[w]]
  /\ count' = [count EXCEPT ![ptr[w]] = @ + 1]
  /\ UNCHANGED state

\* RefPtr(RefPtr &&)
MoveConstruct(v, w) ==
  /\ ptr[v] = None /\ ptr[w] # None
  /\ ptr' = [ptr EXCEPT ![v] = ptr[w], ![w] = Null]
  /\ UNCHANGED <<count, state>>

\* v gives its object up, which is deleted with the last count, and is then to.
Release(v, to) ==
  /\ ptr' = [ptr EXCEPT ![v] = to]
  /\ IF Holds(v)
     THEN /\ count' = [count EXCEPT ![ptr[v]] = @ - 1]
          /\ state' = [state EXCEPT ![ptr[v]] = IF count[ptr[v]] <= 1 THEN "deleted" ELSE @]
     ELSE UNCHANGED <<count, state>>

Destroy(v) == ptr[v] # None /\ Release(v, None)
Reset(v)   == ptr[v] # None /\ Release(v, Null)

\* operator =(const RefPtr &): v gives up its object before it counts on the
\* object of w, which w keeps alive even when both have the same.
AssignForgetsOld(v, w) ==
  /\ v # w /\ ptr[v] # None /\ Holds(w)
  /\ ptr'   = [ptr EXCEPT ![v] = ptr[w]]
  /\ count' = [count EXCEPT ![ptr[w]] = @ + 1]
  /\ UNCHANGED state
Assign(v, w) ==
  /\ v # w /\ ptr[v] # None /\ Holds(w)
  /\ ptr' = [ptr EXCEPT ![v] = ptr[w]]
  /\ IF ptr[v] = ptr[w] THEN UNCHANGED <<count, state>>
     ELSE IF Holds(v)
     THEN /\ count' = [count EXCEPT ![ptr[v]] = @ - 1, ![ptr[w]] = @ + 1]
          /\ state' = [state EXCEPT ![ptr[v]] = IF count[ptr[v]] <= 1 THEN "deleted" ELSE @]
     ELSE /\ count' = [count EXCEPT ![ptr[w]] = @ + 1]
          /\ UNCHANGED state

\* operator =(RefPtr &&)
MoveAssign(v, w) ==
  /\ v # w /\ ptr[v] # None /\ ptr[w] # None
  /\ ptr' = [ptr EXCEPT ![v] = ptr[w], ![w] = Null]
  /\ IF Holds(v)
     THEN /\ count' = [count EXCEPT ![ptr[v]] = @ - 1]
          /\ state' = [state EXCEPT ![ptr[v]] = IF count[ptr[v]] <= 1 THEN "deleted" ELSE @]
     ELSE UNCHANGED <<count, state>>

\* reset(T *): an empty RefPtr stays empty and forgets the pointer.
ResetTo(v, o) ==
  /\ ptr[v] # None /\ state[o] = "new"
  /\ IF Holds(v)
     THEN /\ ptr'   = [ptr EXCEPT ![v] = o]
          /\ count' = [count EXCEPT ![ptr[v]] = @ - 1, ![o] = 1]
          /\ state' = [state EXCEPT ![ptr[v]] = IF count[ptr[v]] <= 1 THEN "deleted" ELSE @, ![o] = "live"]
     ELSE /\ state' = [state EXCEPT ![o] = "dropped"]
          /\ UNCHANGED <<ptr, count>>

RefStep ==
  \/ \E v \in Vars : Destroy(v) \/ Reset(v)
  \/ \E v, w \in Vars : CopyConstruct(v, w) \/ MoveConstruct(v, w) \/ Assign(v, w) \/ MoveAssign(v, w)
RefNext == RefStep \/ \E v \in Vars, o \in Objs : Construct(v, o) \/ ResetTo(v, o)
RefSpec == RefInit /\ [][RefNext]_refs

(***************************************************************************)
(* Properties                                                              *)
(***************************************************************************)
HoldersOf(o) == {v \in Vars : ptr[v] = o}

\* The count of an object is the number of RefPtr that hold it, through every
\* copy, move, assignment and reset; an object is alive as long as somebody
\* holds it and deleted once, with the last of them (refptr.hpp:15-108).
CountsExact ==
  \A o \in Objs : /\ count[o] = Cardinality(HoldersOf(o))
                  /\ state[o] = "live" <=> HoldersOf(o) # {}
=============================================================================
