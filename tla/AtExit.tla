------------------------------- MODULE AtExit -------------------------------
(***************************************************************************)
(* The list of functions to call at exit (src/src/libc/atexit.c), which    *)
(* Timer::Init(), Net::Init() and LXml::Init() enter with atexit_once().   *)
(* A function that is called may enter another.  One thread enters them:   *)
(* the list has no lock.                                                   *)
(***************************************************************************)
EXTENDS Integers, Sequences

CONSTANTS Fns,      \* functions to call
          Nodes,    \* bound: what malloc() returns
          Nices     \* their priorities
Null == 0
Unallocated == [fn |-> "none", nice |-> 0, next |-> Null]

VARIABLES exit_handlers,  \* the head of the list
          node,           \* BoxExitHandler -> its fn, nice and next, or Unallocated
          current,        \* the node call_handlers() is at
          phase,          \* "running", "calling", "inside" a function, or "ended"
          entered,        \* what the program asked for: pairs of fn and nice
          called          \* what was called, in this order
vars == <<exit_handlers, node, current, phase, entered, called>>

Init == /\ exit_handlers = Null /\ node = [n \in Nodes |-> Unallocated] /\ current = Null
        /\ phase = "running" /\ entered = {} /\ called = <<>>

Unused == {n \in Nodes : node[n] = Unallocated}
Handler(fn, nice, next) == [fn |-> fn, nice |-> nice, next |-> next]

\* The node in front of which nice goes, and the one before that.
Stop(n, nice) == node[n].nice >= nice \/ node[n].next = Null
Place(nice) == LET walk[n \in Nodes] == IF Stop(n, nice) THEN n ELSE walk[node[n].next]
               IN walk[exit_handlers]
Before(m)   == {n \in Nodes \ Unused : node[n].next = m}

\* Box_atexit_ex(): the new node is linked to by the one before it, if any.
Enter(fn, nice) ==
  /\ phase \in {"running", "inside"} /\ Unused # {}
  /\ exit_handlers \notin Unused   \* else it uses what was freed
  /\ LET hd == CHOOSE n \in Unused : TRUE
     IN IF exit_handlers = Null
        THEN /\ node' = [node EXCEPT ![hd] = Handler(fn, nice, Null)]
             /\ exit_handlers' = hd
        ELSE LET at == Place(nice)
                 prev == IF at = exit_handlers THEN {} ELSE Before(at)
             IN /\ node' = [n \in Nodes |-> IF n = hd THEN Handler(fn, nice, at)
                                            ELSE IF n \in prev THEN [node[n] EXCEPT !.next = hd]
                                            ELSE node[n]]
                /\ UNCHANGED exit_handlers
  /\ entered' = entered \union {<<fn, nice>>}
  /\ UNCHANGED <<current, phase, called>>

\* Box_atexit_once(): nothing when the function is found in the list.
Listed == LET from[n \in Nodes] == {n} \union (IF node[n].next = Null THEN {} ELSE from[node[n].next])
          IN IF exit_handlers = Null THEN {} ELSE from[exit_handlers]
AtexitOnce(fn, nice) == (\A n \in Listed : node[n].fn # fn) /\ Enter(fn, nice)

\* exit(): call_handlers() was given to atexit() with the first node.
Exit == /\ phase = "running" /\ exit_handlers # Null
        /\ phase' = "calling" /\ current' = exit_handlers
        /\ UNCHANGED <<exit_handlers, node, entered, called>>
CallHandler ==
  /\ phase = "calling" /\ current # Null /\ phase' = "inside"
  /\ called' = Append(called, node[current].fn)
  /\ UNCHANGED <<exit_handlers, node, current, entered>>
\* It returns, its node is freed and exit_handlers stays as it is.
Return ==
  /\ phase = "inside"
  /\ current' = node[current].next /\ node' = [node EXCEPT ![current] = Unallocated]
  /\ phase' = IF current' = Null THEN "ended" ELSE "calling"
  /\ UNCHANGED <<exit_handlers, entered, called>>

Next == \/ \E fn \in Fns, nice \in Nices : Enter(fn, nice) \/ AtexitOnce(fn, nice)
        \/ Exit \/ CallHandler \/ Return
Spec == Init /\ [][Next]_vars

\* Every function that was entered is called at the exit (atexit.h:8, "call
\* the function at exit").
EnteredAreCalled ==
  phase = "ended" => \A e \in entered : \E i \in DOMAIN called : called[i] = e[1]
=============================================================================
