------------------------------ MODULE XmlTree ------------------------------
(***************************************************************************)
(* Who owns an XML document and its nodes.  A document of libxml2 owns the *)
(* tree below its root; Box::LXml wraps documents in XmlHolder and nodes   *)
(* in NodeHolder, shared by the copies of an Xml or a Node, and results of *)
(* XPath expressions keep the document they point into                     *)
(* (src/src/xml.cpp, src/src/xpath.cpp).                                   *)
(*                                                                         *)
(* The program uses no reference to a node that is gone, be it of a Node   *)
(* or of a result, and puts no node below itself.                          *)
(***************************************************************************)
EXTENDS Functions

CONSTANTS Docs, Nodes,      \* bounds: what is ever allocated, both 1..n
          Xmls, NodeVars, Results

Null  == 0
NoVar == "none"
ASSUME NullIsNone  == Null \notin Docs \union Nodes
ASSUME NoVarIsNone == NoVar \notin NodeVars

NoHolder == [n |-> Null, ref |-> TRUE]

VARIABLES doc,       \* document -> "fresh", "live" or "freed"
          node,      \* node -> its state, what it hangs below, whether it is text
          xml,       \* Xml variable -> the document its XmlHolder owns, or Null
          var,       \* Node variable -> the variable that names its NodeHolder, or Null
          holder,    \* NodeHolder -> its node and its ref
          result,    \* XPath::Object -> its XmlHolder's document and its nodes
          lost,      \* the old roots that set_root() forgot
          replaced   \* history: the nodes freed by set_root() of a reference and set_text()
vars == <<doc, node, xml, var, holder, result, lost, replaced>>

Fresh == [s |-> "fresh", in |-> Null, below |-> Null, text |-> FALSE]
Freed == [Fresh EXCEPT !.s = "freed"]
NewNode(in, below, text) == [s |-> "live", in |-> in, below |-> below, text |-> text]
NoResult == [d |-> Null, nodes |-> {}]

Init == /\ doc = [d \in Docs |-> "fresh"]
        /\ node = [n \in Nodes |-> Fresh]
        /\ xml = [x \in Xmls |-> Null]
        /\ var = [v \in NodeVars |-> NoVar]
        /\ holder = [h \in NodeVars |-> NoHolder]
        /\ result = [r \in Results |-> NoResult]
        /\ lost = {} /\ replaced = {}

(***************************************************************************)
(* libxml2: nodes `in' a document as its root, or `below' a node.          *)
(***************************************************************************)
Spare(t)         == {n \in Nodes : t[n].s = "fresh"}
ChildrenOf(t, n) == {m \in Nodes : t[m].below = n}
RootOf(t, d)     == {m \in Nodes : t[m].in = d}
Closed(t, T)     == \A n \in T : ChildrenOf(t, n) \subseteq T
\* S, what hangs below it, and so on: the least closed set around S
Below(t, S)      == {n \in Nodes : \A T \in SUBSET Nodes : S \subseteq T /\ Closed(t, T) => n \in T}
FreeNodes(t, S)  == [n \in Nodes |-> IF n \in Below(t, S) THEN Freed ELSE t[n]]

\* xmlCopyNode(): every node of the tree gets a new one.
Places(t, n)   == Injection(Below(t, {n}), Spare(t))
Copyable(t, n) == Places(t, n) # {}
Place(t, n)    == CHOOSE f \in Places(t, n) : TRUE
CopyNode(t, n) ==
  LET f == Place(t, n)
      CopyOf(a) == NewNode(Null, IF a = n THEN Null ELSE f[t[a].below], t[a].text)
  IN [m \in Nodes |-> IF m \in Range(f) THEN CopyOf(CHOOSE a \in DOMAIN f : f[a] = m) ELSE t[m]]
New(t, n)      == Place(t, n)[n]

\* xmlAddChild(): a text whose place is behind a text is merged into it, and
\* freed.  (What the last child is, is left open.)
AddChild(t, n, x) ==
  LET texts == {m \in ChildrenOf(t, n) : t[m].text}
  IN \/ t[x].text /\ texts # {} /\ node' = FreeNodes(t, {x})
     \/ /\ t[x].text /\ texts = ChildrenOf(t, n) => texts = {}
        /\ node' = [t EXCEPT ![x].below = n]

(***************************************************************************)
(* Holders                                                                 *)
(***************************************************************************)
N(v)      == holder[var[v]].n
Usable(v) == var[v] # NoVar /\ N(v) # Null /\ node[N(v)].s = "live"
Kept(hold, t) == [h \in NodeVars |->
  IF hold[h].ref /\ hold[h].n # Null /\ t[hold[h].n].s = "freed" THEN NoHolder ELSE hold[h]]
\* Node(node, ref)
Wrap(v, n, ref) ==
  /\ var[v] = NoVar
  /\ \E h \in NodeVars \ {var[w] : w \in NodeVars} :
       holder' = [holder EXCEPT ![h] = [n |-> n, ref |-> ref]] /\ var' = [var EXCEPT ![v] = h]

ReleaseForgetsResults(d, xs, rs) ==
  IF \E y \in Xmls : xs[y] = d THEN UNCHANGED <<doc, node, holder>>
  ELSE /\ doc' = [doc EXCEPT ![d] = "freed"]
       /\ node' = FreeNodes(node, RootOf(node, d))
       /\ holder' = Kept(holder, node')
\* The document goes with the last of its Xml, Context and Object; with it
\* the tree (XmlHolder::~XmlHolder()).
Release(d, xs, rs) ==
  IF \E y \in Xmls : xs[y] = d THEN UNCHANGED <<doc, node, holder>>
  ELSE IF \E r \in Results : rs[r].d = d THEN UNCHANGED <<doc, node, holder>>
  ELSE /\ doc' = [doc EXCEPT ![d] = "freed"]
       /\ node' = FreeNodes(node, RootOf(node, d))
       /\ holder' = Kept(holder, node')

(***************************************************************************)
(* Xml                                                                     *)
(***************************************************************************)
\* ParseString() and LoadFile(): a document with a root and perhaps a text.
Parse(x) ==
  LET d   == CHOOSE e \in Docs : doc[e] = "fresh"
      top == CHOOSE n \in Nodes : n \in Spare(node)
      txt == CHOOSE n \in Nodes : n \in Spare(node) \ {top}
      one == [node EXCEPT ![top] = NewNode(d, Null, FALSE)]
  IN /\ xml[x] = Null
     /\ (\E e \in Docs : doc[e] = "fresh") /\ Spare(node) # {}
     /\ doc' = [doc EXCEPT ![d] = "live"] /\ xml' = [xml EXCEPT ![x] = d]
     /\ \/ node' = one
        \/ /\ Spare(node) \ {top} # {}
           /\ node' = [one EXCEPT ![txt] = NewNode(Null, top, TRUE)]
     /\ UNCHANGED <<var, holder, result, lost, replaced>>

\* Xml(const Xml &) and Xml(Xml &&), which copies as well.
CopyXml(x, y) ==
  /\ xml[x] # Null /\ xml[y] = Null
  /\ xml' = [xml EXCEPT ![y] = xml[x]]
  /\ UNCHANGED <<doc, node, var, holder, result, lost, replaced>>
DropXml(x) ==
  /\ xml[x] # Null
  /\ xml' = [xml EXCEPT ![x] = Null]
  /\ Release(xml[x], xml', result)
  /\ UNCHANGED <<var, result, lost, replaced>>

\* root(): a reference
Root(x, v) ==
  /\ xml[x] # Null
  /\ \E n \in RootOf(node, xml[x]) : Wrap(v, n, TRUE)
  /\ UNCHANGED <<doc, node, xml, result, lost, replaced>>

\* set_root(): a node that is no reference moves into the document, and the
\* return keeps the old root from being freed; of a reference a copy moves in,
\* and the old root is freed, whoever names its nodes.
SetRootMoves(x, v) ==
  /\ xml[x] # Null /\ Usable(v) /\ ~node[N(v)].text
  /\ node' = [n \in Nodes |-> IF n = N(v) THEN [node[n] EXCEPT !.in = xml[x]]
                              ELSE IF node[n].in = xml[x] THEN [node[n] EXCEPT !.in = Null] ELSE node[n]]
  /\ holder' = [holder EXCEPT ![var[v]].ref = TRUE]
  /\ lost' = lost \union RootOf(node, xml[x])
  /\ UNCHANGED <<doc, xml, var, result, replaced>>
SetRoot(x, v) ==
  /\ xml[x] # Null /\ Usable(v) /\ ~node[N(v)].text
  /\ IF holder[var[v]].ref
     THEN LET without == FreeNodes(CopyNode(node, N(v)), RootOf(node, xml[x]))
          IN /\ Copyable(node, N(v))
             /\ node' = [without EXCEPT ![New(node, N(v))].in = xml[x]]
             /\ holder' = Kept(holder, node')
             /\ replaced' = replaced \union Below(node, RootOf(node, xml[x]))
             /\ UNCHANGED lost
     ELSE /\ node' = [n \in Nodes |-> IF n = N(v) THEN [node[n] EXCEPT !.in = xml[x]]
                                      ELSE IF node[n].in = xml[x] THEN [node[n] EXCEPT !.in = Null] ELSE node[n]]
          /\ holder' = [holder EXCEPT ![var[v]].ref = TRUE]
          /\ lost' = lost \union RootOf(node, xml[x])
          /\ UNCHANGED replaced
  /\ UNCHANGED <<doc, xml, var, result>>

(***************************************************************************)
(* Node                                                                    *)
(***************************************************************************)
\* child(), and parent() and the siblings by way of it
Child(v, w) ==
  /\ Usable(v)
  /\ \E n \in ChildrenOf(node, N(v)) \union ({node[N(v)].below} \ {Null}) : Wrap(w, n, TRUE)
  /\ UNCHANGED <<doc, node, xml, result, lost, replaced>>
ShareNode(v, w) ==
  /\ Usable(v) /\ var[w] = NoVar
  /\ var' = [var EXCEPT ![w] = var[v]]
  /\ UNCHANGED <<doc, node, xml, holder, result, lost, replaced>>
Copy(v, w) ==
  /\ Usable(v) /\ Copyable(node, N(v))
  /\ Wrap(w, New(node, N(v)), FALSE) /\ node' = CopyNode(node, N(v))
  /\ UNCHANGED <<doc, xml, result, lost, replaced>>

\* ~Node(): NodeHolder::~NodeHolder() frees what is no reference.
DropNode(v) ==
  /\ var[v] # NoVar
  /\ var' = [var EXCEPT ![v] = NoVar]
  /\ LET h == holder[var[v]]
     IN IF \E w \in NodeVars \ {v} : var[w] = var[v] THEN UNCHANGED <<node, holder>>
        ELSE /\ node' = IF h.ref THEN node ELSE FreeNodes(node, {h.n})
             /\ holder' = Kept([holder EXCEPT ![var[v]] = NoHolder], node')
  /\ UNCHANGED <<doc, xml, result, lost, replaced>>

\* add_child()
AddNode(v, w) ==
  /\ Usable(v) /\ Usable(w) /\ ~node[N(v)].text
  /\ IF holder[var[w]].ref
     THEN /\ Copyable(node, N(w))
          /\ AddChild(CopyNode(node, N(w)), N(v), New(node, N(w)))
          /\ UNCHANGED holder
     ELSE /\ N(v) \notin Below(node, {N(w)})
          /\ AddChild(node, N(v), N(w))
          /\ holder' = Kept([holder EXCEPT ![var[w]].ref = TRUE], node')
  /\ UNCHANGED <<doc, xml, var, result, lost, replaced>>

\* set_text(): xmlNodeSetContent() changes the text of a text in place; of any
\* other node it frees the children, whoever names them, and makes a text of
\* what is not empty.
SetText(v) ==
  LET gone == ChildrenOf(node, N(v))
      bare == FreeNodes(node, gone)
      txt  == CHOOSE n \in Nodes : n \in Spare(node)
  IN /\ Usable(v) /\ ~node[N(v)].text
     /\ \/ node' = bare
        \/ Spare(node) # {} /\ node' = [bare EXCEPT ![txt] = NewNode(Null, N(v), TRUE)]
     /\ holder' = Kept(holder, node')
     /\ replaced' = replaced \union Below(node, gone)
     /\ UNCHANGED <<doc, xml, var, result, lost>>

(***************************************************************************)
(* XPath: the Context and the Object share the XmlHolder.                  *)
(***************************************************************************)
Eval(x, r) ==
  /\ xml[x] # Null /\ result[r] = NoResult
  /\ \E S \in SUBSET Below(node, RootOf(node, xml[x])) :
       S # {} /\ result' = [result EXCEPT ![r] = [d |-> xml[x], nodes |-> S]]
  /\ UNCHANGED <<doc, node, xml, var, holder, lost, replaced>>
\* *it of an iterator over the result
Deref(r, v) ==
  /\ \E n \in result[r].nodes : node[n].s = "live" /\ Wrap(v, n, TRUE)
  /\ UNCHANGED <<doc, node, xml, result, lost, replaced>>
DropResult(r) ==
  /\ result[r] # NoResult
  /\ result' = [result EXCEPT ![r] = NoResult]
  /\ Release(result[r].d, xml, result')
  /\ UNCHANGED <<xml, var, lost, replaced>>

Next ==
  \/ \E x \in Xmls : Parse(x) \/ DropXml(x) \/ \E y \in Xmls : CopyXml(x, y)
  \/ \E v \in NodeVars : DropNode(v) \/ SetText(v) \/ \E x \in Xmls : Root(x, v) \/ SetRoot(x, v)
  \/ \E v, w \in NodeVars : Child(v, w) \/ ShareNode(v, w) \/ Copy(v, w) \/ AddNode(v, w)
  \/ \E r \in Results : \/ DropResult(r)
                        \/ \E x \in Xmls : Eval(x, r)
                        \/ \E v \in NodeVars : Deref(r, v)
Spec == Init /\ [][Next]_vars

(***************************************************************************)
(* Properties                                                              *)
(***************************************************************************)
Live   == {n \in Nodes : node[n].s = "live"}
Roots  == {n \in Nodes : node[n].in # Null}
Tops   == {holder[h].n : h \in {g \in NodeVars : ~holder[g].ref}}
Owners == Roots \union Tops \union lost

\* Every node has one owner: the document it is in, or the NodeHolder of the
\* top of its tree; only the old roots that set_root() returns without
\* freeing have none (xml.cpp:140-155, 306-318).
NodesOwnedOnce ==
  /\ \A d \in Docs : \A m, n \in RootOf(node, d) : m = n
  /\ \A h, g \in NodeVars : ~holder[h].ref /\ ~holder[g].ref /\ h # g => holder[h].n # holder[g].n
  /\ Roots \intersect Tops = {} /\ lost \intersect (Roots \union Tops) = {}
  /\ Owners \subseteq Live /\ \A n \in Owners : node[n].below = Null
  /\ Live = Below(node, Owners)

\* A result keeps its document, whatever becomes of the Xml and the context it
\* was asked of, and with it the nodes it names (xpath.hpp:33, 88).  Excepted
\* are the nodes that the program itself has freed in a document that is
\* there, with the old root by set_root() of a reference (xml.cpp:149-154) or
\* with the children by set_text() (xml.cpp:292-297): nothing tells the result.
ResultsKeepDocument ==
  \A r \in Results : \A n \in result[r].nodes :
    doc[result[r].d] = "live" /\ (node[n].s = "live" \/ n \in replaced)
=============================================================================
