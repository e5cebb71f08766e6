---------------------------- MODULE NetHandlesProofs ----------------------------
(***************************************************************************)
(* Proofs about the handles of Box::Net, for any number of objects: the    *)
(* message of a transfer finds its Easy, and a transfer uses live objects. *)
(* Both rest on Inv /\ Pointers: Easy objects and live handles belong      *)
(* together one by one, packages and Easy objects as well, and a handle    *)
(* points into its own package, to nothing, or to what was left behind.    *)
(* A step that changes the record of one handle goes by HandleStep, one    *)
(* that makes a handle by MadeAlone or MadePackage.                        *)
(***************************************************************************)
EXTENDS NetHandles, TLAPS

Fields  == {"head", "list", "write", "share", "userdata"}
Phases  == {"out", "in", "done"}
CurlRec == [live : BOOLEAN, private : Easies \union {None}, head : Packs \union {None, Gone},
            list : Packs \union {None, Gone}, write : {None, Gone}, shared : BOOLEAN,
            multi : Phases, given : Data \union {None}, left : SUBSET Fields, dropped : SUBSET Fields]
EasyType == easy \in [Easies -> [live : BOOLEAN, h : Curls \union {None}, data : Data \union {None}]]
PackType == pack \in [Packs -> [live : BOOLEAN, e : Easies \union {None}]]
CurlType == curl \in [Curls -> CurlRec]
TypeInv ==
  /\ EasyType /\ PackType /\ CurlType
  /\ queue \in SUBSET Curls
  /\ share \in BOOLEAN

\* Easy objects and handles belong together one by one.
Owners ==
  /\ \A e \in Easies : easy[e].h # None => easy[e].live /\ curl[easy[e].h].live /\ curl[easy[e].h].private = e
  /\ \A c \in Curls : curl[c].live => curl[c].private \in Easies /\ easy[curl[c].private].h = c

\* A package has an Easy of its own.
Packages ==
  /\ \A p \in Packs : pack[p].e # None => pack[p].live /\ easy[pack[p].e].live
  /\ \A p, q \in Packs : pack[p].e # None /\ pack[p].e = pack[q].e => p = q

\* What a Multi knows of a handle.
Userdata(r) == IF "userdata" \in r.dropped THEN None ELSE r.given
Messages ==
  /\ \A c \in queue : curl[c].multi # "out"
  /\ \A c \in Curls : curl[c].multi # "out" => curl[c].live /\ easy[curl[c].private].data = Userdata(curl[c])

\* What the record of a handle points to, M being what it may point to.
Mine(c) == {None} \union {p \in Packs : Has(p, c)}
LandsIn(r, M) ==
  /\ "head" \notin r.left => r.head \in M
  /\ "list" \notin r.left => r.list \in M
  /\ "write" \notin r.left => r.write = None
SharesLive(r) == r.shared => share \/ "share" \in r.left
OwnIn(r, p) ==
  /\ r.head = p \/ "head" \in r.left \union r.dropped
  /\ r.list = p \/ "list" \in r.left \union r.dropped
Pointers ==
  /\ \A c \in Curls : curl[c].live => LandsIn(curl[c], Mine(c)) /\ SharesLive(curl[c])
  /\ \A p \in Packs, c \in Curls : Has(p, c) => OwnIn(curl[c], p)

Inv == TypeInv /\ Owners /\ Packages /\ Messages

\* One handle's record is replaced.
LEMMA Updated == ASSUME CurlType, NEW c \in Curls, NEW r \in CurlRec, curl' = [curl EXCEPT ![c] = r]
  PROVE CurlType' /\ curl'[c] = r /\ \A x \in Curls \ {c} : curl'[x] = curl[x]
  BY DEF CurlType

\* The handle of an Easy that was not moved from, and of a package.
LEMMA WorkingFacts == ASSUME Inv, NEW e \in Easies, Working(e)
  PROVE H(e) \in Curls /\ easy[e].h = H(e) /\ curl[H(e)].live /\ curl[H(e)].private = e /\ curl[H(e)] \in CurlRec
  BY NoNames DEF Inv, TypeInv, EasyType, CurlType, Owners, Working, H
LEMMA HasFacts == ASSUME Inv, NEW p \in Packs, NEW c \in Curls, Has(p, c)
  PROVE pack[p].e \in Easies /\ easy[pack[p].e].h = c /\ curl[c].live /\ curl[c].private = pack[p].e
  BY NoNames DEF Inv, TypeInv, EasyType, PackType, Owners, Has, Full, PackCurl, H
LEMMA FullFacts == ASSUME Inv, NEW p \in Packs, Full(p), Working(pack[p].e)
  PROVE /\ pack[p].e \in Easies /\ Heap(pack[p].e) /\ PackCurl(p) \in Curls /\ Has(p, PackCurl(p))
        /\ curl[PackCurl(p)].live /\ curl[PackCurl(p)].private = pack[p].e /\ curl[PackCurl(p)] \in CurlRec
<1>1. pack[p].e \in Easies
  BY DEF Inv, TypeInv, PackType, Full
<1>2. PackCurl(p) = H(pack[p].e)
  BY DEF PackCurl
<1> QED
  BY <1>1, <1>2, WorkingFacts DEF Has, Heap

\* A step that changes one live handle, and at most the userdata of its Easy.
LEMMA HandleStep ==
  ASSUME Inv, Pointers, NEW c \in Curls, curl[c].live, NEW r \in CurlRec, curl' = [curl EXCEPT ![c] = r],
         r.live, r.private = curl[c].private, EasyType', UNCHANGED <<pack, share>>,
         \A e \in Easies : easy'[e].live = easy[e].live /\ easy'[e].h = easy[e].h,
         \A e \in Easies \ {r.private} : easy'[e].data = easy[e].data,
         queue' \in SUBSET Curls, queue' \subseteq queue \union {c},
         c \in queue' => r.multi # "out",
         r.multi # "out" => easy'[r.private].data = Userdata(r),
         LandsIn(r, Mine(c)), SharesLive(r), \A p \in Packs : Has(p, c) => OwnIn(r, p)
  PROVE  Inv' /\ Pointers'
<1>1. CurlType' /\ curl'[c] = r /\ \A x \in Curls \ {c} : curl'[x] = curl[x]
  BY Updated DEF Inv, TypeInv
<1>2. TypeInv'
  BY <1>1 DEF Inv, TypeInv, PackType
<1>3. \A x \in Curls : curl'[x].live = curl[x].live /\ curl'[x].private = curl[x].private
  <2>1. curl'[c].live = curl[c].live
    BY <1>1 DEF Inv, TypeInv, CurlType, CurlRec
  <2> QED
    BY <1>1, <2>1
<1>4. Owners'
  BY <1>3, NoNames DEF Inv, TypeInv, EasyType, Owners
<1>5. Packages'
  BY NoNames DEF Inv, TypeInv, PackType, Packages
<1>6. \A x \in Curls \ {c} : curl[x].live => curl[x].private \in Easies \ {r.private}
  BY DEF Inv, Owners
<1>7. Messages'
  <2>1. ASSUME NEW x \in queue' PROVE curl'[x].multi # "out"
    BY <1>1, <2>1 DEF Inv, Messages
  <2>2. ASSUME NEW x \in Curls, curl'[x].multi # "out"
        PROVE  curl'[x].live /\ easy'[curl'[x].private].data = Userdata(curl'[x])
    <3>1. CASE x = c
      BY <1>1, <2>2, <3>1
    <3>2. CASE x # c
      BY <1>1, <1>6, <2>2, <3>2 DEF Inv, Messages, Userdata
    <3> QED
      BY <3>1, <3>2
  <2> QED
    BY <2>1, <2>2 DEF Messages, Userdata
<1>8. \A p \in Packs, x \in Curls : Has(p, x)' <=> Has(p, x)
  BY NoNames DEF Inv, TypeInv, PackType, Has, Full, PackCurl, H
<1>9. \A x \in Curls : Mine(x)' = Mine(x)
  BY <1>8 DEF Mine
<1>10. ASSUME NEW x \in Curls, curl'[x].live PROVE LandsIn(curl'[x], Mine(x)') /\ SharesLive(curl[x])'
  <2>1. CASE x = c
    BY <1>1, <1>9, <2>1 DEF SharesLive
  <2>2. CASE x # c
    BY <1>1, <1>9, <1>10, <2>2 DEF Pointers, SharesLive
  <2> QED
    BY <2>1, <2>2
<1>11. ASSUME NEW p \in Packs, NEW x \in Curls, Has(p, x)' PROVE OwnIn(curl'[x], p)
  BY <1>1, <1>8, <1>11 DEF Pointers
<1> QED
  BY <1>2, <1>4, <1>5, <1>7, <1>10, <1>11 DEF Inv, Pointers, LandsIn, SharesLive, OwnIn

\* The same for a step that leaves all of Easy objects and queue alone.
LEMMA OptionStep ==
  ASSUME Inv, Pointers, NEW c \in Curls, curl[c].live, NEW r \in CurlRec, curl' = [curl EXCEPT ![c] = r],
         r.live, r.private = curl[c].private, UNCHANGED <<easy, pack, queue, share>>,
         r.multi = curl[c].multi, Userdata(r) = Userdata(curl[c]),
         LandsIn(r, Mine(c)), SharesLive(r), \A p \in Packs : Has(p, c) => OwnIn(r, p)
  PROVE  Inv' /\ Pointers'
<1>1. EasyType' /\ queue' \in SUBSET Curls
  BY DEF Inv, TypeInv, EasyType
<1>2. r.multi # "out" => easy'[r.private].data = Userdata(r)
  BY DEF Inv, Messages
<1>3. c \in queue' => r.multi # "out"
  BY DEF Inv, Messages
<1> QED
  BY <1>1, <1>2, <1>3, HandleStep

LEMMA ContentInv == ASSUME Inv, Pointers, NEW p \in Packs, Content(p) PROVE Inv' /\ Pointers'
<1> DEFINE c == PackCurl(p)
           r == [curl[c] EXCEPT !.write = Gone, !.left = curl[c].left \union {"write"}]
<1>1. c \in Curls /\ curl[c].live /\ curl[c] \in CurlRec
  BY FullFacts DEF Content
<1>2. curl' = [curl EXCEPT ![c] = r] /\ UNCHANGED <<easy, pack, queue, share>>
  BY <1>1 DEF Content, CurlRec, Inv, TypeInv, CurlType
<1> HIDE DEF c
<1>3. r \in CurlRec /\ r.live /\ r.private = curl[c].private /\ r.multi = curl[c].multi /\ Userdata(r) = Userdata(curl[c])
  BY <1>1 DEF CurlRec, Fields, Userdata
<1>4. LandsIn(r, Mine(c)) /\ SharesLive(r) /\ \A q \in Packs : Has(q, c) => OwnIn(r, q)
  BY <1>1 DEF CurlRec, Pointers, LandsIn, SharesLive, OwnIn
<1> HIDE DEF r
<1> QED
  BY <1>1, <1>2, <1>3, <1>4, OptionStep

LEMMA SetOstreamInv == ASSUME Inv, Pointers, NEW e \in Easies, SetOstream(e) PROVE Inv' /\ Pointers'
<1> DEFINE c == H(e)
           r == [curl[c] EXCEPT !.write = None, !.left = curl[c].left \ {"write"}]
<1>1. c \in Curls /\ curl[c].live /\ curl[c] \in CurlRec
  BY WorkingFacts DEF SetOstream
<1>2. Packaged(e, {"write"} \ {"write"}) = {}
  BY DEF Packaged
<1>3. curl' = [curl EXCEPT ![c] = r] /\ UNCHANGED <<easy, pack, queue, share>>
  BY <1>1, <1>2 DEF SetOstream, Point, CurlRec, Inv, TypeInv, CurlType
<1> HIDE DEF c
<1>4. r \in CurlRec /\ r.live /\ r.private = curl[c].private /\ r.multi = curl[c].multi /\ Userdata(r) = Userdata(curl[c])
  BY <1>1 DEF CurlRec, Fields, Userdata
<1>5. LandsIn(r, Mine(c)) /\ SharesLive(r) /\ \A q \in Packs : Has(q, c) => OwnIn(r, q)
  BY <1>1 DEF CurlRec, Pointers, LandsIn, SharesLive, OwnIn
<1> HIDE DEF r
<1> QED
  BY <1>1, <1>3, <1>4, <1>5, OptionStep

\* What a package holds is its own to drop.
LEMMA PackagedFacts == ASSUME Inv, NEW e \in Easies, Working(e), NEW p \in Packs, Has(p, H(e))
  PROVE \A fields : Packaged(e, fields) = fields
<1>1. pack[p].e = e
  BY HasFacts, WorkingFacts
<1> QED
  BY <1>1 DEF Packaged, Heap

LEMMA SetHeadersInv ==
  ASSUME Inv, Pointers, NEW e \in Easies, NEW field \in {"head", "list"}, SetHeaders(e, field) PROVE Inv' /\ Pointers'
<1> DEFINE c == H(e)
           own == Packaged(e, {field} \ {"write"})
           r == [curl[c] EXCEPT ![field] = None, !.left = curl[c].left \ {field}, !.dropped = curl[c].dropped \union own]
<1>1. Working(e) /\ c \in Curls /\ curl[c].live /\ curl[c] \in CurlRec
  BY WorkingFacts DEF SetHeaders
<1>2. own \subseteq {field} /\ \A p \in Packs : Has(p, c) => field \in own
  BY <1>1, PackagedFacts DEF Packaged
<1>3. curl' = [curl EXCEPT ![c] = r] /\ UNCHANGED <<easy, pack, queue, share>>
  BY <1>1 DEF SetHeaders, Point, CurlRec, Inv, TypeInv, CurlType
<1> HIDE DEF c, own
<1>4. r \in CurlRec /\ r.live /\ r.private = curl[c].private /\ r.multi = curl[c].multi /\ Userdata(r) = Userdata(curl[c])
  <2>1. CASE field = "head"
    BY <1>1, <1>2, <2>1 DEF CurlRec, Fields, Userdata
  <2>2. CASE field = "list"
    BY <1>1, <1>2, <2>2 DEF CurlRec, Fields, Userdata
  <2> QED
    BY <2>1, <2>2
<1>5. LandsIn(r, Mine(c)) /\ SharesLive(r) /\ \A q \in Packs : Has(q, c) => OwnIn(r, q)
  <2>0. None \in Mine(c)
    BY DEF Mine
  <2>1. CASE field = "head"
    BY <1>1, <1>2, <2>0, <2>1 DEF CurlRec, Pointers, LandsIn, SharesLive, OwnIn
  <2>2. CASE field = "list"
    BY <1>1, <1>2, <2>0, <2>2 DEF CurlRec, Pointers, LandsIn, SharesLive, OwnIn
  <2> QED
    BY <2>1, <2>2
<1> HIDE DEF r
<1> QED
  BY <1>1, <1>3, <1>4, <1>5, OptionStep

\* The Easy of a handle is its private data, and no other handle's.
LEMMA EasyChanged ==
  ASSUME Inv, NEW e \in Easies, NEW d \in Data \union {None}, easy' = [easy EXCEPT ![e].data = d]
  PROVE  /\ EasyType' /\ easy'[e].data = d /\ \A f \in Easies \ {e} : easy'[f].data = easy[f].data
         /\ \A f \in Easies : easy'[f].live = easy[f].live /\ easy'[f].h = easy[f].h
  BY DEF Inv, TypeInv, EasyType

LEMMA AddHandleInv == ASSUME Inv, Pointers, NEW e \in Easies, NEW data \in Data, AddHandle(e, data) PROVE Inv' /\ Pointers'
<1> DEFINE c == H(e)
           m == IF curl[c].multi = "out" THEN "in" ELSE curl[c].multi
           r == [curl[c] EXCEPT !.multi = m, !.given = data, !.dropped = curl[c].dropped \ {"userdata"}]
<1>1. c \in Curls /\ curl[c].live /\ curl[c] \in CurlRec /\ curl[c].private = e
  BY WorkingFacts DEF AddHandle
<1>2. m \in Phases \ {"out"}
  BY <1>1 DEF CurlRec, Phases
<1>3. easy' = [easy EXCEPT ![e].data = data] /\ curl' = [curl EXCEPT ![c] = r] /\ UNCHANGED <<pack, queue, share>>
  BY <1>1 DEF AddHandle, CurlRec, Inv, TypeInv, CurlType
<1> HIDE DEF c, m
<1>4. r \in CurlRec /\ r.live /\ r.private = e /\ r.multi # "out" /\ Userdata(r) = data
  BY <1>1, <1>2 DEF CurlRec, Fields, Userdata
<1>5. LandsIn(r, Mine(c)) /\ SharesLive(r) /\ \A q \in Packs : Has(q, c) => OwnIn(r, q)
  BY <1>1 DEF CurlRec, Pointers, LandsIn, SharesLive, OwnIn
<1>6. /\ EasyType' /\ easy'[e].data = data /\ \A f \in Easies \ {e} : easy'[f].data = easy[f].data
      /\ \A f \in Easies : easy'[f].live = easy[f].live /\ easy'[f].h = easy[f].h
  BY <1>3, EasyChanged
<1>7. queue' \in SUBSET Curls /\ queue' \subseteq queue \union {c}
  BY <1>3 DEF Inv, TypeInv
<1> HIDE DEF r
<1> QED
  BY <1>1, <1>3, <1>4, <1>5, <1>6, <1>7, HandleStep

LEMMA ResetInv == ASSUME Inv, Pointers, NEW e \in Easies, Reset(e) PROVE Inv' /\ Pointers'
<1> DEFINE c == H(e)
           own == Packaged(e, {"head", "list"})
           d == {f \in {"userdata"} : curl[c].given # None}
           r == [curl[c] EXCEPT !.private = e, !.head = None, !.list = None, !.write = None,
                                !.left = curl[c].left \intersect {"share"}, !.dropped = d \union own]
<1>1. Working(e) /\ c \in Curls /\ curl[c].live /\ curl[c] \in CurlRec /\ curl[c].private = e
  BY WorkingFacts DEF Reset
<1>2. own \subseteq {"head", "list"} /\ \A p \in Packs : Has(p, c) => own = {"head", "list"}
  BY <1>1, PackagedFacts DEF Packaged
<1>3. easy' = [easy EXCEPT ![e].data = None] /\ curl' = [curl EXCEPT ![c] = r] /\ UNCHANGED <<pack, queue, share>>
  BY <1>1 DEF Reset, CurlRec, Inv, TypeInv, CurlType
<1>8. d \subseteq {"userdata"} /\ ("userdata" \notin d => curl[c].given = None)
  OBVIOUS
<1> HIDE DEF c, own, d
<1>9. d \union own \in SUBSET Fields /\ ("userdata" \notin d \union own => curl[c].given = None)
  BY <1>2, <1>8 DEF Fields
<1>4. r \in CurlRec /\ r.live /\ r.private = e /\ r.multi = curl[c].multi /\ Userdata(r) = None
  BY <1>1, <1>9 DEF CurlRec, Userdata
<1>5. LandsIn(r, Mine(c)) /\ SharesLive(r) /\ \A q \in Packs : Has(q, c) => OwnIn(r, q)
  <2>1. None \in Mine(c)
    BY DEF Mine
  <2>2. /\ r.head = None /\ r.list = None /\ r.write = None /\ r.shared = curl[c].shared
        /\ "share" \in r.left <=> "share" \in curl[c].left
        /\ \A p \in Packs : Has(p, c) => "head" \in r.dropped /\ "list" \in r.dropped
    BY <1>1, <1>2 DEF CurlRec
  <2> QED
    BY <1>1, <2>1, <2>2 DEF Pointers, LandsIn, SharesLive, OwnIn
<1>6. /\ EasyType' /\ easy'[e].data = None /\ \A f \in Easies \ {e} : easy'[f].data = easy[f].data
      /\ \A f \in Easies : easy'[f].live = easy[f].live /\ easy'[f].h = easy[f].h
  BY <1>3, EasyChanged
<1>7. queue' \in SUBSET Curls /\ queue' \subseteq queue \union {c} /\ (c \in queue' => r.multi # "out")
  BY <1>3, <1>4 DEF Inv, TypeInv, Messages
<1> HIDE DEF r
<1> QED
  BY <1>1, <1>3, <1>4, <1>5, <1>6, <1>7, HandleStep

LEMMA RemoveHandleInv == ASSUME Inv, Pointers, NEW e \in Easies, RemoveHandle(e) PROVE Inv' /\ Pointers'
<1> DEFINE c == H(e)
           r == [curl[c] EXCEPT !.multi = "out"]
<1>1. c \in Curls /\ curl[c].live /\ curl[c] \in CurlRec /\ curl[c].private = e
  BY WorkingFacts DEF RemoveHandle
<1>2. curl' = [curl EXCEPT ![c] = r] /\ queue' = queue \ {c} /\ UNCHANGED <<easy, pack, share>>
  BY <1>1 DEF RemoveHandle, Without, CurlRec, Inv, TypeInv, CurlType
<1> HIDE DEF c
<1>3. r \in CurlRec /\ r.live /\ r.private = e /\ r.multi = "out"
  BY <1>1 DEF CurlRec, Phases
<1>4. LandsIn(r, Mine(c)) /\ SharesLive(r) /\ \A q \in Packs : Has(q, c) => OwnIn(r, q)
  BY <1>1 DEF CurlRec, Pointers, LandsIn, SharesLive, OwnIn
<1>5. EasyType' /\ queue' \in SUBSET Curls /\ queue' \subseteq queue \union {c} /\ c \notin queue'
  BY <1>2 DEF Inv, TypeInv, EasyType
<1> HIDE DEF r
<1> QED
  BY <1>1, <1>2, <1>3, <1>4, <1>5, HandleStep

LEMMA DoneInv == ASSUME Inv, Pointers, NEW c \in Curls, Done(c) PROVE Inv' /\ Pointers'
<1> DEFINE r == [curl[c] EXCEPT !.multi = "done"]
<1>1. curl[c].live /\ curl[c] \in CurlRec /\ easy[curl[c].private].data = Userdata(curl[c])
  BY DEF Done, Inv, TypeInv, CurlType, Messages
<1>2. curl' = [curl EXCEPT ![c] = r] /\ queue' = queue \union {c} /\ UNCHANGED <<easy, pack, share>>
  BY <1>1 DEF Done, CurlRec, Inv, TypeInv, CurlType
<1>3. r \in CurlRec /\ r.live /\ r.private = curl[c].private /\ r.multi # "out" /\ Userdata(r) = Userdata(curl[c])
  BY <1>1 DEF CurlRec, Phases, Userdata
<1>4. LandsIn(r, Mine(c)) /\ SharesLive(r) /\ \A q \in Packs : Has(q, c) => OwnIn(r, q)
  BY <1>1 DEF CurlRec, Pointers, LandsIn, SharesLive, OwnIn
<1>5. EasyType' /\ queue' \in SUBSET Curls
  BY <1>2 DEF Inv, TypeInv, EasyType
<1> HIDE DEF r
<1> QED
  BY <1>1, <1>2, <1>3, <1>4, <1>5, HandleStep

LEMMA RemoveHeaderInv == ASSUME Inv, Pointers, RemoveHeader PROVE Inv' /\ Pointers'
<1>1. PICK c \in Curls :
     /\ curl[c].live /\ curl' = [curl EXCEPT ![c].list = Gone, ![c].left = @ \union {"list"}]
     /\ UNCHANGED <<easy, pack, queue, share>>
  BY DEF RemoveHeader
<1> DEFINE r == [curl[c] EXCEPT !.list = Gone, !.left = curl[c].left \union {"list"}]
<1>2. curl[c] \in CurlRec /\ curl' = [curl EXCEPT ![c] = r]
  BY <1>1 DEF CurlRec, Inv, TypeInv, CurlType
<1>3. r \in CurlRec /\ r.live /\ r.private = curl[c].private /\ r.multi = curl[c].multi /\ Userdata(r) = Userdata(curl[c])
  BY <1>1, <1>2 DEF CurlRec, Fields, Userdata
<1>4. LandsIn(r, Mine(c)) /\ SharesLive(r) /\ \A q \in Packs : Has(q, c) => OwnIn(r, q)
  BY <1>1, <1>2 DEF CurlRec, Pointers, LandsIn, SharesLive, OwnIn
<1> HIDE DEF r
<1> QED
  BY <1>1, <1>2, <1>3, <1>4, OptionStep

LEMMA AttachShareInv == ASSUME Inv, Pointers, NEW e \in Easies, AttachShare(e) PROVE Inv' /\ Pointers'
<1> DEFINE c == H(e)
<1>1. PICK on \in BOOLEAN :
     /\ on => share
     /\ curl' = [curl EXCEPT ![c].shared = on, ![c].left = @ \ {"share"}]
     /\ UNCHANGED <<easy, pack, queue, share>>
  BY DEF AttachShare
<1>2. c \in Curls /\ curl[c].live /\ curl[c] \in CurlRec
  BY WorkingFacts DEF AttachShare
<1> DEFINE r == [curl[c] EXCEPT !.shared = on, !.left = curl[c].left \ {"share"}]
<1>3. curl' = [curl EXCEPT ![c] = r]
  BY <1>1, <1>2 DEF CurlRec, Inv, TypeInv, CurlType
<1> HIDE DEF c
<1>4. r \in CurlRec /\ r.live /\ r.private = curl[c].private /\ r.multi = curl[c].multi /\ Userdata(r) = Userdata(curl[c])
  BY <1>2 DEF CurlRec, Fields, Userdata
<1>5. LandsIn(r, Mine(c)) /\ SharesLive(r) /\ \A q \in Packs : Has(q, c) => OwnIn(r, q)
  BY <1>1, <1>2 DEF CurlRec, Pointers, LandsIn, SharesLive, OwnIn
<1> HIDE DEF r
<1> QED
  BY <1>1, <1>2, <1>3, <1>4, <1>5, OptionStep

LEMMA GetMsgInv == ASSUME Inv, Pointers, GetMsg PROVE Inv' /\ Pointers'
<1>1. queue' \subseteq queue /\ UNCHANGED <<easy, pack, curl, share>>
  BY DEF GetMsg, Without
<1>2. TypeInv' /\ Owners' /\ Packages'
  BY <1>1 DEF Inv, TypeInv, EasyType, PackType, CurlType, Owners, Packages
<1>3. Messages'
  BY <1>1 DEF Inv, Messages, Userdata
<1>4. Pointers'
  BY <1>1 DEF Pointers, LandsIn, SharesLive, OwnIn, Mine, Has, Full, PackCurl, H
<1> QED
  BY <1>2, <1>3, <1>4 DEF Inv

LEMMA DeleteShareInv == ASSUME Inv, Pointers, DeleteShare PROVE Inv' /\ Pointers'
<1>0. curl' = [c \in Curls |-> IF curl[c].shared THEN [curl[c] EXCEPT !.left = @ \union {"share"}] ELSE curl[c]]
  BY DEF DeleteShare
<1>1. UNCHANGED <<easy, pack, queue>> /\ share' \in BOOLEAN
  BY DEF DeleteShare
<1>2. ASSUME NEW c \in Curls
      PROVE  /\ curl'[c] \in CurlRec
             /\ curl'[c].live = curl[c].live /\ curl'[c].private = curl[c].private
             /\ curl'[c].multi = curl[c].multi /\ Userdata(curl'[c]) = Userdata(curl[c])
             /\ \A M : LandsIn(curl[c], M) => LandsIn(curl'[c], M)
             /\ curl'[c].shared => "share" \in curl'[c].left
             /\ \A p : OwnIn(curl[c], p) => OwnIn(curl'[c], p)
  <2>1. curl[c] \in CurlRec
    BY DEF Inv, TypeInv, CurlType
  <2>2. CASE curl[c].shared
    BY <1>0, <2>1, <2>2 DEF CurlRec, Fields, Userdata, LandsIn, OwnIn
  <2>3. CASE ~curl[c].shared
    BY <1>0, <2>1, <2>3
  <2> QED
    BY <2>2, <2>3
<1>3. CurlType'
  <2>1. curl' = [c \in Curls |-> curl'[c]]
    BY <1>0
  <2> QED
    BY <1>2, <2>1 DEF CurlType
<1>4. TypeInv' /\ Owners' /\ Packages'
  <2>1. \A c \in Curls : curl'[c].live = curl[c].live /\ curl'[c].private = curl[c].private
    BY <1>2
  <2>2. Owners'
    BY <1>1, <2>1, NoNames DEF Inv, TypeInv, EasyType, Owners
  <2> QED
    BY <1>1, <1>3, <2>2 DEF Inv, TypeInv, EasyType, PackType, Packages
<1>5. Messages'
  <2>1. \A c \in queue : curl'[c].multi # "out"
    BY <1>2 DEF Inv, TypeInv, Messages
  <2>2. \A c \in Curls : curl'[c].multi # "out" => curl'[c].live /\ easy[curl'[c].private].data = Userdata(curl'[c])
    BY <1>2 DEF Inv, Messages
  <2> QED
    BY <1>1, <2>1, <2>2 DEF Messages, Userdata
<1>6. \A p \in Packs, c \in Curls : Has(p, c)' <=> Has(p, c)
  BY <1>1 DEF Has, Full, PackCurl, H
<1>7. ASSUME NEW c \in Curls, curl'[c].live PROVE LandsIn(curl'[c], Mine(c)') /\ SharesLive(curl[c])'
  <2>1. Mine(c)' = Mine(c)
    BY <1>6 DEF Mine
  <2>2. LandsIn(curl[c], Mine(c))
    BY <1>2, <1>7 DEF Pointers
  <2> QED
    BY <1>2, <2>1, <2>2 DEF SharesLive
<1>8. ASSUME NEW p \in Packs, NEW c \in Curls, Has(p, c)' PROVE OwnIn(curl'[c], p)
  BY <1>2, <1>6, <1>8 DEF Pointers
<1> QED
  BY <1>4, <1>5, <1>7, <1>8 DEF Inv, Pointers, LandsIn, SharesLive, OwnIn

\* What a package may leave: none holds its list or its headers but its own handle.
LEMMA OthersLeft == ASSUME Inv, Pointers, NEW p \in Packs, NEW c \in Curls, curl[c].live, ~Has(p, c)
  PROVE  (curl[c].head = p => "head" \in curl[c].left) /\ (curl[c].list = p => "list" \in curl[c].left)
  BY NoNames DEF Pointers, LandsIn, Mine

LEMMA MovePackageInv == ASSUME Inv, Pointers, NEW p \in Packs, NEW q \in Packs, MovePackage(p, q) PROVE Inv' /\ Pointers'
<1>0. curl' = [c \in Curls |-> [curl[c] EXCEPT !.list = IF @ = p THEN q ELSE @,
                                         !.left = IF curl[c].head = p THEN @ \union {"head"} ELSE @]]
  BY DEF MovePackage
<1>1. UNCHANGED <<easy, queue, share>> /\ pack[p].live /\ ~pack[q].live /\ p # q
  BY DEF MovePackage
<1>2. /\ PackType' /\ pack'[q] = pack[p] /\ pack'[p].e = None /\ pack'[p].live
      /\ \A x \in Packs \ {p, q} : pack'[x] = pack[x]
  BY <1>1 DEF MovePackage, Inv, TypeInv, PackType
<1>3. ASSUME NEW c \in Curls
      PROVE  /\ curl'[c] \in CurlRec
             /\ curl'[c].live = curl[c].live /\ curl'[c].private = curl[c].private /\ curl'[c].multi = curl[c].multi
             /\ curl'[c].head = curl[c].head /\ curl'[c].write = curl[c].write /\ curl'[c].shared = curl[c].shared
             /\ curl'[c].dropped = curl[c].dropped /\ Userdata(curl'[c]) = Userdata(curl[c])
             /\ curl'[c].list = IF curl[c].list = p THEN q ELSE curl[c].list
             /\ curl'[c].left = IF curl[c].head = p THEN curl[c].left \union {"head"} ELSE curl[c].left
  <2>1. curl[c] \in CurlRec
    BY DEF Inv, TypeInv, CurlType
  <2> DEFINE l == IF curl[c].list = p THEN q ELSE curl[c].list
             m == IF curl[c].head = p THEN curl[c].left \union {"head"} ELSE curl[c].left
  <2>2. l \in Packs \union {None, Gone} /\ m \in SUBSET Fields
    BY <2>1 DEF CurlRec, Fields
  <2>3. curl'[c] = [curl[c] EXCEPT !.list = l, !.left = m]
    BY <1>0, <2>1 DEF CurlRec
  <2> HIDE DEF l, m
  <2>4. /\ curl'[c] \in CurlRec
        /\ curl'[c].live = curl[c].live /\ curl'[c].private = curl[c].private /\ curl'[c].multi = curl[c].multi
        /\ curl'[c].head = curl[c].head /\ curl'[c].write = curl[c].write /\ curl'[c].shared = curl[c].shared
        /\ curl'[c].dropped = curl[c].dropped /\ curl'[c].given = curl[c].given
        /\ curl'[c].list = l /\ curl'[c].left = m
    BY <2>1, <2>2, <2>3 DEF CurlRec
  <2> QED
    BY <2>4 DEF l, m, Userdata
<1>4. CurlType'
  <2>1. curl' = [c \in Curls |-> curl'[c]]
    BY <1>0
  <2> QED
    BY <1>3, <2>1 DEF CurlType
<1>5. TypeInv' /\ Owners'
  <2>1. \A c \in Curls : curl'[c].live = curl[c].live /\ curl'[c].private = curl[c].private
    BY <1>3
  <2>2. Owners'
    BY <1>1, <2>1, NoNames DEF Inv, TypeInv, EasyType, Owners
  <2> QED
    BY <1>1, <1>2, <1>4, <2>2 DEF Inv, TypeInv, EasyType
<1>6. Messages'
  <2>1. \A c \in queue : curl'[c].multi # "out"
    BY <1>3 DEF Inv, TypeInv, Messages
  <2>2. \A c \in Curls : curl'[c].multi # "out" => curl'[c].live /\ easy[curl'[c].private].data = Userdata(curl'[c])
    BY <1>3 DEF Inv, Messages
  <2> QED
    BY <1>1, <2>1, <2>2 DEF Messages, Userdata
<1>7. pack[q].e = None
  BY <1>1 DEF Inv, Packages
<1>8. Packages'
  <2>1. ASSUME NEW x \in Packs, pack'[x].e # None PROVE pack'[x].live /\ easy'[pack'[x].e].live
    BY <1>1, <1>2, <2>1 DEF Inv, Packages
  <2>2. ASSUME NEW x \in Packs, NEW y \in Packs, pack'[x].e # None, pack'[x].e = pack'[y].e PROVE x = y
    BY <1>2, <1>7, <2>2 DEF Inv, Packages
  <2> QED
    BY <2>1, <2>2 DEF Packages
<1>9. \A c \in Curls : /\ ~Has(p, c)' /\ ~Has(q, c)
                       /\ Has(q, c)' <=> Has(p, c)
                       /\ \A x \in Packs \ {p, q} : Has(x, c)' <=> Has(x, c)
  BY <1>1, <1>2 DEF Has, Full, PackCurl, H
<1>10. \A c \in Curls, x \in Packs : Has(p, c) /\ Has(x, c) => x = p
  BY HasFacts, NoNames DEF Inv, TypeInv, PackType, Packages
<1>11. ASSUME NEW c \in Curls, curl'[c].live PROVE LandsIn(curl'[c], Mine(c)') /\ SharesLive(curl[c])'
  <2>1. curl[c].live /\ LandsIn(curl[c], Mine(c)) /\ SharesLive(curl[c])
    BY <1>3, <1>11 DEF Pointers
  <2>2. SharesLive(curl[c])'
    <3>1. share' = share /\ curl'[c].shared = curl[c].shared /\ ("share" \in curl[c].left => "share" \in curl'[c].left)
      BY <1>1, <1>3
    <3> QED
      BY <2>1, <3>1 DEF SharesLive
  <2>3. CASE Has(p, c)
    <3>1. \A x \in Packs : (Has(x, c) <=> x = p) /\ (Has(x, c)' <=> x = q)
      BY <1>1, <1>9, <1>10, <2>3
    <3>2. Mine(c) = {None, p} /\ Mine(c)' = {None, q}
      BY <3>1 DEF Mine
    <3> QED
      BY <1>3, <2>1, <2>2, <3>2 DEF LandsIn
  <2>4. CASE ~Has(p, c)
    <3>1. \A x \in Packs : Has(x, c)' <=> Has(x, c)
      BY <1>9, <2>4
    <3>2. Mine(c)' = Mine(c)
      BY <3>1 DEF Mine
    <3> QED
      BY <1>3, <2>1, <2>2, <2>4, <3>2, OthersLeft DEF LandsIn
  <2> QED
    BY <2>3, <2>4
<1>12. ASSUME NEW x \in Packs, NEW c \in Curls, Has(x, c)' PROVE OwnIn(curl'[c], x)
  <2>1. CASE x = q
    <3>1. OwnIn(curl[c], p)
      BY <1>9, <1>12, <2>1 DEF Pointers
    <3> QED
      BY <1>3, <2>1, <3>1 DEF OwnIn
  <2>2. CASE x # q
    <3>1. x # p /\ Has(x, c) /\ ~Has(p, c) /\ OwnIn(curl[c], x)
      BY <1>9, <1>10, <1>12, <2>2 DEF Pointers
    <3> QED
      BY <1>3, <3>1 DEF OwnIn
  <2> QED
    BY <2>1, <2>2
<1> QED
  BY <1>5, <1>6, <1>8, <1>11, <1>12 DEF Inv, Pointers, LandsIn, SharesLive, OwnIn

LEMMA MoveEasyInv == ASSUME Inv, Pointers, NEW e \in Easies, NEW f \in Easies, MoveEasy(e, f) PROVE Inv' /\ Pointers'
<1>1. PICK c \in Curls : /\ H(e) = c /\ easy[e].h = c /\ easy[e].live /\ ~easy[f].live
                         /\ curl[c].live /\ curl[c] \in CurlRec /\ curl[c].private = e
  BY WorkingFacts DEF MoveEasy, Working, FreeEasy
<1> DEFINE own == InPack(c)
           r == [curl[c] EXCEPT !.private = f, !.left = curl[c].left \union own, !.dropped = curl[c].dropped \ {"head", "list"}]
<1>2. curl' = [curl EXCEPT ![c] = r]
  BY <1>1 DEF MoveEasy, CurlRec, Inv, TypeInv, CurlType
<1>0. easy' = [easy EXCEPT ![f] = easy[e], ![e] = [@ EXCEPT !.h = None, !.data = None]]
  BY DEF MoveEasy
<1>3. UNCHANGED <<pack, queue, share>>
  BY DEF MoveEasy
<1>4. own = {x \in {"head", "list"} : curl[c][x] \in Packs}
  BY DEF InPack
<1> HIDE DEF own
<1>5. /\ r \in CurlRec /\ r.live /\ r.private = f /\ r.multi = curl[c].multi /\ Userdata(r) = Userdata(curl[c])
      /\ LandsIn(r, {None}) /\ SharesLive(r)
  <2>1. own \subseteq {"head", "list"} /\ (curl[c].head \in Packs => "head" \in own) /\ (curl[c].list \in Packs => "list" \in own)
    BY <1>4
  <2>2. LandsIn(curl[c], Mine(c)) /\ SharesLive(curl[c]) /\ Mine(c) \subseteq {None} \union Packs
    BY <1>1 DEF Pointers, Mine
  <2>3. /\ r \in CurlRec /\ r.live /\ r.private = f /\ r.multi = curl[c].multi /\ r.shared = curl[c].shared
        /\ r.given = curl[c].given /\ r.dropped = curl[c].dropped \ {"head", "list"} /\ r.left = curl[c].left \union own
        /\ r.head = curl[c].head /\ r.list = curl[c].list /\ r.write = curl[c].write
    BY <1>1, <2>1 DEF CurlRec, Fields
  <2> HIDE DEF r
  <2> QED
    BY <2>1, <2>2, <2>3 DEF Userdata, LandsIn, SharesLive
<1> HIDE DEF r
<1>6. CurlType' /\ curl'[c] = r /\ \A x \in Curls \ {c} : curl'[x] = curl[x]
  BY <1>1, <1>2, <1>5, Updated DEF Inv, TypeInv
<1>7. /\ EasyType' /\ e # f /\ easy'[f] = easy[e] /\ easy'[e].h = None /\ easy'[e].live
      /\ \A x \in Easies \ {e, f} : easy'[x] = easy[x]
  BY <1>0, <1>1 DEF Inv, TypeInv, EasyType
<1>8. TypeInv'
  BY <1>3, <1>6, <1>7 DEF Inv, TypeInv, PackType
<1>9. \A x \in Curls : curl[x].live => curl[x].private \in Easies \ {f} /\ (curl[x].private = e => x = c)
  BY <1>1, NoNames DEF Inv, TypeInv, CurlType, CurlRec, Owners
<1>10. Owners'
  <2>1. ASSUME NEW x \in Easies, easy'[x].h # None
        PROVE  easy'[x].live /\ curl'[easy'[x].h].live /\ curl'[easy'[x].h].private = x
    <3>1. CASE x = f
      BY <1>1, <1>5, <1>6, <1>7, <3>1
    <3>2. CASE x # f /\ x # e
      <4>1. easy[x].h \in Curls \ {c}
        BY <1>1, <1>7, <2>1, <3>2 DEF Inv, TypeInv, EasyType, Owners
      <4> QED
        BY <1>6, <1>7, <2>1, <3>2, <4>1 DEF Inv, Owners
    <3> QED
      BY <1>7, <2>1, <3>1, <3>2
  <2>2. ASSUME NEW x \in Curls, curl'[x].live PROVE curl'[x].private \in Easies /\ easy'[curl'[x].private].h = x
    <3>1. CASE x = c
      BY <1>1, <1>5, <1>6, <1>7, <3>1
    <3>2. CASE x # c
      BY <1>6, <1>7, <1>9, <2>2, <3>2 DEF Inv, Owners
    <3> QED
      BY <3>1, <3>2
  <2> QED
    BY <2>1, <2>2 DEF Owners
<1>11. \A p \in Packs : pack[p].e # None => pack[p].e \in Easies \ {f} /\ pack[p].live
  BY <1>1 DEF Inv, TypeInv, PackType, Packages
<1>12. Packages'
  BY <1>1, <1>3, <1>7, <1>11 DEF Inv, Packages
<1>13. Messages'
  <2>1. ASSUME NEW x \in Curls, curl'[x].multi # "out"
        PROVE  curl'[x].live /\ easy'[curl'[x].private].data = Userdata(curl'[x])
    <3>1. CASE x = c
      BY <1>1, <1>5, <1>6, <1>7, <2>1, <3>1 DEF Inv, Messages
    <3>2. CASE x # c
      BY <1>6, <1>7, <1>9, <2>1, <3>2 DEF Inv, Messages
    <3> QED
      BY <3>1, <3>2
  <2>2. ASSUME NEW x \in queue' PROVE curl'[x].multi # "out"
    BY <1>3, <1>5, <1>6, <2>2 DEF Inv, TypeInv, Messages
  <2> QED
    BY <2>1, <2>2 DEF Messages, Userdata
<1>14. \A p \in Packs : ~Has(p, c)' /\ \A x \in Curls \ {c} : Has(p, x)' <=> Has(p, x)
  <2> SUFFICES ASSUME NEW p \in Packs PROVE ~Has(p, c)' /\ \A x \in Curls \ {c} : Has(p, x)' <=> Has(p, x)
    OBVIOUS
  <2>1. CASE pack[p].e = None
    BY <1>3, <2>1 DEF Has, Full
  <2>2. CASE pack[p].e = e
    BY <1>1, <1>3, <1>7, <2>2, NoNames DEF Has, Full, PackCurl, H
  <2>3. CASE pack[p].e # None /\ pack[p].e # e
    <3>1. pack[p].e \in Easies \ {e, f} /\ easy[pack[p].e].h # c
      BY <1>1, <1>11, <2>3, NoNames DEF Inv, Owners
    <3> QED
      BY <1>3, <1>7, <3>1 DEF Has, Full, PackCurl, H
  <2> QED
    BY <2>1, <2>2, <2>3
<1>15. ASSUME NEW x \in Curls, curl'[x].live PROVE LandsIn(curl'[x], Mine(x)') /\ SharesLive(curl[x])'
  <2>1. CASE x = c
    <3>1. Mine(c)' = {None}
      BY <1>14 DEF Mine
    <3> QED
      BY <1>3, <1>5, <1>6, <2>1, <3>1 DEF SharesLive
  <2>2. CASE x # c
    <3>1. Mine(x)' = Mine(x)
      BY <1>14, <2>2 DEF Mine
    <3> QED
      BY <1>3, <1>6, <1>15, <2>2, <3>1 DEF Pointers, SharesLive
  <2> QED
    BY <2>1, <2>2
<1>16. ASSUME NEW p \in Packs, NEW x \in Curls, Has(p, x)' PROVE OwnIn(curl'[x], p)
  <2>1. x # c /\ Has(p, x)
    BY <1>14, <1>16
  <2> QED
    BY <1>6, <2>1 DEF Pointers
<1> QED
  BY <1>8, <1>10, <1>12, <1>13, <1>15, <1>16 DEF Inv, Pointers, LandsIn, SharesLive, OwnIn

LEMMA DeleteEasyInv == ASSUME Inv, Pointers, NEW e \in Easies, DeleteEasy(e) PROVE Inv' /\ Pointers'
<1>1. ~Heap(e) /\ easy' = [easy EXCEPT ![e] = NoEasy] /\ UNCHANGED <<pack, share>>
  BY DEF DeleteEasy
<1>2. /\ EasyType' /\ easy'[e] = NoEasy /\ NoEasy.h = None
      /\ \A x \in Easies \ {e} : easy'[x] = easy[x]
  BY <1>1 DEF Inv, TypeInv, EasyType, NoEasy
<1>3. /\ Off \in CurlRec /\ ~Off.live /\ Off.multi = "out"
  BY DEF Off, CurlRec, Fields, Phases
<1>4. /\ CurlType' /\ queue' \subseteq queue
      /\ \A x \in Curls : IF x = easy[e].h THEN curl'[x] = Off /\ x \notin queue' ELSE curl'[x] = curl[x]
  <2>1. CASE H(e) = None
    <3>1. curl' = curl /\ queue' = queue
      BY <2>1 DEF DeleteEasy
    <3> QED
      BY <2>1, <3>1, NoNames DEF H, Inv, TypeInv, CurlType
  <2>2. CASE H(e) # None
    <3>1. curl' = [curl EXCEPT ![H(e)] = Off] /\ queue' = queue \ {H(e)}
      BY <2>2 DEF DeleteEasy, Without
    <3>2. H(e) \in Curls
      BY <2>2 DEF H, Inv, TypeInv, EasyType
    <3>3. CurlType' /\ curl'[H(e)] = Off /\ \A x \in Curls \ {H(e)} : curl'[x] = curl[x]
      BY <1>3, <3>1, <3>2, Updated DEF Inv, TypeInv
    <3> QED
      BY <3>1, <3>3 DEF H
  <2> QED
    BY <2>1, <2>2
<1>5. TypeInv'
  BY <1>1, <1>2, <1>4 DEF Inv, TypeInv, PackType
<1>6. \A x \in Easies \ {e} : easy[x].h # None => easy[x].h \in Curls /\ easy[x].h # easy[e].h
  BY DEF Inv, TypeInv, EasyType, Owners
<1>7. \A x \in Curls : curl[x].live /\ x # easy[e].h => curl[x].private \in Easies \ {e}
  BY DEF Inv, Owners
<1>8. Owners'
  BY <1>2, <1>3, <1>4, <1>6, <1>7 DEF Inv, Owners
<1>9. \A p \in Packs : pack[p].e # None => pack[p].e \in Easies \ {e}
  BY <1>1 DEF Heap, Inv, TypeInv, PackType
<1>10. Packages'
  BY <1>1, <1>2, <1>9 DEF Inv, Packages
<1>11. Messages'
  <2>1. \A x \in queue' : curl'[x].multi # "out"
    BY <1>4 DEF Inv, TypeInv, Messages
  <2>2. \A x \in Curls : curl'[x].multi # "out" => curl'[x].live /\ easy'[curl'[x].private].data = Userdata(curl'[x])
    BY <1>2, <1>3, <1>4, <1>7 DEF Inv, Messages
  <2> QED
    BY <2>1, <2>2 DEF Messages, Userdata
<1>12. \A p \in Packs, x \in Curls : Has(p, x)' <=> Has(p, x)
  BY <1>1, <1>2, <1>9 DEF Has, Full, PackCurl, H
<1>13. \A p \in Packs, x \in Curls : Has(p, x) => x # easy[e].h
  BY <1>6, <1>9, NoNames DEF Has, Full, PackCurl, H
<1>14. ASSUME NEW x \in Curls, curl'[x].live PROVE LandsIn(curl'[x], Mine(x)') /\ SharesLive(curl[x])'
  <2>1. Mine(x)' = Mine(x)
    BY <1>12 DEF Mine
  <2> QED
    BY <1>1, <1>3, <1>4, <1>14, <2>1 DEF Pointers, SharesLive
<1>15. ASSUME NEW p \in Packs, NEW x \in Curls, Has(p, x)' PROVE OwnIn(curl'[x], p)
  BY <1>4, <1>12, <1>13, <1>15 DEF Pointers
<1> QED
  BY <1>5, <1>8, <1>10, <1>11, <1>14, <1>15 DEF Inv, Pointers, LandsIn, SharesLive, OwnIn

LEMMA DeletePackageInv == ASSUME Inv, Pointers, NEW p \in Packs, DeletePackage(p) PROVE Inv' /\ Pointers'
<1>1. /\ pack[p].live /\ UNCHANGED share
      /\ pack' = [pack EXCEPT ![p] = NoPack]
      /\ queue' = {c \in queue : ~Has(p, c)}
  BY DEF DeletePackage
<1>2. /\ EasyType' /\ \A x \in Easies : IF x = pack[p].e THEN easy'[x] = NoEasy ELSE easy'[x] = easy[x]
      /\ NoEasy.h = None
  BY DEF DeletePackage, Inv, TypeInv, EasyType, NoEasy
<1>3. PackType' /\ pack'[p].e = None /\ \A x \in Packs \ {p} : pack'[x] = pack[x]
  BY <1>1 DEF Inv, TypeInv, PackType, NoPack
<1>4. ASSUME NEW c \in Curls, Has(p, c) PROVE curl'[c] \in CurlRec /\ ~curl'[c].live /\ curl'[c].multi = "out"
  <2>1. curl'[c] = Off
    BY <1>4 DEF DeletePackage
  <2> QED
    BY <2>1 DEF Off, CurlRec, Fields, Phases
<1>5. ASSUME NEW c \in Curls, ~Has(p, c)
      PROVE  /\ curl'[c] \in CurlRec
             /\ curl'[c].live = curl[c].live /\ curl'[c].private = curl[c].private /\ curl'[c].multi = curl[c].multi
             /\ curl'[c].write = curl[c].write /\ curl'[c].shared = curl[c].shared
             /\ curl'[c].left = curl[c].left /\ curl'[c].dropped = curl[c].dropped /\ curl'[c].given = curl[c].given
             /\ curl'[c].head = IF curl[c].head = p THEN Gone ELSE curl[c].head
             /\ curl'[c].list = IF curl[c].list = p THEN Gone ELSE curl[c].list
  <2>1. curl[c] \in CurlRec
    BY DEF Inv, TypeInv, CurlType
  <2> DEFINE h == IF curl[c].head = p THEN Gone ELSE curl[c].head
             l == IF curl[c].list = p THEN Gone ELSE curl[c].list
  <2>2. h \in Packs \union {None, Gone} /\ l \in Packs \union {None, Gone}
    BY <2>1 DEF CurlRec
  <2>3. curl'[c] = [curl[c] EXCEPT !.head = h, !.list = l]
    BY <1>5, <2>1 DEF DeletePackage, CurlRec
  <2> HIDE DEF h, l
  <2>4. /\ curl'[c] \in CurlRec
        /\ curl'[c].live = curl[c].live /\ curl'[c].private = curl[c].private /\ curl'[c].multi = curl[c].multi
        /\ curl'[c].write = curl[c].write /\ curl'[c].shared = curl[c].shared
        /\ curl'[c].left = curl[c].left /\ curl'[c].dropped = curl[c].dropped /\ curl'[c].given = curl[c].given
        /\ curl'[c].head = h /\ curl'[c].list = l
    BY <2>1, <2>2, <2>3 DEF CurlRec
  <2> QED
    BY <2>4 DEF h, l
<1>6. CurlType'
  <2>1. curl' = [c \in Curls |-> curl'[c]]
    BY DEF DeletePackage
  <2> QED
    BY <1>4, <1>5, <2>1 DEF CurlType
<1>7. TypeInv'
  BY <1>1, <1>2, <1>3, <1>6 DEF Inv, TypeInv
<1>8. \A c \in Curls : curl[c].live /\ ~Has(p, c) => curl[c].private \in Easies /\ curl[c].private # pack[p].e
  BY <1>1, NoNames DEF Inv, TypeInv, EasyType, Owners, Has, Full, PackCurl, H
<1>9. \A x \in Easies : x # pack[p].e /\ easy[x].h # None => easy[x].h \in Curls /\ ~Has(p, easy[x].h)
  BY HasFacts DEF Inv, TypeInv, EasyType, Owners
<1>10. Owners'
  <2>1. ASSUME NEW x \in Easies, easy'[x].h # None
        PROVE  easy'[x].live /\ curl'[easy'[x].h].live /\ curl'[easy'[x].h].private = x
    <3>1. x # pack[p].e /\ easy'[x] = easy[x] /\ easy[x].h # None
      BY <1>2, <2>1
    <3> QED
      BY <1>5, <1>9, <3>1 DEF Inv, Owners
  <2>2. ASSUME NEW c \in Curls, curl'[c].live PROVE curl'[c].private \in Easies /\ easy'[curl'[c].private].h = c
    <3>1. ~Has(p, c) /\ curl[c].live
      BY <1>4, <1>5, <2>2
    <3> QED
      BY <1>2, <1>5, <1>8, <3>1 DEF Inv, Owners
  <2> QED
    BY <2>1, <2>2 DEF Owners
<1>11. \A x \in Packs \ {p} : pack[x].e # None => pack[x].e \in Easies /\ pack[x].e # pack[p].e
  BY DEF Inv, TypeInv, PackType, Packages
<1>12. Packages'
  BY <1>2, <1>3, <1>11 DEF Inv, Packages
<1>13. Messages'
  <2>1. ASSUME NEW c \in queue' PROVE curl'[c].multi # "out"
    BY <1>1, <1>5, <2>1 DEF Inv, TypeInv, Messages
  <2>2. ASSUME NEW c \in Curls, curl'[c].multi # "out"
        PROVE  curl'[c].live /\ easy'[curl'[c].private].data = Userdata(curl'[c])
    <3>1. ~Has(p, c) /\ curl[c].multi # "out"
      BY <1>4, <1>5, <2>2
    <3>2. curl[c].live /\ easy[curl[c].private].data = Userdata(curl[c])
      BY <3>1 DEF Inv, Messages
    <3>3. Userdata(curl'[c]) = Userdata(curl[c])
      BY <1>5, <3>1 DEF Userdata
    <3> QED
      BY <1>2, <1>5, <1>8, <3>1, <3>2, <3>3
  <2> QED
    BY <2>1, <2>2 DEF Messages, Userdata
<1>14. \A x \in Packs, c \in Curls : Has(x, c)' <=> x # p /\ Has(x, c)
  <2> SUFFICES ASSUME NEW x \in Packs PROVE \A c \in Curls : Has(x, c)' <=> x # p /\ Has(x, c)
    OBVIOUS
  <2>1. CASE x = p \/ pack[x].e = None
    BY <1>3, <2>1 DEF Has, Full
  <2>2. CASE x # p /\ pack[x].e # None
    <3>1. easy'[pack[x].e] = easy[pack[x].e]
      BY <1>2, <1>11, <2>2
    <3> QED
      BY <1>3, <2>2, <3>1 DEF Has, Full, PackCurl, H
  <2> QED
    BY <2>1, <2>2
<1>15. \A x \in Packs \ {p}, c \in Curls : Has(x, c) => ~Has(p, c)
  BY <1>11, HasFacts, NoNames DEF Inv, TypeInv, PackType
<1>16. ASSUME NEW c \in Curls, curl'[c].live PROVE LandsIn(curl'[c], Mine(c)') /\ SharesLive(curl[c])'
  <2>1. ~Has(p, c) /\ curl[c].live
    BY <1>4, <1>5, <1>16
  <2>2. LandsIn(curl[c], Mine(c)) /\ SharesLive(curl[c])
    BY <2>1 DEF Pointers
  <2>3. \A x \in Packs : Has(x, c)' <=> Has(x, c)
    BY <1>14, <2>1
  <2>4. Mine(c)' = Mine(c)
    BY <2>3 DEF Mine
  <2>5. LandsIn(curl'[c], Mine(c))
    BY <1>5, <2>1, <2>2, OthersLeft DEF LandsIn
  <2>6. SharesLive(curl[c])'
    BY <1>1, <1>5, <2>1, <2>2 DEF SharesLive
  <2> QED
    BY <2>4, <2>5, <2>6
<1>17. ASSUME NEW x \in Packs, NEW c \in Curls, Has(x, c)' PROVE OwnIn(curl'[c], x)
  <2>1. x # p /\ Has(x, c) /\ ~Has(p, c)
    BY <1>14, <1>15, <1>17
  <2>2. OwnIn(curl[c], x)
    BY <2>1 DEF Pointers
  <2> QED
    BY <1>5, <2>1, <2>2 DEF OwnIn
<1> QED
  BY <1>7, <1>10, <1>12, <1>13, <1>16, <1>17 DEF Inv, Pointers, LandsIn, SharesLive, OwnIn

\* A new Easy with a new handle, whose options are those of no other.
LEMMA Made ==
  ASSUME Inv, NEW e \in Easies, NEW c \in Curls, NEW options \in CurlRec, Make(e, c, options),
         options.multi = "out", UNCHANGED <<queue, share>>
  PROVE  /\ EasyType' /\ CurlType' /\ queue' \in SUBSET Curls /\ share' \in BOOLEAN
         /\ Owners' /\ Messages'
         /\ easy'[e].h = c /\ easy'[e].live /\ ~easy[e].live /\ \A x \in Easies \ {e} : easy'[x] = easy[x]
         /\ \A x \in Curls \ {c} : curl'[x] = curl[x]
         /\ curl'[c].head = options.head /\ curl'[c].list = options.list
         /\ curl'[c].write = options.write /\ curl'[c].shared = options.shared /\ curl'[c].left = options.left
         /\ \A p \in Packs : ~Has(p, c)
         /\ \A p \in Packs : pack[p].e # None => pack[p].e \in Easies \ {e}
<1>1. ~easy[e].live /\ ~curl[c].live
  BY DEF Make, FreeEasy, FreeCurl
<1>2. PICK r \in CurlRec :
     /\ curl' = [curl EXCEPT ![c] = r]
     /\ r.live /\ r.private = e /\ r.multi = "out"
     /\ r.head = options.head /\ r.list = options.list
     /\ r.write = options.write /\ r.shared = options.shared /\ r.left = options.left
  <2> DEFINE r0 == [options EXCEPT !.live = TRUE, !.private = e]
  <2>1. r0 \in CurlRec
    BY DEF CurlRec
  <2>2. /\ r0.live /\ r0.private = e /\ r0.multi = "out"
        /\ r0.head = options.head /\ r0.list = options.list
        /\ r0.write = options.write /\ r0.shared = options.shared /\ r0.left = options.left
    BY DEF CurlRec
  <2>3. curl' = [curl EXCEPT ![c] = r0]
    BY DEF Make
  <2> QED
    BY <2>1, <2>2, <2>3
<1>3. CurlType' /\ curl'[c] = r /\ \A x \in Curls \ {c} : curl'[x] = curl[x]
  BY <1>2, Updated DEF Inv, TypeInv
<1>4. /\ EasyType' /\ easy'[e].h = c /\ easy'[e].live
      /\ \A x \in Easies \ {e} : easy'[x] = easy[x]
  BY DEF Make, Inv, TypeInv, EasyType
<1>5. queue' = queue /\ queue \in SUBSET Curls /\ share' \in BOOLEAN
  BY DEF Inv, TypeInv
<1>6. \A x \in Easies : easy[x].h # None => x # e /\ easy[x].h \in Curls \ {c}
  BY <1>1 DEF Inv, TypeInv, EasyType, Owners
<1>7. \A x \in Curls : curl[x].live => x # c /\ curl[x].private \in Easies \ {e}
  BY <1>1, <1>6, NoNames DEF Inv, Owners
<1>8. Owners'
  <2>1. ASSUME NEW x \in Easies, easy'[x].h # None
        PROVE  easy'[x].live /\ curl'[easy'[x].h].live /\ curl'[easy'[x].h].private = x
    <3>1. CASE x = e
      BY <1>2, <1>3, <1>4, <3>1
    <3>2. CASE x # e
      BY <1>3, <1>4, <1>6, <2>1, <3>2 DEF Inv, Owners
    <3> QED
      BY <3>1, <3>2
  <2>2. ASSUME NEW x \in Curls, curl'[x].live
        PROVE  curl'[x].private \in Easies /\ easy'[curl'[x].private].h = x
    <3>1. CASE x = c
      BY <1>2, <1>3, <1>4, <3>1
    <3>2. CASE x # c
      BY <1>3, <1>4, <1>7, <2>2, <3>2 DEF Inv, Owners
    <3> QED
      BY <3>1, <3>2
  <2> QED
    BY <2>1, <2>2 DEF Owners
<1>9. Messages'
  <2>1. \A x \in queue' : x # c /\ curl'[x].multi # "out"
    BY <1>1, <1>3, <1>5 DEF Inv, Messages
  <2>2. \A x \in Curls : curl'[x].multi # "out" => curl'[x].live /\ easy'[curl'[x].private].data = Userdata(curl'[x])
    BY <1>2, <1>3, <1>4, <1>7 DEF Inv, Messages
  <2> QED
    BY <2>1, <2>2 DEF Messages, Userdata
<1>10. \A p \in Packs : pack[p].e # None => pack[p].e \in Easies \ {e}
  BY <1>1 DEF Inv, TypeInv, PackType, Packages
<1>11. \A p \in Packs : ~Has(p, c)
  BY <1>1, HasFacts
<1> QED
  BY <1>1, <1>2, <1>3, <1>4, <1>5, <1>8, <1>9, <1>10, <1>11

\* The options of a copy.
LEMMA Copied == ASSUME Inv, NEW c \in Curls
  PROVE /\ Dup(c) \in CurlRec /\ Dup(c).multi = "out" /\ ~Dup(c).shared
        /\ Dup(c).head = curl[c].head /\ Dup(c).list = curl[c].list /\ Dup(c).write = curl[c].write
        /\ \A f \in {"head", "list", "write"} : f \in Dup(c).left <=> f \in curl[c].left
<1>1. curl[c] \in CurlRec
  BY DEF Inv, TypeInv, CurlType
<1>2. Dup(c) = [curl[c] EXCEPT !.shared = FALSE, !.multi = "out", !.given = None,
                               !.left = curl[c].left \ {"share"}, !.dropped = {}]
  BY DEF Dup
<1> DEFINE l == curl[c].left \ {"share"}
<1>3. l \in SUBSET Fields
  BY <1>1 DEF CurlRec
<1>4. \A f \in {"head", "list", "write"} : f \in l <=> f \in curl[c].left
  OBVIOUS
<1>5. {} \in SUBSET Fields
  OBVIOUS
<1> HIDE DEF l
<1>6. Dup(c) = [curl[c] EXCEPT !.shared = FALSE, !.multi = "out", !.given = None, !.left = l, !.dropped = {}]
  BY <1>2 DEF l
<1>7. /\ Dup(c).multi = "out" /\ ~Dup(c).shared
      /\ Dup(c).head = curl[c].head /\ Dup(c).list = curl[c].list /\ Dup(c).write = curl[c].write
      /\ Dup(c).left = l
  BY <1>1, <1>6 DEF CurlRec
<1>8. Dup(c) \in CurlRec
  BY <1>1, <1>3, <1>5, <1>6 DEF CurlRec, Phases
<1> QED
  BY <1>4, <1>7, <1>8

LEMMA PackedOptions == ASSUME NEW options \in CurlRec, NEW p \in Packs
  PROVE /\ Packed(options, p) \in CurlRec /\ Packed(options, p).multi = options.multi
        /\ Packed(options, p).shared = options.shared /\ Packed(options, p).write = options.write
        /\ Packed(options, p).head = p /\ Packed(options, p).list = p
        /\ "write" \in Packed(options, p).left <=> "write" \in options.left
<1>1. Packed(options, p) = [options EXCEPT !.head = p, !.list = p, !.left = options.left \ {"head", "list"}]
  BY DEF Packed
<1> QED
  BY <1>1 DEF CurlRec, Fields

\* An Easy that is in no package: the same packages stand.
LEMMA MadeAlone ==
  ASSUME Inv, Pointers, NEW e \in Easies, NEW c \in Curls, NEW options \in CurlRec, Make(e, c, options),
         options.multi = "out", ~options.shared, UNCHANGED <<pack, queue, share>>, LandsIn(options, {None})
  PROVE  Inv' /\ Pointers'
<1>1. /\ EasyType' /\ CurlType' /\ queue' \in SUBSET Curls /\ share' \in BOOLEAN
      /\ Owners' /\ Messages'
      /\ ~easy[e].live /\ \A x \in Easies \ {e} : easy'[x] = easy[x]
      /\ \A x \in Curls \ {c} : curl'[x] = curl[x]
      /\ curl'[c].head = options.head /\ curl'[c].list = options.list
      /\ curl'[c].write = options.write /\ curl'[c].shared = options.shared /\ curl'[c].left = options.left
      /\ \A p \in Packs : ~Has(p, c)
      /\ \A p \in Packs : pack[p].e # None => pack[p].e \in Easies \ {e}
  BY Made
<1>2. TypeInv' /\ Packages'
  BY <1>1 DEF Inv, TypeInv, PackType, Packages
<1>3. \A p \in Packs, x \in Curls : Has(p, x)' <=> Has(p, x)
  BY <1>1 DEF Has, Full, PackCurl, H
<1>4. \A x \in Curls : Mine(x)' = Mine(x)
  BY <1>3 DEF Mine
<1>5. ASSUME NEW x \in Curls, curl'[x].live PROVE LandsIn(curl'[x], Mine(x)') /\ SharesLive(curl[x])'
  <2>1. CASE x = c
    <3>1. None \in Mine(c)'
      BY DEF Mine
    <3> QED
      BY <1>1, <2>1, <3>1 DEF LandsIn, SharesLive
  <2>2. CASE x # c
    BY <1>1, <1>4, <1>5, <2>2 DEF Pointers, SharesLive
  <2> QED
    BY <2>1, <2>2
<1>6. ASSUME NEW p \in Packs, NEW x \in Curls, Has(p, x)' PROVE OwnIn(curl'[x], p)
  BY <1>1, <1>3, <1>6 DEF Pointers
<1> QED
  BY <1>1, <1>2, <1>5, <1>6 DEF Inv, Pointers, LandsIn, SharesLive, OwnIn

\* An Easy in a package of its own.
LEMMA MadePackage ==
  ASSUME Inv, Pointers, NEW e \in Easies, NEW c \in Curls, NEW q \in Packs, NEW options \in CurlRec, Make(e, c, options),
         ~pack[q].live, pack' = [pack EXCEPT ![q] = [live |-> TRUE, e |-> e]], UNCHANGED <<queue, share>>,
         options.multi = "out", ~options.shared, options.head = q, options.list = q,
         "write" \notin options.left => options.write = None
  PROVE  Inv' /\ Pointers'
<1>1. /\ EasyType' /\ CurlType' /\ queue' \in SUBSET Curls /\ share' \in BOOLEAN
      /\ Owners' /\ Messages'
      /\ easy'[e].h = c /\ easy'[e].live /\ \A x \in Easies \ {e} : easy'[x] = easy[x]
      /\ \A x \in Curls \ {c} : curl'[x] = curl[x]
      /\ curl'[c].head = options.head /\ curl'[c].list = options.list
      /\ curl'[c].write = options.write /\ curl'[c].shared = options.shared /\ curl'[c].left = options.left
      /\ \A p \in Packs : ~Has(p, c)
      /\ \A p \in Packs : pack[p].e # None => pack[p].e \in Easies \ {e}
  BY Made
<1>2. /\ PackType' /\ pack'[q].live /\ pack'[q].e = e
      /\ \A x \in Packs \ {q} : pack'[x] = pack[x]
  BY DEF Inv, TypeInv, PackType
<1>3. \A x \in Curls : Has(q, x)' <=> x = c
  BY <1>1, <1>2, NoNames DEF Has, Full, PackCurl, H
<1>4. \A p \in Packs \ {q}, x \in Curls : Has(p, x)' <=> Has(p, x)
  BY <1>1, <1>2 DEF Has, Full, PackCurl, H
<1>5. \A x \in Curls : ~Has(q, x)
  BY DEF Has, Full
<1>6. TypeInv' /\ Packages'
  <2>1. ASSUME NEW x \in Packs, pack'[x].e # None PROVE pack'[x].live /\ easy'[pack'[x].e].live
    <3>1. CASE x = q
      BY <1>1, <1>2, <3>1
    <3>2. CASE x # q
      BY <1>1, <1>2, <2>1, <3>2 DEF Inv, Packages
    <3> QED
      BY <3>1, <3>2
  <2>2. ASSUME NEW x \in Packs, NEW y \in Packs, pack'[x].e # None, pack'[x].e = pack'[y].e PROVE x = y
    BY <1>1, <1>2, <2>2 DEF Inv, Packages
  <2> QED
    BY <1>1, <1>2, <2>1, <2>2 DEF TypeInv, Packages
<1>7. ASSUME NEW x \in Curls, curl'[x].live PROVE LandsIn(curl'[x], Mine(x)') /\ SharesLive(curl[x])'
  <2>1. CASE x = c
    <3>1. q \in Mine(c)'
      BY <1>3 DEF Mine
    <3> QED
      BY <1>1, <2>1, <3>1 DEF LandsIn, SharesLive
  <2>2. CASE x # c
    <3>1. \A p \in Packs : Has(p, x)' <=> Has(p, x)
      BY <1>3, <1>4, <1>5, <2>2
    <3>2. Mine(x)' = Mine(x)
      BY <3>1 DEF Mine
    <3> QED
      BY <1>1, <1>7, <2>2, <3>2 DEF Pointers, SharesLive
  <2> QED
    BY <2>1, <2>2
<1>8. ASSUME NEW p \in Packs, NEW x \in Curls, Has(p, x)' PROVE OwnIn(curl'[x], p)
  <2>1. CASE p = q
    BY <1>1, <1>3, <1>8, <2>1 DEF OwnIn
  <2>2. CASE p # q
    BY <1>1, <1>4, <1>8, <2>2 DEF Pointers
  <2> QED
    BY <2>1, <2>2
<1> QED
  BY <1>1, <1>6, <1>7, <1>8 DEF Inv, Pointers, LandsIn, SharesLive, OwnIn

LEMMA NewEasyInv == ASSUME Inv, Pointers, NEW e \in Easies, NEW c \in Curls, NewEasy(e, c) PROVE Inv' /\ Pointers'
<1>1. Off \in CurlRec /\ Off.multi = "out" /\ ~Off.shared /\ LandsIn(Off, {None})
  BY DEF Off, CurlRec, Fields, Phases, LandsIn
<1>2. Make(e, c, Off) /\ UNCHANGED <<pack, queue, share>>
  BY DEF NewEasy
<1> QED
  BY <1>1, <1>2, MadeAlone

LEMMA CopyEasyInv == ASSUME Inv, Pointers, NEW f \in Easies, NEW e \in Easies, NEW c \in Curls, CopyEasy(f, e, c) PROVE Inv' /\ Pointers'
<1> DEFINE from == H(f)
           copy == Dup(from)
           own == InPack(from)
           options == [copy EXCEPT !.left = copy.left \union own]
<1>1. from \in Curls /\ curl[from].live
  BY WorkingFacts DEF CopyEasy
<1>2. LandsIn(curl[from], Mine(from)) /\ Mine(from) \subseteq {None} \union Packs
  BY <1>1 DEF Pointers, Mine
<1>3. /\ copy \in CurlRec /\ copy.multi = "out" /\ ~copy.shared
      /\ copy.head = curl[from].head /\ copy.list = curl[from].list /\ copy.write = curl[from].write
      /\ \A x \in {"head", "list", "write"} : x \in copy.left <=> x \in curl[from].left
  BY <1>1, Copied
<1>4. /\ own \subseteq {"head", "list"}
      /\ curl[from].head \in Packs => "head" \in own
      /\ curl[from].list \in Packs => "list" \in own
  BY DEF InPack
<1>5. Make(e, c, options) /\ UNCHANGED <<pack, queue, share>>
  BY DEF CopyEasy
<1> HIDE DEF from, copy, own
<1>6. /\ options \in CurlRec /\ options.multi = "out" /\ ~options.shared
      /\ options.head = copy.head /\ options.list = copy.list /\ options.write = copy.write
      /\ options.left = copy.left \union own
  BY <1>3, <1>4 DEF CurlRec, Fields
<1> HIDE DEF options
<1>7. LandsIn(options, {None})
  BY <1>2, <1>3, <1>4, <1>6 DEF LandsIn
<1> QED
  BY <1>5, <1>6, <1>7, MadeAlone

\* A package of a copy, whichever Easy it is a copy of.
LEMMA PackedCopy ==
  ASSUME Inv, Pointers, NEW x \in Curls, curl[x].live, NEW e \in Easies, NEW c \in Curls, NEW q \in Packs,
         Make(e, c, Packed(Dup(x), q)), ~pack[q].live, pack' = [pack EXCEPT ![q] = [live |-> TRUE, e |-> e]],
         UNCHANGED <<queue, share>>
  PROVE  Inv' /\ Pointers'
<1> DEFINE copy == Dup(x)  options == Packed(copy, q)
<1>1. "write" \notin curl[x].left => curl[x].write = None
  BY DEF Pointers, LandsIn
<1>2. copy \in CurlRec /\ copy.multi = "out" /\ ~copy.shared /\ ("write" \notin copy.left => copy.write = None)
  BY <1>1, Copied
<1> HIDE DEF copy
<1>3. /\ options \in CurlRec /\ options.multi = "out" /\ ~options.shared /\ options.head = q /\ options.list = q
      /\ "write" \notin options.left => options.write = None
  BY <1>2, PackedOptions
<1>4. Make(e, c, options)
  BY DEF copy
<1> HIDE DEF options
<1> QED
  BY <1>3, <1>4, MadePackage
LEMMA CreateInv == ASSUME Inv, Pointers, NEW f \in Easies, NEW p \in Packs, NEW e \in Easies, NEW c \in Curls, Create(f, p, e, c) PROVE Inv' /\ Pointers'
  BY WorkingFacts, PackedCopy DEF Create
LEMMA CopyPackageInv == ASSUME Inv, Pointers, NEW p \in Packs, NEW q \in Packs, NEW e \in Easies, NEW c \in Curls, CopyPackage(p, q, e, c) PROVE Inv' /\ Pointers'
  BY FullFacts, PackedCopy DEF CopyPackage

LEMMA InitInv == ASSUME Init PROVE Inv /\ Pointers
<1>1. TypeInv
  BY DEF Init, TypeInv, EasyType, PackType, CurlType, NoEasy, NoPack, Off, CurlRec, Fields, Phases
<1>2. /\ \A e \in Easies : easy[e].h = None
      /\ \A p \in Packs : ~pack[p].live /\ pack[p].e = None
      /\ \A c \in Curls : ~curl[c].live /\ curl[c].multi = "out"
      /\ queue = {}
  BY DEF Init, NoEasy, NoPack, Off
<1> QED
  BY <1>1, <1>2 DEF Inv, Owners, Packages, Messages, Pointers, Has, Full

LEMMA NextInv == ASSUME Inv, Pointers, [Next]_vars PROVE Inv' /\ Pointers'
<1>1. CASE UNCHANGED vars
  <2>1. UNCHANGED <<easy, pack, curl, queue, share>>
    BY <1>1 DEF vars
  <2>2. Inv'
    BY <2>1 DEF Inv, TypeInv, EasyType, PackType, CurlType, Owners, Packages, Messages, Userdata
  <2>3. Pointers'
    BY <2>1 DEF Pointers, LandsIn, SharesLive, OwnIn, Mine, Has, Full, PackCurl, H
  <2> QED
    BY <2>2, <2>3
<1>2. CASE RemoveHeader
  BY <1>2, RemoveHeaderInv
<1>3. CASE GetMsg
  BY <1>3, GetMsgInv
<1>4. CASE DeleteShare
  BY <1>4, DeleteShareInv
<1>5. ASSUME NEW c \in Curls, Done(c) PROVE Inv' /\ Pointers'
  BY <1>5, DoneInv
<1>6. ASSUME NEW p \in Packs, DeletePackage(p) PROVE Inv' /\ Pointers'
  BY <1>6, DeletePackageInv
<1>7. ASSUME NEW p \in Packs, Content(p) PROVE Inv' /\ Pointers'
  BY <1>7, ContentInv
<1>8. ASSUME NEW p \in Packs, NEW q \in Packs, MovePackage(p, q) PROVE Inv' /\ Pointers'
  BY <1>8, MovePackageInv
<1>9. ASSUME NEW e \in Easies, DeleteEasy(e) PROVE Inv' /\ Pointers'
  BY <1>9, DeleteEasyInv
<1>10. ASSUME NEW e \in Easies, Reset(e) PROVE Inv' /\ Pointers'
  BY <1>10, ResetInv
<1>11. ASSUME NEW e \in Easies, SetOstream(e) PROVE Inv' /\ Pointers'
  BY <1>11, SetOstreamInv
<1>12. ASSUME NEW e \in Easies, NEW field \in {"head", "list"}, SetHeaders(e, field) PROVE Inv' /\ Pointers'
  BY <1>12, SetHeadersInv
<1>13. ASSUME NEW e \in Easies, RemoveHandle(e) PROVE Inv' /\ Pointers'
  BY <1>13, RemoveHandleInv
<1>14. ASSUME NEW e \in Easies, AttachShare(e) PROVE Inv' /\ Pointers'
  BY <1>14, AttachShareInv
<1>15. ASSUME NEW e \in Easies, NEW data \in Data, AddHandle(e, data) PROVE Inv' /\ Pointers'
  BY <1>15, AddHandleInv
<1>16. ASSUME NEW e \in Easies, NEW f \in Easies, MoveEasy(e, f) PROVE Inv' /\ Pointers'
  BY <1>16, MoveEasyInv
<1>17. ASSUME NEW e \in Easies, NEW c \in Curls, NewEasy(e, c) PROVE Inv' /\ Pointers'
  BY <1>17, NewEasyInv
<1>18. ASSUME NEW f \in Easies, NEW e \in Easies, NEW c \in Curls, CopyEasy(f, e, c) PROVE Inv' /\ Pointers'
  BY <1>18, CopyEasyInv
<1>19. ASSUME NEW f \in Easies, NEW p \in Packs, NEW e \in Easies, NEW c \in Curls, Create(f, p, e, c) PROVE Inv' /\ Pointers'
  BY <1>19, CreateInv
<1>20. ASSUME NEW p \in Packs, NEW q \in Packs, NEW e \in Easies, NEW c \in Curls, CopyPackage(p, q, e, c) PROVE Inv' /\ Pointers'
  BY <1>20, CopyPackageInv
<1> QED
  BY <1>1, <1>2, <1>3, <1>4, <1>5, <1>6, <1>7, <1>8, <1>9, <1>10, <1>11, <1>12, <1>13, <1>14, <1>15, <1>16, <1>17, <1>18, <1>19, <1>20 DEF Next

LEMMA Invariant == Spec => [](Inv /\ Pointers)
<1>1. Init => Inv /\ Pointers
  BY InitInv
<1>2. (Inv /\ Pointers) /\ [Next]_vars => (Inv /\ Pointers)'
  BY NextInv
<1> QED
  BY <1>1, <1>2, PTL DEF Spec

\* The message of every transfer finds the live Easy that holds its handle,
\* and the userdata add_handle() was last given for it, or none when the
\* handle was reset since; copies, moves and resets of a package's Easy and
\* a second add_handle() included (multi.cpp:80-85, 131-157, easy.cpp:19-64).
THEOREM MessagesReachOwner == Spec => []MessagesFindOwner
<1>1. Inv => MessagesFindOwner
  <2> SUFFICES ASSUME Inv, NEW c \in Curls, curl[c].multi # "out" \/ c \in queue
              PROVE  /\ curl[c].live /\ curl[c].multi # "out"
                     /\ easy[curl[c].private].live /\ easy[curl[c].private].h = c
                     /\ easy[curl[c].private].data = Userdata(curl[c])
    BY DEF MessagesFindOwner, Userdata
  <2>1. curl[c].live /\ curl[c].multi # "out" /\ easy[curl[c].private].data = Userdata(curl[c])
    BY DEF Inv, Messages
  <2>2. curl[c].private \in Easies /\ easy[curl[c].private].h = c
    BY <2>1 DEF Inv, Owners
  <2> QED
    BY <2>1, <2>2, NoNames DEF Inv, Owners
<1> QED
  BY <1>1, Invariant, PTL

\* A transfer touches only what is alive, and a package's own headers, but
\* for the pointers that the steps TransfersLand names leave behind, and
\* those of a package that the program takes back (factory.cpp, factory.hpp,
\* easy.cpp, headers.cpp, share.cpp).
THEOREM TransfersUseLiveObjects == Spec => []TransfersLand
<1>1. Inv /\ Pointers => TransfersLand
  <2> SUFFICES ASSUME Inv, Pointers PROVE TransfersLand
    OBVIOUS
  <2>1. ASSUME NEW c \in Curls, curl[c].live
        PROVE  /\ \A f \in {"head", "list", "write"} \ curl[c].left : curl[c][f] \in {None} \union {p \in Packs : Has(p, c)}
               /\ curl[c].shared => share \/ "share" \in curl[c].left
    BY <2>1 DEF Pointers, LandsIn, SharesLive, Mine
  <2>2. ASSUME NEW p \in Packs, NEW c \in Curls, Has(p, c)
        PROVE  \A f \in {"head", "list"} : curl[c][f] = p \/ f \in curl[c].left \union curl[c].dropped
    BY <2>2 DEF Pointers, OwnIn
  <2> QED
    BY <2>1, <2>2 DEF TransfersLand
<1> QED
  BY <1>1, Invariant, PTL
=============================================================================
