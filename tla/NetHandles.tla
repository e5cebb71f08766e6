----------------------------- MODULE NetHandles -----------------------------
(***************************************************************************)
(* Box::Net around libcurl.  A curl handle keeps raw pointers into C++      *)
(* objects: to its Easy (CURLOPT_PRIVATE), to the Headers that receive the *)
(* response, to the list of request headers and to what the body is        *)
(* written to.  Easy, EasyPackage and EasyFactory copy, clone and move     *)
(* around those pointers (src/src/net/easy.cpp, factory.cpp); Multi reads  *)
(* them back when a transfer is done (multi.cpp); Share lends its mutexes  *)
(* (share.cpp).                                                            *)
(*                                                                         *)
(* Steps of the code leave a pointer of a live handle behind, and others   *)
(* drop one that a package set: two history fields of a handle, `left' and *)
(* `dropped', name the pointers it happened to since they were last set.   *)
(* No guard reads them; the properties name the steps and except them.     *)
(* The program uses no Easy that was moved from but to destroy it.         *)
(***************************************************************************)
EXTENDS FiniteSets, Naturals

CONSTANTS Easies,   \* addresses of Easy objects
          Packs,    \* addresses of EasyPackage objects
          Curls,    \* curl handles
          Data,     \* what add_handle() is given as userdata
          MaxAttached  \* bound: the handles that are attached to the Share at a time

None == "none"      \* no object, or for an option one of the program that outlives the handle
Gone == "gone"      \* an object that is not there any more
ASSUME NoNames == {None, Gone} \intersect (Easies \union Packs \union Curls) = {}
Off    == [live |-> FALSE, private |-> None, head |-> None, list |-> None, write |-> None,
           shared |-> FALSE, multi |-> "out", given |-> None, left |-> {}, dropped |-> {}]
NoEasy == [live |-> FALSE, h |-> None, data |-> None]
NoPack == [live |-> FALSE, e |-> None]

VARIABLES easy,    \* address -> the Easy there: its handle and multi_userdata
          pack,    \* address -> the EasyPackage there: its easy_handle
          curl,    \* handle  -> its options, whether it is "out" of the Multi, "in" it or
                   \*            "done" there, and what add_handle() was last given
          queue,   \* the handles the Multi has a message about
          share    \* whether the Share object is there
vars == <<easy, pack, curl, queue, share>>

Init == /\ easy = [e \in Easies |-> NoEasy]
        /\ pack = [p \in Packs |-> NoPack]
        /\ curl = [c \in Curls |-> Off]
        /\ queue = {}
        /\ share = TRUE

FreeEasy(e)  == ~easy[e].live
FreeCurl(c)  == ~curl[c].live
H(e)         == easy[e].h
Heap(e)      == \E p \in Packs : pack[p].e = e  \* EasyPackage::easy_handle, which -> and * give out
Working(e)   == easy[e].live /\ H(e) # None     \* not moved from
Full(p)      == pack[p].live /\ pack[p].e # None
PackCurl(p)  == H(pack[p].e)
Has(p, c)    == Full(p) /\ PackCurl(p) = c

(***************************************************************************)
(* libcurl                                                                 *)
(***************************************************************************)
\* curl_easy_duphandle(): the options, pointers included; no share, no multi.
Dup(c) == [curl[c] EXCEPT !.shared = FALSE, !.multi = "out", !.given = None,
                          !.left = @ \ {"share"}, !.dropped = {}]
\* What a handle holds of a package, and leaves behind when it is not the package's.
InPack(c) == {f \in {"head", "list"} : curl[c][f] \in Packs}
\* Which of some pointers are a package's, the one that holds e.
Packaged(e, fields) == IF Heap(e) THEN fields ELSE {}
\* curl_easy_cleanup() takes the handle out of the multi and its messages away.
Without(q, c) == q \ {c}

(***************************************************************************)
(* Easy                                                                    *)
(***************************************************************************)
\* An Easy at e around handle c: Easy(void *) sets itself as the private data.
Make(e, c, options) ==
  /\ FreeEasy(e) /\ FreeCurl(c)
  /\ easy' = [easy EXCEPT ![e] = [live |-> TRUE, h |-> c, data |-> None]]
  /\ curl' = [curl EXCEPT ![c] = [options EXCEPT !.live = TRUE, !.private = e]]

NewEasy(e, c) == Make(e, c, Off) /\ UNCHANGED <<pack, queue, share>>
\* Easy(const Easy &) and clone(), of any Easy: the copy of a package's Easy
\* points into that package.
CopyEasy(e, f, c) ==
  /\ Working(e) /\ Make(f, c, [Dup(H(e)) EXCEPT !.left = @ \union InPack(H(e))])
  /\ UNCHANGED <<pack, queue, share>>

MoveEasyOnly(e, f) ==
  /\ Working(e) /\ FreeEasy(f)
  /\ easy' = [easy EXCEPT ![f] = easy[e], ![e] = [@ EXCEPT !.h = None, !.data = None]]
  /\ curl' = [curl EXCEPT ![H(e)].left = @ \union InPack(H(e)), ![H(e)].dropped = @ \ {"head", "list"}]
  /\ UNCHANGED <<pack, queue, share>>
\* Easy(Easy &&), of any Easy and also while the handle is in a Multi: moved
\* out of a package, it points into that package, which stays with an empty
\* Easy.
MoveEasy(e, f) ==
  /\ Working(e) /\ FreeEasy(f)
  /\ easy' = [easy EXCEPT ![f] = easy[e], ![e] = [@ EXCEPT !.h = None, !.data = None]]
  /\ curl' = [curl EXCEPT ![H(e)].private = f, ![H(e)].left = @ \union InPack(H(e)),
                          ![H(e)].dropped = @ \ {"head", "list"}]
  /\ UNCHANGED <<pack, queue, share>>

\* ~Easy()
DeleteEasy(e) ==
  /\ easy[e].live /\ ~Heap(e)
  /\ easy' = [easy EXCEPT ![e] = NoEasy]
  /\ IF H(e) = None THEN UNCHANGED <<curl, queue>>
     ELSE curl' = [curl EXCEPT ![H(e)] = Off] /\ queue' = Without(queue, H(e))
  /\ UNCHANGED <<pack, share>>

\* reset(): all options but the share go, the pointers of a package among
\* them, and multi_userdata, also of a handle in a Multi.
Reset(e) ==
  /\ Working(e)
  /\ easy' = [easy EXCEPT ![e].data = None]
  /\ LET c == H(e) IN
       curl' = [curl EXCEPT ![c].private = e, ![c].head = None, ![c].list = None, ![c].write = None,
                            ![c].left = @ \intersect {"share"},
                            ![c].dropped = {f \in {"userdata"} : curl[c].given # None}
                                             \union Packaged(e, {"head", "list"})]
  /\ UNCHANGED <<pack, queue, share>>

\* set_ostream(), set_oheaders() and set_headers() to something of the program
\* that outlives the handle, and set_headers() to nothing; on an Easy or
\* through a package's ->.
Point(e, field) == curl' = [curl EXCEPT ![H(e)][field] = None, ![H(e)].left = @ \ {field},
                                        ![H(e)].dropped = @ \union Packaged(e, {field} \ {"write"})]
SetOstream(e)        == Working(e) /\ Point(e, "write") /\ UNCHANGED <<easy, pack, queue, share>>
SetHeaders(e, field) == Working(e) /\ Point(e, field) /\ UNCHANGED <<easy, pack, queue, share>>

\* Headers::remove() builds a new list and frees the old one, which the
\* handles that were given it still hold.
RemoveHeader ==
  /\ \E c \in Curls : /\ curl[c].live /\ curl[c].list = None
                      /\ curl' = [curl EXCEPT ![c].list = Gone, ![c].left = @ \union {"list"}]
  /\ UNCHANGED <<easy, pack, queue, share>>

(***************************************************************************)
(* EasyPackage, EasyFactory                                                *)
(***************************************************************************)
\* EasyPackage(Easy *, headers): head and list point into the package.
Packed(options, p) == [options EXCEPT !.head = p, !.list = p, !.left = @ \ {"head", "list"}]
PackedListOnly(options, p) == [options EXCEPT !.list = p, !.left = @ \ {"list"}]

\* EasyFactory::create() and allocate(): a clone of the template t.
Create(t, p, e, c) ==
  /\ Working(t) /\ ~pack[p].live /\ Make(e, c, Packed(Dup(H(t)), p))
  /\ pack' = [pack EXCEPT ![p] = [live |-> TRUE, e |-> e]]
  /\ UNCHANGED <<queue, share>>

CopyPackageHeads(p, q, e, c) ==
  /\ Full(p) /\ Working(pack[p].e) /\ ~pack[q].live /\ Make(e, c, PackedListOnly(Dup(PackCurl(p)), q))
  /\ pack' = [pack EXCEPT ![q] = [live |-> TRUE, e |-> e]]
  /\ UNCHANGED <<queue, share>>
CopyPackage(p, q, e, c) ==
  /\ Full(p) /\ Working(pack[p].e) /\ ~pack[q].live /\ Make(e, c, Packed(Dup(PackCurl(p)), q))
  /\ pack' = [pack EXCEPT ![q] = [live |-> TRUE, e |-> e]]
  /\ UNCHANGED <<queue, share>>

\* EasyPackage(EasyPackage &&): the request list goes along, for whatever
\* handle has it; the response still goes into the Headers of the object that
\* was moved from.
MovePackage(p, q) ==
  /\ pack[p].live /\ ~pack[q].live
  /\ pack' = [pack EXCEPT ![q] = pack[p], ![p].e = None]
  /\ curl' = [c \in Curls |-> [curl[c] EXCEPT !.list = IF @ = p THEN q ELSE @,
                                               !.left = IF curl[c].head = p THEN @ \union {"head"} ELSE @]]
  /\ UNCHANGED <<easy, queue, share>>

\* ~EasyPackage(): also of what other handles hold of it.
DeletePackage(p) ==
  /\ pack[p].live
  /\ pack' = [pack EXCEPT ![p] = NoPack]
  /\ easy' = [e \in Easies |-> IF e = pack[p].e THEN NoEasy ELSE easy[e]]
  /\ curl' = [c \in Curls |-> IF Has(p, c) THEN Off
                              ELSE [curl[c] EXCEPT !.head = IF @ = p THEN Gone ELSE @,
                                                   !.list = IF @ = p THEN Gone ELSE @]]
  /\ queue' = {c \in queue : ~Has(p, c)}
  /\ UNCHANGED share

\* content() and for_content(): the body goes to a local, which is gone when
\* the call returns, and the handle keeps its address; also in a Multi, where
\* perform() fails.
Content(p) ==
  /\ Full(p) /\ Working(pack[p].e)
  /\ curl' = [curl EXCEPT ![PackCurl(p)].write = Gone, ![PackCurl(p)].left = @ \union {"write"}]
  /\ UNCHANGED <<easy, pack, queue, share>>

(***************************************************************************)
(* Multi, Share                                                            *)
(***************************************************************************)
\* add_handle() stores the userdata first, also of a handle that is in the
\* Multi already and that curl refuses.
AddHandle(e, data) ==
  /\ Working(e)
  /\ easy' = [easy EXCEPT ![e].data = data]
  /\ LET c == H(e) IN
       curl' = [curl EXCEPT ![c].multi = IF @ = "out" THEN "in" ELSE @, ![c].given = data,
                            ![c].dropped = @ \ {"userdata"}]
  /\ UNCHANGED <<pack, queue, share>>
RemoveHandle(e) ==
  /\ Working(e) /\ curl[H(e)].multi # "out"
  /\ curl' = [curl EXCEPT ![H(e)].multi = "out"]
  /\ queue' = Without(queue, H(e))
  /\ UNCHANGED <<easy, pack, share>>
\* perform(): a transfer is done; there is one message of it.
Done(c) ==
  /\ curl[c].multi = "in"
  /\ curl' = [curl EXCEPT ![c].multi = "done"]
  /\ queue' = queue \union {c}
  /\ UNCHANGED <<easy, pack, share>>
\* get_msg() takes the message; the handle stays in the Multi.
GetMsg ==
  /\ \E c \in queue : queue' = Without(queue, c)
  /\ UNCHANGED <<easy, pack, curl, share>>

\* Share::add_handle(), remove_handle() and ~Share(), which deletes the
\* mutexes although curl_share_cleanup() refuses while handles are attached.
AttachShare(e) ==
  /\ Working(e)
  /\ \E on \in BOOLEAN : /\ on => share /\ Cardinality({c \in Curls : curl[c].shared}) < MaxAttached
                         /\ curl[H(e)].shared # on
                         /\ curl' = [curl EXCEPT ![H(e)].shared = on, ![H(e)].left = @ \ {"share"}]
  /\ UNCHANGED <<easy, pack, queue, share>>
DeleteShare ==
  /\ share /\ share' = FALSE
  /\ curl' = [c \in Curls |-> IF curl[c].shared THEN [curl[c] EXCEPT !.left = @ \union {"share"}] ELSE curl[c]]
  /\ UNCHANGED <<easy, pack, queue>>

Next ==
  \/ RemoveHeader \/ GetMsg \/ DeleteShare
  \/ \E c \in Curls : Done(c)
  \/ \E p \in Packs : DeletePackage(p) \/ Content(p) \/ \E q \in Packs : MovePackage(p, q)
  \/ \E e \in Easies : \/ DeleteEasy(e) \/ Reset(e) \/ SetOstream(e)
                       \/ \E field \in {"head", "list"} : SetHeaders(e, field)
                       \/ RemoveHandle(e) \/ AttachShare(e)
                       \/ \E data \in Data : AddHandle(e, data)
                       \/ \E f \in Easies : MoveEasy(e, f)
  \/ \E e \in Easies, c \in Curls :
       \/ NewEasy(e, c)
       \/ \E f \in Easies : CopyEasy(f, e, c) \/ \E p \in Packs : Create(f, p, e, c)
       \/ \E p, q \in Packs : CopyPackage(p, q, e, c)
Spec == Init /\ [][Next]_vars

(***************************************************************************)
(* Properties                                                              *)
(***************************************************************************)
\* Whatever was copied, moved or deleted on the way, in a package or not: the
\* message of a handle in a Multi names a live Easy object that holds this
\* very handle, and the userdata that add_handle() was last given for it; but
\* for a handle that was reset since, whose message has no userdata
\* (multi.cpp:80-85, 131-157, easy.cpp:19-64).
MessagesFindOwner ==
  \A c \in Curls : curl[c].multi # "out" \/ c \in queue =>
    /\ curl[c].live /\ curl[c].multi # "out"
    /\ LET e == curl[c].private IN
         /\ easy[e].live /\ easy[e].h = c
         /\ easy[e].data = IF "userdata" \in curl[c].dropped THEN None ELSE curl[c].given

\* A transfer writes and reads only what is alive: each package into its own
\* response headers and from its own request headers, never into those of
\* the package or template it was cloned from, unless the program took them
\* back by reset(), set_headers() or set_oheaders().  Excepted are the
\* pointers that were left behind: by a package that was moved, by content(),
\* Headers::remove() and ~Share(), and by a copy of a package's Easy or a
\* move out of it, which points into a package that is not its own
\* (factory.cpp:6-47, factory.hpp:16-21, easy.cpp:40-64, headers.cpp:114,
\* share.cpp:111).
TransfersLand ==
  /\ \A c \in Curls : curl[c].live =>
       /\ \A f \in {"head", "list", "write"} \ curl[c].left : curl[c][f] \in {None} \union {p \in Packs : Has(p, c)}
       /\ curl[c].shared => share \/ "share" \in curl[c].left
  /\ \A p \in Packs, c \in Curls : Has(p, c) =>
       \A f \in {"head", "list"} : curl[c][f] = p \/ f \in curl[c].left \union curl[c].dropped
=============================================================================
