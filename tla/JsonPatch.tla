----------------------------- MODULE JsonPatch ------------------------------
(***************************************************************************)
(* What cJSON and cJSON_Utils do with whole documents: comparing, sorting, *)
(* JSON pointers, JSON patches, merge patches.  src/src/cJSON.c from line  *)
(* 2740 and src/src/cJSON_Utils.c.                                         *)
(*                                                                         *)
(* cs is the case_sensitive argument.  A document is the record of         *)
(* JsonText; a place in it is the sequence of the child indexes that lead  *)
(* there, and a lookup returns the set of what it found: at most one       *)
(* place.  A patch is the record of its members; path, value and from are  *)
(* {} when the member is missing.                                          *)
(***************************************************************************)
EXTENDS JsonText

Slash == 47   Tilde == 126
The(S) == CHOOSE x \in S : TRUE      \* what a lookup that found something found
Lower(b) == IF b \in 65..90 THEN b + 32 ELSE b
Fold(k, cs) == IF cs THEN k ELSE [i \in 1..Len(k) |-> Lower(k[i])]

\* strcmp() on folded keys: the sign of the comparison.
Strcmp(a, b) ==
  LET differ == {i \in 1..Min({Len(a), Len(b)}) + 1 : At(a, i) # At(b, i)}
  IN IF differ = {} THEN 0
     ELSE IF At(a, Min(differ)) < At(b, Min(differ)) THEN -1 ELSE 1
CompareStrings(a, b, cs) == Strcmp(Fold(a, cs), Fold(b, cs))

\* get_object_item(): the first child with the key.
ObjectItem(n, k, cs) ==
  LET twins == {i \in 1..Len(n.c) : Fold(n.c[i].k, cs) = Fold(k, cs)}
  IN IF twins = {} THEN {} ELSE {Min(twins)}
Without(n, i) == [n EXCEPT !.c = RemoveAt(@, i)]
WithLast(n, k, x) == [n EXCEPT !.c = Append(@, Member(k, x))]

RECURSIVE CompareOneWay(_, _, _)
CompareOneWay(a, b, cs) ==
  a.t = b.t /\ a.v = b.v /\ \A i \in 1..Len(a.c) : \E j \in ObjectItem(b, a.c[i].k, cs) :
                             CompareOneWay(a.c[i].n, b.c[j].n, cs)

RECURSIVE Compare(_, _, _)
Compare(a, b, cs) ==
  LET found(x, y) == \A i \in 1..Len(x.c) : \E j \in ObjectItem(y, x.c[i].k, cs) :
                        Compare(x.c[i].n, y.c[j].n, cs)
  IN /\ a.t = b.t /\ a.t # "Invalid"
     /\ CASE a.t = "Array" -> /\ Len(a.c) = Len(b.c)
                              /\ \A i \in 1..Len(a.c) : Compare(a.c[i].n, b.c[i].n, cs)
          [] a.t = "Object" -> found(a, b) /\ found(b, a)
          [] a.t = "Number" -> a.v = b.v /\ a.v # <<>>
          [] OTHER -> a.v = b.v

(***************************************************************************)
(* sort_list(): a merge sort that leaves a strictly ascending list alone   *)
(* and takes the second of two equal keys first.                           *)
(***************************************************************************)
RECURSIVE Merge(_, _, _)
Merge(a, b, cs) ==
  IF a = <<>> \/ b = <<>> THEN a \o b
  ELSE IF CompareStrings(Head(a).k, Head(b).k, cs) < 0
       THEN <<Head(a)>> \o Merge(Tail(a), b, cs)
       ELSE <<Head(b)>> \o Merge(a, Tail(b), cs)

SortListNot(c, cs) == c
RECURSIVE SortList(_, _)
SortList(c, cs) ==
  LET half == (Len(c) + 1) \div 2
  IN IF \A i \in 1..Len(c) - 1 : CompareStrings(c[i].k, c[i + 1].k, cs) < 0 THEN c
     ELSE Merge(SortList(SubSeq(c, 1, half), cs), SortList(SubSeq(c, half + 1, Len(c)), cs), cs)
SortObject(n, cs) == [n EXCEPT !.c = SortList(@, cs)]

\* compare_json(): sorts the objects it meets, of both documents, in place,
\* and stops at the first difference.
RECURSIVE CompareJson(_, _, _)
CompareJson(a, b, cs) ==
  LET x == IF a.t = "Object" THEN SortObject(a, cs) ELSE a
      y == IF b.t = "Object" THEN SortObject(b, cs) ELSE b
      named(i) == a.t = "Array" \/ CompareStrings(x.c[i].k, y.c[i].k, cs) = 0
      step(r, i) ==
        IF ~r.eq \/ ~named(i) THEN [r EXCEPT !.eq = FALSE]
        ELSE LET m == CompareJson(x.c[i].n, y.c[i].n, cs)
             IN [eq |-> m.eq, a |-> [r.a EXCEPT !.c[i].n = m.a], b |-> [r.b EXCEPT !.c[i].n = m.b]]
      both == Min({Len(x.c), Len(y.c)})
      walk == FoldLeft(step, [eq |-> TRUE, a |-> x, b |-> y], [i \in 1..both |-> i])
  IN CASE a.t # b.t -> [eq |-> FALSE, a |-> a, b |-> b]
       [] a.t = b.t /\ a.t \in {"Array", "Object"} ->
            [walk EXCEPT !.eq = @ /\ Len(x.c) = Len(y.c)]
       [] a.t = b.t /\ a.t = "Number" ->
            [eq |-> a.v = b.v /\ a.v # <<>>, a |-> a, b |-> b]
       [] a.t = b.t /\ a.t = "String" -> [eq |-> a.v = b.v, a |-> a, b |-> b]
       [] OTHER -> [eq |-> TRUE, a |-> a, b |-> b]

(***************************************************************************)
(* JSON pointers                                                           *)
(***************************************************************************)
FirstSlash(p) == Min({i \in 1..Len(p) : p[i] = Slash} \union {Len(p) + 1})
LastSlash(p)  == Max({i \in 1..Len(p) : p[i] = Slash} \union {0})

\* compare_pointers(): a key against the next token of a pointer.
RECURSIVE KeyIsToken(_, _, _)
KeyIsToken(k, p, cs) ==
  IF k = <<>> \/ p = <<>> \/ At(p, 1) = Slash
  THEN (p # <<>> /\ At(p, 1) # Slash) = (k # <<>>)
  ELSE IF p[1] = Tilde
       THEN <<At(p, 2), k[1]>> \in {<<48, Tilde>>, <<49, Slash>>}
            /\ KeyIsToken(Tail(k), SubSeq(p, 3, Len(p)), cs)
       ELSE Fold(<<k[1]>>, cs) = Fold(<<p[1]>>, cs) /\ KeyIsToken(Tail(k), Tail(p), cs)

\* encode_string_as_pointer(): no byte is written for the first of the two
\* that stand for a slash: what malloc() left there, junk, stays.
EncodeByte(b, junk) == CASE b = Slash -> <<junk, 49>>
                         [] b = Tilde -> <<Tilde, 49>>
                         [] OTHER -> <<b>>
EncodeAsPointer(k, junk) == CStr(FlattenSeq([i \in 1..Len(k) |-> EncodeByte(k[i], junk)]))

\* decode_pointer_inplace(): i reads, o writes; bytes that are no escape are
\* not copied down, and ~1 writes one byte too far.
RECURSIVE DecodeFrom(_, _, _)
DecodeFrom(a, i, o) ==
  CASE At(a, i) = 0 -> SubSeq(a, 1, o - 1)
    [] At(a, i) = Tilde /\ At(a, i + 1) = 48 -> DecodeFrom([a EXCEPT ![o] = Tilde], i + 2, o + 1)
    [] At(a, i) = Tilde /\ At(a, i + 1) = 49 -> DecodeFrom([a EXCEPT ![o + 1] = Slash], i + 2, o + 1)
    [] At(a, i) = Tilde /\ At(a, i + 1) \notin {48, 49} -> a
    [] OTHER -> DecodeFrom(a, i + 1, o + 1)
DecodePointer(k) == DecodeFrom(k, 1, 1)

\* decode_array_index_from_pointer(): the test of a digit looks at the first
\* byte of the pointer, and an empty token is index 0.
ArrayIndex(p) ==
  LET stop == IF At(p, 1) > 57 THEN 1
              ELSE Min({i \in 1..Len(p) + 1 : At(p, i) < 48})
  IN IF (At(p, 1) = 48 /\ At(p, 2) \notin {0, Slash}) \/ At(p, stop) \notin {0, Slash} THEN {}
     ELSE {FoldLeft(LAMBDA x, b : 10 * x + (b - 48), 0, SubSeq(p, 1, stop - 1))}

\* The child of n that the next token of a pointer names.
ChildOf(n, p, cs) ==
  LET named == {i \in 1..Len(n.c) : KeyIsToken(n.c[i].k, p, cs)}
  IN CASE n.t = "Array"  -> {x + 1 : x \in {y \in ArrayIndex(p) : y < Len(n.c)}}
       [] n.t = "Object" -> IF named = {} THEN {} ELSE {Min(named)}
       [] OTHER -> {}

\* get_item_from_pointer()
RECURSIVE Resolve(_, _, _)
Resolve(n, p, cs) ==
  IF At(p, 1) # Slash THEN {<<>>}
  ELSE LET rest == Tail(p)
       IN UNION {{<<i>> \o q : q \in Resolve(n.c[i].n, SubSeq(rest, FirstSlash(rest), Len(rest)), cs)}
                 : i \in ChildOf(n, rest, cs)}

RECURSIVE ItemAt(_, _)
ItemAt(n, place) == IF place = <<>> THEN n ELSE ItemAt(n.c[Head(place)].n, Tail(place))
RECURSIVE SetAt(_, _, _)
SetAt(n, place, x) ==
  IF place = <<>> THEN x ELSE [n EXCEPT !.c[Head(place)].n = SetAt(@, Tail(place), x)]

RECURSIVE FindPointerFromOne(_, _, _)
FindPointerFromOne(n, place, junk) ==
  IF place = <<>> THEN <<>>
  ELSE <<Slash>> \o (IF n.t = "Array" THEN DigitsOf(Head(place)) ELSE n.c[Head(place)].k)
       \o FindPointerFromOne(n.c[Head(place)].n, Tail(place), junk)

\* cJSONUtils_FindPointerFromObjectTo()
RECURSIVE FindPointer(_, _, _)
FindPointer(n, place, junk) ==
  IF place = <<>> THEN <<>>
  ELSE LET child == n.c[Head(place)]
           name  == IF n.t = "Array" THEN DigitsOf(Head(place) - 1) ELSE EncodeAsPointer(child.k, junk)
       IN <<Slash>> \o name \o FindPointer(child.n, Tail(place), junk)

(***************************************************************************)
(* Patches                                                                 *)
(***************************************************************************)
Result(st, doc) == [st |-> st, doc |-> doc]

\* The places of what a pointer's last token is looked up in.
Parents(doc, path, cs) ==
  IF LastSlash(path) = 0 THEN {} ELSE Resolve(doc, SubSeq(path, 1, LastSlash(path) - 1), cs)
LastToken(path) == DecodePointer(SubSeq(path, LastSlash(path) + 1, Len(path)))

\* detach_path(): the item found, if any, and the document without it.  The
\* parent is found with cs, the member of an object without regard to case.
Detach(doc, path, cs) ==
  LET inside(p, child) == CASE p.t = "Array" -> {x + 1 : x \in {y \in ArrayIndex(child) : y < Len(p.c)}}
                            [] p.t = "Object" -> ObjectItem(p, child, FALSE)
                            [] OTHER -> {}
      take(spot, p, i) == [item |-> {p.c[i].n}, doc |-> SetAt(doc, spot, Without(p, i))]
      from(spot, p) == {take(spot, p, i) : i \in inside(p, LastToken(path))}
      first(hits) == IF hits = {} THEN [item |-> {}, doc |-> doc] ELSE The(hits)
  IN first(UNION {from(q, ItemAt(doc, q)) : q \in Parents(doc, path, cs)})

InsertItemAfter(p, i, x) == [p EXCEPT !.c = InsertAt(@, Min({i + 2, Len(@) + 1}), Member(<<>>, x))]
\* insert_item_in_array() and the adding of a member, whose old value goes.
InsertItem(p, i, x) == [p EXCEPT !.c = InsertAt(@, i + 1, Member(<<>>, x))]
SetMember(p, k, x, cs) ==
  LET old == ObjectItem(p, k, cs)
  IN WithLast(IF old = {} THEN p ELSE Without(p, The(old)), k, x)

\* "Now, just add value to path": the end of apply_patch().
PutValue(doc, path, x, cs) ==
  LET element(p, i, put(_)) == CASE i = {} -> Result(11, doc)
                                 [] i # {} /\ The(i) > Len(p.c) -> Result(10, doc)
                                 [] OTHER -> put(InsertItem(p, The(i), x))
      inside(p, child, put(_)) ==
        CASE p.t = "Array" /\ child = <<45>> -> put(WithLast(p, <<>>, x))
          [] p.t = "Array" /\ child # <<45>> -> element(p, ArrayIndex(child), put)
          [] p.t = "Object" -> put(SetMember(p, child, x, cs))
          [] OTHER -> Result(9, doc)
      at(spot) == inside(ItemAt(doc, spot), LastToken(path), LAMBDA y : Result(0, SetAt(doc, spot, y)))
      first(spots) == IF spots = {} THEN Result(9, doc) ELSE at(The(spots))
  IN first(Parents(doc, path, cs))

Compared(doc, spot, r, left) == Result(IF r.eq THEN 0 ELSE 1, SetAt(doc, spot, left))
TestPatchSwapped(doc, patch, cs) ==
  LET test(spot, r) == Compared(doc, spot, r, r.a)
      first(spots) == IF spots = {} \/ patch.value = {} THEN Result(1, doc)
                      ELSE test(The(spots), CompareJson(The(patch.value), ItemAt(doc, The(spots)), cs))
  IN first(Resolve(doc, The(patch.path), cs))

\* A patch of type "test" compares, and leaves what it compared sorted.
TestPatch(doc, patch, cs) ==
  LET test(spot, r) == Compared(doc, spot, r, r.a)
      first(spots) == IF spots = {} \/ patch.value = {} THEN Result(1, doc)
                      ELSE test(The(spots), CompareJson(ItemAt(doc, The(spots)), The(patch.value), cs))
  IN first(Resolve(doc, The(patch.path), cs))

\* The first part of apply_patch(): a status, or the value that is to be put
\* at the path, and the document it is put into.
Value(st, doc, x) == [st |-> st, doc |-> doc, item |-> x]
PatchValue(doc, patch, cs) ==
  LET got(r, st) == Value(IF r.item = {} THEN st ELSE 0, r.doc, r.item)
      given(d)   == Value(IF patch.value = {} THEN 7 ELSE 0, d, patch.value)
      replaced(r) == IF r.item = {} THEN Value(13, doc, {}) ELSE given(r.doc)
      copied(spots) == IF spots = {} THEN Value(5, doc, {}) ELSE Value(0, doc, {ItemAt(doc, The(spots))})
  IN CASE patch.op = "add" -> given(doc)
       [] patch.op = "replace" -> replaced(Detach(doc, The(patch.path), cs))
       [] patch.op \in {"move", "copy"} /\ patch.from = {} -> Value(4, doc, {})
       [] patch.op = "move" /\ patch.from # {} -> got(Detach(doc, The(patch.from), cs), 5)
       [] patch.op = "copy" /\ patch.from # {} -> copied(Resolve(doc, The(patch.from), cs))

Operations == {"add", "remove", "replace", "move", "copy", "test"}
ApplyPatch(doc, patch, cs) ==
  LET removed(r) == Result(IF r.item = {} THEN 13 ELSE 0, r.doc)
      put(v) == IF v.st # 0 THEN Result(v.st, v.doc) ELSE PutValue(v.doc, The(patch.path), The(v.item), cs)
  IN CASE patch.path = {} -> Result(2, doc)
       [] patch.path # {} /\ patch.op \notin Operations -> Result(3, doc)
       [] patch.path # {} /\ patch.op = "test" -> TestPatch(doc, patch, cs)
       [] patch.path = {<<>>} /\ patch.op = "remove" -> Result(0, Node("Invalid", <<>>, <<>>))
       [] patch.path = {<<>>} /\ patch.op \in {"replace", "add"} ->
            IF patch.value = {} THEN Result(7, doc) ELSE Result(0, The(patch.value))
       [] patch.path \notin {{}, {<<>>}} /\ patch.op = "remove" -> removed(Detach(doc, The(patch.path), cs))
       [] OTHER -> put(PatchValue(doc, patch, cs))

\* cJSONUtils_ApplyPatches(): one after the other, up to the first that fails.
ApplyPatches(doc, patches, cs) ==
  FoldLeft(LAMBDA r, p : IF r.st # 0 THEN r ELSE ApplyPatch(r.doc, p, cs), Result(0, doc), patches)

\* compose_patch() without a suffix; a suffix is encoded by the caller here.
Patch(op, path, value) == [op |-> op, path |-> {path}, value |-> value, from |-> {}]

\* create_patches(): compares the sorted members; the sorting itself, in place,
\* is left out, as the caller is taken to hand over duplicates.
RECURSIVE CreatePatches(_, _, _, _, _)
CreatePatches(from, to, path, cs, junk) ==
  LET below(k) == path \o <<Slash>> \o EncodeAsPointer(k, junk)
      item(i) == path \o <<Slash>> \o DigitsOf(i - 1)
      m == Len(from.c)
      n == Len(to.c)
      arrays == FlattenSeq([i \in 1..Min({m, n}) |->
                              CreatePatches(from.c[i].n, to.c[i].n, item(i), cs, junk)])
                \o [i \in 1..Max({m - n, 0}) |-> Patch("remove", item(n + 1), {})]
                \o [i \in 1..Max({n - m, 0}) |-> Patch("add", path \o <<Slash, 45>>, {to.c[m + i].n})]
      RECURSIVE objects(_, _)
      objects(a, b) ==
        LET diff == IF a = <<>> THEN 1 ELSE IF b = <<>> THEN -1
                    ELSE CompareStrings(Head(a).k, Head(b).k, cs)
        IN IF a = <<>> /\ b = <<>> THEN <<>>
           ELSE CASE diff = 0 -> CreatePatches(Head(a).n, Head(b).n, below(Head(a).k), cs, junk)
                                 \o objects(Tail(a), Tail(b))
                  [] diff < 0 -> <<Patch("remove", below(Head(a).k), {})>> \o objects(Tail(a), b)
                  [] diff > 0 -> <<Patch("add", below(Head(b).k), {Head(b).n})>> \o objects(a, Tail(b))
  IN CASE from.t # to.t -> <<Patch("replace", path, {to})>>
       [] from.t = to.t /\ to.t \in {"Number", "String"} ->
            If(from.v # to.v, <<Patch("replace", path, {to})>>)
       [] from.t = to.t /\ to.t = "Array" -> arrays
       [] from.t = to.t /\ to.t = "Object" -> objects(SortObject(from, cs).c, SortObject(to, cs).c)
       [] OTHER -> <<>>

(***************************************************************************)
(* Merge patches (RFC 7396); a NULL document is <<>>, inside a set {}.     *)
(***************************************************************************)
RECURSIVE MergePatch(_, _, _)
MergePatch(target, patch, cs) ==       \* target: {} or {a document}
  LET start == IF \E x \in target : x.t = "Object" THEN The(target)
               ELSE Node("Object", <<>>, <<>>)
      step(n, m) ==
        LET old  == ObjectItem(n, m.k, cs)
            rest == IF old = {} THEN n ELSE Without(n, The(old))
        IN IF m.n.t = "NULL" THEN rest
           ELSE WithLast(rest, m.k, MergePatch({n.c[i].n : i \in old}, m.n, cs))
  IN IF patch.t # "Object" THEN patch ELSE FoldLeft(step, start, patch.c)

\* generate_merge_patch(): walks the sorted lists, but by strcmp(), and goes
\* on below without regard to case.  {} when there is nothing to change.
RECURSIVE GenerateMergePatch(_, _, _)
GenerateMergePatch(from, to, cs) ==
  LET RECURSIVE walk(_, _)
      walk(a, b) ==
        LET diff == IF a = <<>> THEN 1 ELSE IF b = <<>> THEN -1 ELSE Strcmp(Head(a).k, Head(b).k)
            deeper == IF CompareJson(Head(a).n, Head(b).n, cs).eq THEN {}
                      ELSE GenerateMergePatch(Head(a).n, Head(b).n, FALSE)
        IN IF a = <<>> /\ b = <<>> THEN <<>>
           ELSE CASE diff < 0 -> <<Member(Head(a).k, Node("NULL", <<>>, <<>>))>> \o walk(Tail(a), b)
                  [] diff > 0 -> <<Head(b)>> \o walk(a, Tail(b))
                  [] diff = 0 -> SetToSeq({Member(Head(b).k, x) : x \in deeper})
                                 \o walk(Tail(a), Tail(b))
      members == walk(SortObject(from, cs).c, SortObject(to, cs).c)
  IN IF to.t # "Object" \/ from.t # "Object" THEN {to}
     ELSE IF members = <<>> THEN {} ELSE {Node("Object", <<>>, members)}
=============================================================================
