---------------------------- MODULE JsonDocument ----------------------------
(***************************************************************************)
(* A program that keeps one JSON document and its text: it prints the one  *)
(* into the other, minifies, parses, and changes the document by patches,  *)
(* its own or ones that come from elsewhere.  The operators are those of   *)
(* JsonText and JsonPatch; here they are put in sequence, and what the     *)
(* sequences promise is stated.                                            *)
(***************************************************************************)
EXTENDS JsonPatch

CONSTANTS Docs,        \* documents to start from, and to reach
          Remarks,     \* comments and blanks that an editor puts into a text
          Patches,     \* patches that come from elsewhere
          Junk,        \* bytes that malloc() may have left
          Lengths,     \* sizes of buffers to print into
          MaxSteps     \* bound: the number of operations

VARIABLES doc,         \* the document
          text,        \* its text
          printed,     \* {d}: text is a print of d, perhaps minified or annotated; {}: it is not
          steps
vars == <<doc, text, printed, steps>>

Init == /\ doc \in Docs
        /\ text = <<>> /\ printed = {} /\ steps = 0

Step == steps < MaxSteps /\ steps' = steps + 1

\* cJSON_Print(), cJSON_PrintUnformatted()
PrintDoc(fmt) ==
  /\ Step
  /\ doc.t # "Invalid"
  /\ text' = PrintText(doc, fmt)
  /\ printed' = {doc}
  /\ UNCHANGED <<doc>>

\* Somebody edits the text: a remark before it, behind it, or behind its
\* opening bracket.
Annotate(remark) ==
  /\ Step
  /\ text # <<>> /\ Minify(text) # <<>>
  /\ \E i \in {0, Len(text)} \union (IF text[1] \in {91, 123} THEN {1} ELSE {}) :
       text' = SubSeq(text, 1, i) \o remark \o SubSeq(text, i + 1, Len(text))
  /\ UNCHANGED <<doc, printed>>

\* The text is cut short.
Truncate ==
  /\ Step
  /\ text # <<>>
  /\ text' = Front(text) /\ printed' = {}
  /\ UNCHANGED <<doc>>

MinifyText ==
  /\ Step
  /\ text # <<>>
  /\ text' = Minify(text)
  /\ UNCHANGED <<doc, printed>>

ParseText(strict) ==
  /\ Step
  /\ text # <<>>
  /\ LET r == Parse(text, strict) IN doc' = IF r.ok THEN r.r ELSE doc
  /\ UNCHANGED <<text, printed>>

\* cJSONUtils_SortObject()
Sort(cs) ==
  /\ Step
  /\ doc' = SortObject(doc, cs)
  /\ UNCHANGED <<text, printed>>

\* cJSONUtils_ApplyPatches() with one patch
ApplyOne(p, cs) ==
  /\ Step
  /\ doc' = ApplyPatches(doc, <<p>>, cs).doc
  /\ UNCHANGED <<text, printed>>

\* Another document is reached by the patches, or by the merge patch, that
\* are generated for it; no merge patch means that nothing is to be done.
Patched(from, to, cs, junk) == ApplyPatches(from, CreatePatches(from, to, <<>>, cs, junk), cs)
Merged(from, to, cs) ==
  LET patch == GenerateMergePatch(from, to, cs)
  IN IF patch = {} THEN from ELSE MergePatch({from}, The(patch), cs)
Follow(to, cs) ==
  /\ Step
  /\ doc' \in {Patched(doc, to, cs, junk).doc : junk \in Junk} \union {Merged(doc, to, cs)}
  /\ UNCHANGED <<text, printed>>

Next ==
  \/ \E b \in BOOLEAN : PrintDoc(b) \/ ParseText(b) \/ Sort(b)
  \/ \E r \in Remarks : Annotate(r)
  \/ Truncate \/ MinifyText
  \/ \E p \in Patches, cs \in BOOLEAN : ApplyOne(p, cs)
  \/ \E to \in Docs, cs \in BOOLEAN : Follow(to, cs)

Spec == Init /\ [][Next]_vars

(***************************************************************************)
(* Properties                                                              *)
(***************************************************************************)
RECURSIVE All(_, _)
\* P holds of a document and of everything in it.
All(P(_), n) == P(n) /\ \A i \in 1..Len(n.c) : All(P, n.c[i].n)

RECURSIVE Depth(_)
Depth(n) == IF n.t \notin {"Array", "Object"} THEN 0
            ELSE 1 + Max({Depth(n.c[i].n) : i \in 1..Len(n.c)} \union {0})

Plain(n)    == n.t \notin {"Raw", "Invalid"} /\ (n.t = "Number" => n.v # <<>>)
NoTwins(n)  == \A i, j \in 1..Len(n.c) :
                 n.t = "Object" /\ i # j => Fold(n.c[i].k, FALSE) # Fold(n.c[j].k, FALSE)
Bare(n)     == \A i \in 1..Len(n.c) : \A b \in ToSet(n.c[i].k) : b \notin {Slash, Tilde}
OneCase(n)  == \A i \in 1..Len(n.c) : Fold(n.c[i].k, FALSE) = n.c[i].k
NoNulls(n)  == n.t # "NULL"

RECURSIVE Places(_)
Places(n) == {<<>>} \union UNION {{<<i>> \o q : q \in Places(n.c[i].n)} : i \in 1..Len(n.c)}

\* A document that is no deeper than the parser allows is read back from its
\* text as it was, and the parser takes all of the text: escaping, the
\* numbers, the blanks of the two formats and the terminator agree between
\* print_value() and parse_value() (cJSON.c:1228-1733).
RoundTrip ==
  All(Plain, doc) /\ Depth(doc) <= NestingLimit =>
    \A fmt \in BOOLEAN : LET r == Parse(PrintText(doc, fmt), TRUE) IN r.ok /\ r.r = doc

\* The printers ask ensure() for what they write, the NUL too, or for one byte
\* more, so that nothing is written behind the buffer that ensure() left
\* (cJSON.c:389-474), whatever its size at the start; a buffer that grows gives
\* the same text; one that may not grow suffices when it is 5 bytes longer than
\* the text, as cJSON.h:160 promises; and what parse_string() writes fits what
\* it allocated from its estimate (cJSON.c:728-753), when a later byte is
\* refused as well.
BuffersHold ==
  /\ doc.t # "Invalid" =>
       \A fmt \in BOOLEAN :
         LET whole == PrintText(doc, fmt)
             chunks == PrintValue(doc, 0, fmt)
         IN /\ \A i \in 1..Len(chunks) : Reserved(chunks[i])
            /\ \A len \in Lengths :
                 LET grown == PrintInto(doc, fmt, len, FALSE)
                     fixed == PrintInto(doc, fmt, len, TRUE)
                 IN /\ grown.ok /\ grown.fits /\ grown.text = whole
                    /\ fixed.fits
                    /\ len >= Len(whole) + 5 => fixed.ok
  /\ LET s == Append(text, 0) IN \A p \in 1..Len(s) :
       LET e == ClosingQuote(s, p + 1)
           a == StringAllocation(s, p, e)
       IN s[p] = Quote /\ e # 0 => a.used <= a.size

\* Minifying a printed text, whatever remarks were put into it, keeps its
\* document.  Strings that end in a backslash are excepted: minify_string()
\* (cJSON.c:2690) takes the closing quote behind it for an escaped one.
MinifyKeeps ==
  \A d \in printed :
    (All(Plain, d) /\ Depth(d) <= NestingLimit
     /\ \A i \in 1..Len(text) : ~Starts(text, i, <<Backslash, Backslash, Quote>>)) =>
      LET r == Parse(Minify(text), TRUE) IN r.ok /\ r.r = d

\* cJSON_Compare() and the compare_json() of the patches, which sorts and
\* walks where the other looks up, agree on documents without case twins, and
\* what compare_json() leaves of a document equals it (cJSON.c:2846-2969,
\* cJSON_Utils.c:587-673).
CompareAgrees ==
  \A other \in Docs, cs \in BOOLEAN :
    (All(Plain, doc) /\ All(NoTwins, doc) /\ All(NoTwins, other)) =>
      LET r == CompareJson(doc, other, cs)
      IN r.eq = Compare(doc, other, cs) /\ Compare(r.a, doc, TRUE) /\ Compare(r.b, other, TRUE)

\* The pointer that cJSONUtils_FindPointerFromObjectTo() returns leads back to
\* the item, in either mode, unless a key on the way needs an escape: those
\* are encoded wrongly (cJSON_Utils.c:166-176).
PointerLeadsBack ==
  All(NoTwins, doc) /\ All(Bare, doc) =>
    \A q \in Places(doc), cs \in BOOLEAN, junk \in Junk :
      Resolve(doc, FindPointer(doc, q, junk), cs) = {q}

\* The patches generated from one document to another lead there, when they
\* are applied to the first (cJSON_Utils.c:1122-1260, 790-1017); keys that
\* need an escape are excepted.
PatchesLead ==
  \A to \in Docs, cs \in BOOLEAN, junk \in Junk :
    (\A n \in {doc, to} : All(NoTwins, n) /\ All(Bare, n) /\ All(Plain, n)) =>
      LET r == Patched(doc, to, cs, junk) IN r.st = 0 /\ Compare(r.doc, to, cs)

\* So does the merge patch, when the target has no null (a merge patch cannot
\* say one) and the keys are in one case: generate_merge_patch() walks lists
\* sorted without regard to case with strcmp() (cJSON_Utils.c:1384-1399).
MergeLeads ==
  \A to \in Docs, cs \in BOOLEAN :
    (All(NoNulls, to) /\ \A n \in {doc, to} : All(NoTwins, n) /\ All(OneCase, n) /\ All(Plain, n)) =>
      Compare(Merged(doc, to, cs), to, TRUE)

\* A patch that fails leaves the document as it was, but for the order of its
\* members; "replace" and "move" are excepted, which take the old item out
\* before they know that the new one can go in (cJSON_Utils.c:870-902).
FailedPatchKeeps ==
  \A p \in Patches, cs \in BOOLEAN :
    (p.op \notin {"replace", "move"} /\ All(Plain, doc) /\ All(NoTwins, doc)) =>
      LET r == ApplyPatch(doc, p, cs) IN r.st # 0 => Compare(r.doc, doc, TRUE)
=============================================================================
