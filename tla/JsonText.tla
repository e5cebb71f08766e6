------------------------------ MODULE JsonText ------------------------------
(***************************************************************************)
(* The text side of cJSON, on which Box::Json rests: parsing, printing     *)
(* into a growing or a fixed buffer, minifying.  src/src/cJSON.c.          *)
(*                                                                         *)
(* A text is a sequence of bytes without its terminator.  A document is a  *)
(* record: t is its type, v its bytes (a String or Raw), its number, or    *)
(* nothing, c its children in list order, each with its key (<<>> in an    *)
(* array).  Numbers are integers; <<>> stands for NaN and the infinities.  *)
(***************************************************************************)
EXTENDS JsonString, SequencesExt

CONSTANT NestingLimit          \* CJSON_NESTING_LIMIT

Node(t, v, c) == [t |-> t, v |-> v, c |-> c]
Member(k, n)  == [k |-> k, n |-> n]

Comma == 44
Colon == 58
LitNull == <<110, 117, 108, 108>>
LitTrue == <<116, 114, 117, 101>>
LitFalse == <<102, 97, 108, 115, 101>>
Digits == 48..57
Bracket(t) == IF t = "Array" THEN [open |-> 91, close |-> 93]
                             ELSE [open |-> 123, close |-> 125]

(***************************************************************************)
(* Parsing                                                                 *)
(***************************************************************************)
\* What is read next, given what r read; nothing when r failed.
Then(r, next(_)) == IF r.ok THEN next(r) ELSE Fails

\* buffer_skip_whitespace(): everything up to a blank is skipped, the NUL too,
\* but a buffer read to its end is stepped back onto its last byte.
SkipWhitespace(s, p) ==
  LET solid == {i \in p..Len(s) : s[i] > 32}
  IN IF solid = {} THEN Len(s) ELSE Min(solid)

SkipBom(s) == IF Len(s) > 4 /\ Starts(s, 1, <<239, 187, 191>>) THEN 4 ELSE 1

RECURSIVE Decimal(_)
Decimal(d) == IF d = <<>> THEN 0 ELSE 10 * Decimal(Front(d)) + (Last(d) - 48)

\* parse_number(): at most 63 bytes are handed to strtod(), which reads the
\* longest prefix that is a number.
ParseNumber(s, p) ==
  LET numeric == Digits \union {43, 45, 46, 69, 101}
      after(from, set, to) == Min({i \in from..to : s[i] \notin set} \union {to + 1})
      end   == after(p, numeric, Min({p + 62, Len(s)})) - 1
      first == IF s[p] \in {43, 45} THEN p + 1 ELSE p
      stop  == after(first, Digits, end)
      value == Decimal(SubSeq(s, first, stop - 1))
  IN IF stop = first THEN Fails
     ELSE Read(stop, Node("Number", <<IF s[p] = 45 THEN -value ELSE value>>, <<>>))

RECURSIVE ParseValue(_, _, _)
\* The members after p, where an opening bracket or a comma stands.
RECURSIVE ParseMembers(_, _, _, _, _)
ParseMembers(s, p, d, t, read) ==
  LET after(q, now) == CASE s[q] = Comma -> ParseMembers(s, q, d, t, now)
                         [] s[q] = Bracket(t).close -> Read(q + 1, Node(t, <<>>, now))
                         [] OTHER -> Fails
      value(q, key) == Then(ParseValue(s, SkipWhitespace(s, q + 1), d),
        LAMBDA val : after(SkipWhitespace(s, val.p), Append(read, Member(key, val.r))))
      named(q, key) == IF s[q] = Colon THEN value(q, key) ELSE Fails
  IN IF t = "Array" THEN value(p, <<>>)
     ELSE Then(ParseString(s, SkipWhitespace(s, p + 1)),
               LAMBDA key : named(SkipWhitespace(s, key.p), key.r))

\* parse_array() and parse_object(); d is the depth of the container's parent.
ParseContainer(s, p, d, t) ==
  LET q == SkipWhitespace(s, p + 1)
  IN IF d >= NestingLimit THEN Fails
     ELSE IF s[q] = Bracket(t).close THEN Read(q + 1, Node(t, <<>>, <<>>))
     ELSE ParseMembers(s, p, d + 1, t, <<>>)

ParseValue(s, p, d) ==
  CASE Starts(s, p, LitNull)  -> Read(p + 4, Node("NULL", <<>>, <<>>))
    [] Starts(s, p, LitFalse) -> Read(p + 5, Node("False", <<>>, <<>>))
    [] Starts(s, p, LitTrue)  -> Read(p + 4, Node("True", <<>>, <<>>))
    [] s[p] = Quote -> Then(ParseString(s, p), LAMBDA str : Read(str.p, Node("String", str.r, <<>>)))
    [] s[p] \in Digits \union {45} -> ParseNumber(s, p)
    [] s[p] = 91  -> ParseContainer(s, p, d, "Array")
    [] s[p] = 123 -> ParseContainer(s, p, d, "Object")
    [] OTHER -> Fails

\* cJSON_ParseWithOpts(); cJSON_Parse() is not strict: it leaves what follows.
Parse(text, strict) ==
  LET s == Append(text, 0)
  IN Then(ParseValue(s, SkipWhitespace(s, SkipBom(s)), 0),
          LAMBDA r : IF strict => s[SkipWhitespace(s, r.p)] = 0 THEN r ELSE Fails)

(***************************************************************************)
(* Printing: the chunks that a document is printed in                      *)
(***************************************************************************)
RECURSIVE DigitsOf(_)
DigitsOf(n) == IF n < 10 THEN <<48 + n>> ELSE Append(DigitsOf(n \div 10), 48 + (n % 10))

PrintNumber(v) ==
  LET b == IF v = <<>> THEN LitNull
           ELSE IF v[1] < 0 THEN <<45>> \o DigitsOf(-v[1]) ELSE DigitsOf(v[1])
  IN <<Chunk(Len(b) + 1, b, TRUE)>>

Tabs(n) == [i \in 1..n |-> 9]
If(b, seq) == IF b THEN seq ELSE <<>>

RECURSIVE PrintValue(_, _, _)
PrintArray(n, d, fmt) ==
  LET last == Len(n.c)
      comma == <<Comma>> \o If(fmt, <<32>>)
      item(i) == PrintValue(n.c[i].n, d + 1, fmt)
                 \o If(i < last, <<Chunk(Len(comma) + 1, comma, TRUE)>>)
  IN <<Chunk(1, <<91>>, FALSE)>> \o FlattenSeq([i \in 1..last |-> item(i)])
     \o <<Chunk(2, <<93>>, TRUE)>>

\* d is the depth of the object's parent: the members stand at d + 1.
PrintObject(n, d, fmt) ==
  LET last == Len(n.c)
      open  == <<123>> \o If(fmt, <<10>>)
      colon == <<Colon>> \o If(fmt, <<9>>)
      close == If(fmt, Tabs(d)) \o <<125>>
      ends(i) == If(i < last, <<Comma>>) \o If(fmt, <<10>>)
      item(i) == If(fmt, <<Chunk(d + 1, Tabs(d + 1), FALSE)>>)
                 \o <<PrintString(n.c[i].k), Chunk(Len(colon), colon, FALSE)>>
                 \o PrintValue(n.c[i].n, d + 1, fmt)
                 \o <<Chunk(Len(ends(i)) + 1, ends(i), TRUE)>>
  IN <<Chunk(Len(open) + 1, open, FALSE)>> \o FlattenSeq([i \in 1..last |-> item(i)])
     \o <<Chunk(IF fmt THEN d + 2 ELSE 2, close, TRUE)>>

PrintValue(n, d, fmt) ==
  CASE n.t = "NULL"   -> <<Chunk(5, LitNull, TRUE)>>
    [] n.t = "True"   -> <<Chunk(5, LitTrue, TRUE)>>
    [] n.t = "False"  -> <<Chunk(6, LitFalse, TRUE)>>
    [] n.t = "Number" -> PrintNumber(n.v)
    [] n.t = "Raw"    -> <<Chunk(Len(n.v) + 1, n.v, TRUE)>>
    [] n.t = "String" -> <<PrintString(n.v)>>
    [] n.t = "Array"  -> PrintArray(n, d, fmt)
    [] n.t = "Object" -> PrintObject(n, d, fmt)

\* cJSON_PrintBuffered() and cJSON_PrintPreallocated(): the printing of a
\* document into a buffer of `length' bytes.
PrintInto(n, fmt, length, noalloc) == Fill(PrintValue(n, 0, fmt), length, noalloc)

\* cJSON_Print() and cJSON_PrintUnformatted()
PrintText(n, fmt) == PrintInto(n, fmt, 256, FALSE).text

(***************************************************************************)
(* cJSON_Minify(): blanks and comments are dropped, strings are copied.    *)
(***************************************************************************)
\* The position after the comment whose second byte, / or *, is at i.
CommentEnd(s, i) ==
  LET ends == IF s[i] = 47 THEN {j \in i + 1..Len(s) : s[j] = 10}
              ELSE {j \in i + 2..Len(s) : s[j] = 47 /\ s[j - 1] = 42}
  IN IF ends = {} THEN Len(s) + 1 ELSE Min(ends) + 1

RECURSIVE MinifyFrom(_, _)
MinifyFrom(s, i) ==
  CASE At(s, i) = 0 -> <<>>
    [] At(s, i) \in {32, 9, 13, 10} -> MinifyFrom(s, i + 1)
    [] At(s, i) = 47 -> MinifyFrom(s, IF At(s, i + 1) \in {47, 42} THEN CommentEnd(s, i + 1) ELSE i + 1)
    [] At(s, i) = Quote -> LET e == MinifiedString(s, i + 1)
                           IN SubSeq(s, i, e - 1) \o MinifyFrom(s, e)
    [] OTHER -> <<At(s, i)>> \o MinifyFrom(s, i + 1)
Minify(s) == MinifyFrom(s, 1)
=============================================================================
