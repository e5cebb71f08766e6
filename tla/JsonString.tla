----------------------------- MODULE JsonString -----------------------------
(***************************************************************************)
(* The strings of a JSON text, and the buffer that a text is printed into: *)
(* the parts of src/src/cJSON.c that handle bytes and know no documents.   *)
(* JsonText builds the parser and the printer of documents from them.      *)
(*                                                                         *)
(* A text is a sequence of bytes.  Where the code runs a pointer over it,  *)
(* a function on its positions says what the code finds from there on.     *)
(***************************************************************************)
EXTENDS Integers, Sequences, FiniteSetsExt

Quote == 34
Backslash == 92

\* What a C string keeps of the bytes written to it: those before a NUL.
CStr(b) == LET nul == {i \in 1..Len(b) : b[i] = 0}
           IN IF nul = {} THEN b ELSE SubSeq(b, 1, Min(nul) - 1)

(***************************************************************************)
(* Parsing.  s is a text with its NUL, p the position of the next byte; a  *)
(* parser returns whether it succeeded, the position after what it read,   *)
(* and what it read.                                                       *)
(***************************************************************************)
Fails == [ok |-> FALSE, p |-> 0, r |-> <<>>]
Read(p, r) == [ok |-> TRUE, p |-> p, r |-> r]
Starts(s, p, w) == p + Len(w) - 1 <= Len(s) /\ SubSeq(s, p, p + Len(w) - 1) = w

\* parse_hex4(): a byte that is no hexadecimal digit makes the whole number 0.
Hex4(s, p) ==
  LET digit(b) == CASE b \in 48..57 -> b - 48 [] b \in 65..70 -> b - 55
                    [] b \in 97..102 -> b - 87 [] OTHER -> -1
      h == [i \in 0..3 |-> digit(s[p + i])]
  IN IF \E i \in 0..3 : h[i] < 0 THEN 0
     ELSE h[0] * 4096 + h[1] * 256 + h[2] * 16 + h[3]

Utf8(cp) ==
  LET low(unit) == 128 + ((cp \div unit) % 64)
  IN IF cp < 128 THEN <<cp>>
     ELSE IF cp < 2048 THEN <<192 + cp \div 64, low(1)>>
     ELSE IF cp < 65536 THEN <<224 + cp \div 4096, low(64), low(1)>>
     ELSE <<240 + cp \div 262144, low(4096), low(64), low(1)>>

\* A unit of a string: how many bytes it takes there (0: it is refused), and
\* the bytes that it stands for.
Unit(len, out) == [len |-> len, out |-> out]
Refused == Unit(0, <<>>)

\* The first and the second half of a surrogate pair
High(code) == 55296 <= code /\ code < 56320
Low(code)  == 56320 <= code /\ code < 57344

\* utf16_literal_to_utf8(): \uXXXX, or a surrogate pair.  e is the closing
\* quote; what stands before it is all that may be read.
Utf16Literal(s, p, e) ==
  LET one == Hex4(s, p + 2)
      two == Hex4(s, p + 8)
  IN IF e - p < 6 \/ Low(one) THEN Refused
     ELSE IF ~High(one) THEN Unit(6, Utf8(one))
     ELSE IF e - p < 12 \/ ~Starts(s, p + 6, <<Backslash, 117>>) \/ ~Low(two) THEN Refused
     ELSE Unit(12, Utf8(65536 + (one - 55296) * 1024 + (two - 56320)))

\* What stands behind a backslash: b f n r t, or a character itself.
Letters == {98, 102, 110, 114, 116, Quote, Backslash, 47}
Meaning(c) == CASE c = 98 -> 8 [] c = 102 -> 12 [] c = 110 -> 10
                [] c = 114 -> 13 [] c = 116 -> 9 [] OTHER -> c

UnitAt(s, i, e) ==
  CASE s[i] # Backslash -> Unit(1, <<s[i]>>)
    [] s[i] = Backslash /\ s[i + 1] = 117 -> Utf16Literal(s, i, e)
    [] s[i] = Backslash /\ s[i + 1] \in Letters -> Unit(2, <<Meaning(s[i + 1])>>)
    [] OTHER -> Refused

\* The quote that ends the string whose bytes start at p; 0: there is none.
ClosingQuote(s, p) ==
  LET quote[i \in 1..Len(s) + 2] ==
        IF i > Len(s) THEN 0
        ELSE IF s[i] = Quote THEN i
        ELSE quote[i + (IF s[i] = Backslash THEN 2 ELSE 1)]
  IN quote[p]

\* The backslashes that are counted on the way from p to the quote e.
Skipped(s, p, e) ==
  LET skipped[i \in 1..e + 1] ==
        IF i >= e THEN 0
        ELSE IF s[i] = Backslash THEN 1 + skipped[i + 2] ELSE skipped[i + 1]
  IN skipped[p]

\* What is written when `out' stands before the rest.
Joined(out, rest) == [ok |-> rest.ok, r |-> out \o rest.r]

\* What is written for the bytes from p up to the quote e: all of them, or
\* (not ok) those before a unit that is refused.
Unescape(s, p, e) ==
  LET written[i \in 1..e + 1] ==
        LET u == UnitAt(s, i, e)
        IN IF i >= e THEN [ok |-> TRUE, r |-> <<>>]
           ELSE IF u.len = 0 THEN [ok |-> FALSE, r |-> <<>>]
           ELSE Joined(u.out, written[i + u.len])
  IN written[p]

ParseString(s, p) ==
  LET e == ClosingQuote(s, p + 1)
      u == Unescape(s, p + 1, e)
  IN IF s[p] # Quote \/ e = 0 \/ ~u.ok THEN Fails ELSE Read(e + 1, CStr(u.r))

\* What parse_string() allocates for the string at p, which ends at e, and what
\* it writes there, with the NUL.
StringAllocation(s, p, e) ==
  [size |-> e - p - Skipped(s, p + 1, e) + 1, used |-> Len(Unescape(s, p + 1, e).r) + 1]

\* minify_string(): where the copying of the bytes from p on ends.
At(s, i) == IF i \in 1..Len(s) THEN s[i] ELSE 0
MinifiedStringUnescaped(s, p) ==
  LET copied[i \in 1..Len(s) + 2] ==
        IF At(s, i) = 0 THEN i ELSE IF At(s, i) = Quote THEN i + 1 ELSE copied[i + 1]
  IN copied[p]
MinifiedString(s, p) ==
  LET copied[i \in 1..Len(s) + 2] ==
        IF At(s, i) = 0 THEN i
        ELSE IF At(s, i) = Quote THEN i + 1
        ELSE IF At(s, i) = Backslash /\ At(s, i + 1) = Quote THEN copied[i + 2]
        ELSE copied[i + 1]
  IN copied[p]

(***************************************************************************)
(* Printing.  The printers fill the buffer chunk by chunk: ensure() is     *)
(* asked for `need' bytes, the bytes are written there, a NUL after them   *)
(* when `nul'.                                                             *)
(***************************************************************************)
Chunk(need, bytes, nul) == [need |-> need, bytes |-> bytes, nul |-> nul]
Ending(c) == IF c.nul THEN 1 ELSE 0
\* What a chunk asks for is what is written, the NUL too, or one byte more.
Reserved(c) == c.need \in Len(c.bytes) + Ending(c)..Len(c.bytes) + 1

Hex(h) == IF h < 10 THEN 48 + h ELSE 87 + h
ShortEscapes == {8, 9, 10, 12, 13, Quote, Backslash}
Letter(b) == CASE b = 8 -> 98 [] b = 12 -> 102 [] b = 10 -> 110
               [] b = 13 -> 114 [] b = 9 -> 116 [] OTHER -> b
\* (mutants, here and below: the bug each name says)
EscapedQuoteOnly(b) == IF b = Quote THEN <<Backslash, b>> ELSE <<b>>
Escaped(b) == CASE b \in ShortEscapes -> <<Backslash, Letter(b)>>
                [] b < 32 /\ b \notin ShortEscapes ->
                     <<Backslash, 117, 48, 48, Hex(b \div 16), Hex(b % 16)>>
                [] OTHER -> <<b>>

\* print_string_ptr(): the characters that escaping adds are counted first.
EscapeCharactersShortOnly(b) == IF b \in ShortEscapes THEN 1 ELSE 0
EscapeCharacters(b) == CASE b \in ShortEscapes -> 1
                         [] b < 32 /\ b \notin ShortEscapes -> 5
                         [] OTHER -> 0
ExtraCharacters(v) ==
  LET extra[i \in 1..Len(v) + 1] == IF i > Len(v) THEN 0 ELSE EscapeCharacters(v[i]) + extra[i + 1]
  IN extra[1]
EscapedBytes(v) ==
  LET bytes[i \in 1..Len(v) + 1] == IF i > Len(v) THEN <<>> ELSE Escaped(v[i]) \o bytes[i + 1]
  IN bytes[1]
PrintString(v) ==
  Chunk(Len(v) + ExtraCharacters(v) + 3, <<Quote>> \o EscapedBytes(v) \o <<Quote>>, TRUE)

\* ensure() on a buffer of which `offset' bytes are written: 0 when it fails,
\* the length of the buffer from then on when it does not.
\* There is memory, and no text of INT_MAX bytes.
Ensure(buf, need, noalloc) ==
  LET needed == need + buf.offset + 1
  IN CASE buf.length > 0 /\ buf.offset >= buf.length -> 0
       [] needed <= buf.length -> buf.length
       [] needed > buf.length /\ noalloc -> 0
       [] OTHER -> 2 * needed

\* One chunk is written; fits: no byte was ever written behind the buffer.
Write(buf, c, noalloc) ==
  LET len == Ensure(buf, c.need, noalloc)
      end == buf.offset + Len(c.bytes)
  IN IF ~buf.ok \/ len = 0 THEN [buf EXCEPT !.ok = FALSE]
     ELSE [ok |-> TRUE, length |-> len, offset |-> end, text |-> buf.text \o c.bytes,
           fits |-> buf.fits /\ end + Ending(c) <= len]

\* The buffer of `length' bytes after all the chunks.
Fill(chunks, length, noalloc) ==
  LET after[i \in 0..Len(chunks)] ==
        IF i = 0 THEN [ok |-> TRUE, length |-> length, offset |-> 0, text |-> <<>>, fits |-> TRUE]
        ELSE Write(after[i - 1], chunks[i], noalloc)
  IN after[Len(chunks)]
=============================================================================
