--------------------------- MODULE MCJsonDocument ---------------------------
(***************************************************************************)
(* Small documents: every type, empty containers, keys and strings that    *)
(* need escapes in a text or in a pointer, keys in two cases, a document   *)
(* deeper than the parser allows.                                          *)
(***************************************************************************)
EXTENDS JsonDocument

S(b) == Node("String", b, <<>>)
I(i) == Node("Number", <<i>>, <<>>)
A(seq) == Node("Array", <<>>, [i \in 1..Len(seq) |-> Member(<<>>, seq[i])])
O(seq) == Node("Object", <<>>, [i \in 1..Len(seq) |-> Member(seq[i][1], seq[i][2])])
T == Node("True", <<>>, <<>>)   F == Node("False", <<>>, <<>>)   N == Node("NULL", <<>>, <<>>)
a == <<97>>  b == <<98>>  BigB == <<66>>  ab == <<97, 47, 98>>  at0 == <<126>>

MCDocs == {
  I(-120), S(<<34, 92, 10, 1, 195, 169>>), A(<<>>), O(<<>>),
  A(<<I(0), A(<<T, F>>), N>>),
  A(<<S(<<>>), S(<<32, 92>>), S(<<47, 42, 34, 32>>)>>),
  O(<< <<b, I(1)>>, <<a, O(<< <<a, S(b)>>, <<b, A(<<I(7)>>)>> >>)>> >>),
  O(<< <<a, O(<< <<a, S(a)>> >>)>>, <<b, I(1)>> >>),
  O(<< <<a, I(1)>>, <<BigB, I(2)>> >>),
  O(<< <<ab, I(1)>>, <<at0, I(2)>>, <<a, N>> >>),
  A(<<A(<<A(<<A(<<>>)>>)>>)>>) }
MCRemarks == {<<32, 10>>, <<47, 42, 34, 42, 47>>, <<47, 47, 91, 10>>}
P(op, path, value, from) == [op |-> op, path |-> path, value |-> value, from |-> from]
MCPatches == {
  P("add", {}, {I(1)}, {}), P("none", {a}, {}, {}), P("add", {<<47, 97>>}, {}, {}),
  P("add", {<<47, 49>>}, {S(a)}, {}), P("add", {<<47, 57>>}, {I(1)}, {}), P("add", {<<47, 45>>}, {I(1)}, {}),
  P("add", {<<>>}, {A(<<I(1)>>)}, {}), P("remove", {<<>>}, {}, {}), P("remove", {<<47, 97>>}, {}, {}),
  P("remove", {<<47, 49, 97>>}, {}, {}), P("replace", {<<47, 97>>}, {I(3)}, {}), P("replace", {<<47, 97>>}, {}, {}),
  P("move", {<<47, 97, 47, 98>>}, {}, {<<47, 97>>}), P("move", {<<47, 99>>}, {}, {<<47, 97>>}),
  P("copy", {<<47, 97, 47, 99>>}, {}, {<<47, 98>>}), P("copy", {<<47, 99>>}, {}, {<<47, 120>>}),
  P("test", {<<>>}, {O(<< <<a, I(1)>>, <<b, I(1)>> >>)}, {}), P("test", {<<47, 98>>}, {I(1)}, {}),
  P("add", {<<47, 97, 126, 49, 98>>}, {T}, {}), P("remove", {<<47, 126, 48>>}, {}, {}) }
MCLengths == {0, 6, 7, 14, 22, 40}
=============================================================================
