------------------------------- MODULE MCJson -------------------------------
(***************************************************************************)
(* libjson on small instances, and what it prints read back by its parser. *)
(***************************************************************************)
EXTENDS Json, TLC

CONSTANTS n1, n2, n3, n4, k1    \* the json_objects and the key of JsonObject

MCNodes == {n1, n2, n3, n4}
MCTreeKeys == {k1}
Symmetry == Permutations(MCNodes)

\* LinkHash: two keys meet in the last place of every table, one follows them.
MCKeys == {"a", "b", "c"}
MCVals == {<<"x">>, <<"y">>}
MCHash == [a |-> 7, b |-> 7, c |-> 0]

MCElems == {"e1", "e2"}

MCDoubles == -20 .. 40
MCTexts == [blank : {"", "space", "tab"}, digits : {TRUE}, value : -20 .. 20, rest : BOOLEAN]
           \cup [blank : {"", "space", "tab"}, digits : {FALSE}, value : {0}, rest : BOOLEAN]

-----------------------------------------------------------------------------
\* Texts.  A \u escape has two digits here.
NUL == "NUL"
MCUnit == [ds \in [1..2 -> {"0", "8", "c", "d"}] |->
             CASE ds = <<"0", "0">> -> NUL
               [] ds = <<"0", "8">> -> "BS"
               [] ds = <<"d", "8">> -> "high"
               [] ds = <<"d", "c">> -> "low"
               [] OTHER -> "uml"]

\* b is <<characters of a token, items, depth>>.
Text(chars, inside, wf, pf, b) ==
    [chars |-> chars \cup {NUL}, inside |-> inside \cup {NUL},
     whole |-> wf, pieces |-> pf, token |-> b[1], items |-> b[2], depth |-> b[3]]

\* Both tokeners lenient, both strict, and one of each.
All(chars, inside, b) ==
    {Text(chars, inside, {}, {}, b), Text(chars, inside, {"strict"}, {"strict"}, b),
     Text(chars, inside, {}, {"strict"}, b)}

Escaping == {"\"", "\\", "u", "0", "8", "c", "d", "n"}
Bytes == {"\"", "lead", "tail", "x", "[", "]"}

MCAlphabets == UNION {
    All({"[", "]", ",", "1", " "}, {}, <<1, 2, 1>>),
    All({"{", "}", ",", ":", "\"", "1"}, {"\"", "1"}, <<1, 2, 1>>),
    All({"[", "]", "{", "}", ":", "\"", ","}, {"\""}, <<0, 1, 2>>),
    All({"-", "1", "9", "0", ".", "e", "+", "]", "["}, {}, <<3, 1, 1>>),
    All(Escaping, Escaping, <<2, 1, 0>>),
    All({"/", "*", "\n", "[", "]", "\""}, {"\""}, <<1, 1, 2>>),
    All({"n", "N", "u", "l", "a", "t", "r", "e", "f", "s", "[", "]"}, {}, <<6, 1, 1>>),
    All({"-", "1", "I", "n", "f", "i", "t", "y", "[", "]"}, {}, <<2, 1, 1>>),
    {Text(Bytes, Bytes, f, f, <<2, 1, 1>>) : f \in {{"utf8"}, {"utf8", "strict", "trailing"}}}}

-----------------------------------------------------------------------------
Printer == INSTANCE JsonPrint WITH I64Max <- TextMax

\* What is read strictly, printed, reads back as the value that was printed.
RoundTrip ==
    part = "text" /\ Printer!Strict(whole) /\ whole.done /\ whole.err = "success" =>
        Printer!ReadsBack(whole.ret)
=============================================================================
