----------------------------- MODULE JsonText ------------------------------
(***************************************************************************)
(* Texts on their way into the parser.  The same text goes to two          *)
(* tokeners: whole is new and gets it in one buffer, pieces has been used  *)
(* before and gets it in buffers cut anywhere.  A text is written one      *)
(* character at a time from a small alphabet; it ends with its NUL, or     *)
(* where the length given to parse_ex says.                                *)
(*                                                                         *)
(* spoiled is set where the code is known to lose part of its state:       *)
(* a sign or an "Infinity" after a number that was cut, a cut inside a     *)
(* character while UTF-8 is validated, a reset inside a surrogate pair, and*)
(* a success inside an array or object, which leaves tok->depth as it was. *)
(***************************************************************************)
EXTENDS Tokener

\* Records [chars, inside, whole, pieces, token, items, depth]: the characters,
\* those used inside strings and names, the flags of the two tokeners, and
\* bounds on the text of a token, the items of an array or object, and the depth.
CONSTANT Alphabets

VARIABLES alphabet, whole, pieces, spoiled

vars == <<alphabet, whole, pieces, spoiled>>

Init == /\ alphabet \in Alphabets
        /\ whole = New(alphabet.whole)
        /\ pieces = New(alphabet.pieces)
        /\ spoiled = FALSE

Done == whole.done \/ pieces.done

Bounded(t) == /\ Depth(t) <= alphabet.depth
              /\ Len(t.pb) <= alphabet.token
              /\ \A i \in 1..Len(t.stack) :
                    LET v == t.stack[i].current IN
                    v[1] \in {"array", "object"} => Len(v[2]) <= alphabet.items

\* The number case has lost what it knew of the characters before the cut.
Misread(c) ==
    /\ Top(pieces).state = "number"
    /\ \/ c \in {"-", "+"} /\ ~pieces.num.on /\ pieces.pb # <<>> /\ Last(pieces.pb) \notin {"e", "E"}
       \/ c \in {"i", "I"} /\ Len(pieces.pb) > 1 /\ pieces.num.len # whole.num.len

\* The next character reaches both.
Feed(c) ==
    /\ ~Done
    /\ Top(whole).state \in {"string", "object_field"} => c \in alphabet.inside
    /\ whole' = Run(whole, c)
    /\ pieces' = Run(pieces, c)
    /\ Bounded(whole') /\ Bounded(pieces')
    /\ spoiled' = (spoiled \/ Misread(c))
    /\ UNCHANGED alphabet

\* The buffer of pieces ends inside the text; the next call goes on.
Cut ==
    /\ ~Done
    /\ LET t == EndOfBuffer(pieces) IN
       /\ t.err # "success"
       /\ pieces' = IF t.err = "continue" THEN NewCall(t) ELSE t
       /\ spoiled' = (spoiled \/ t.err # "continue")
    /\ UNCHANGED <<alphabet, whole>>

\* The text ends without a NUL; a caller may give up here as well.
End ==
    /\ ~Done
    /\ whole' = EndOfBuffer(whole)
    /\ pieces' = EndOfBuffer(pieces)
    /\ UNCHANGED <<alphabet, spoiled>>

\* Another text.  What else is left in the used tokener is written again
\* before it is read: every token starts with an empty pb and its own
\* st_pos, quote_char, is_double and ucs_char.
Restart ==
    /\ Done
    /\ whole' = New(alphabet.whole)
    /\ LET t == IF pieces.done /\ pieces.err = "success" THEN pieces ELSE Reset(pieces) IN
       /\ pieces' = NewCall([t EXCEPT !.pb = <<>>, !.pos = 0, !.quote = NUL, !.dbl = FALSE, !.ucs = <<>>])
       /\ spoiled' = (t.high \/ Depth(t) > 0)
    /\ UNCHANGED alphabet

Next == (\E c \in alphabet.chars : Feed(c)) \/ Cut \/ End \/ Restart

Spec == Init /\ [][Next]_vars

---------------------------------------------------------------------------
States == {"eatws", "start", "finish", "inf", "null", "boolean", "number", "comment_start",
           "comment", "comment_eol", "comment_end", "string", "string_escape", "escape_unicode",
           "need_escape", "need_u", "array", "array_after_sep", "array_add", "array_sep",
           "object_field_start", "object_field_start_after_sep", "object_field",
           "object_field_end", "object_value", "object_value_add", "object_sep"}

\* The states and the depth of the two tokeners: tok->depth stays below
\* max_depth, so that no level outside the stack is ever written.  The loop of
\* redo_char has ended after every character.
TypeOK == \A t \in {whole, pieces} :
             /\ Depth(t) \in 0..MaxDepth - 1
             /\ \A i \in 1..Len(t.stack) : {t.stack[i].state, t.stack[i].saved} \subseteq States
             /\ t.bytes \in 0..1 /\ t.pos \in 0..8 /\ t.done \in BOOLEAN
             /\ t.next # "redo"

\* "json_tokener_parse_ex() can then be called with additional bytes in str
\* to continue the parsing": a tokener that was used before and gets a text
\* cut anywhere ends with the same value or the same error as a new one that
\* gets the text at once, but for the four cases the header names.
PiecesAgree ==
    alphabet.whole = alphabet.pieces /\ ~spoiled =>
        /\ whole.stack = pieces.stack
        /\ whole.done = pieces.done /\ whole.err = pieces.err /\ whole.ret = pieces.ret

\* What the strict tokener takes the lenient one takes too, and reads the
\* same value from it.
StrictAgrees ==
    alphabet.whole # alphabet.pieces /\ ~spoiled /\ pieces.done /\ pieces.err = "success" =>
        whole.done /\ whole.err = "success" /\ whole.ret = pieces.ret

\* A call succeeds only when every array and object it opened was closed,
\* unless the text ends inside a comment.
Succeeds(t, u) == ~t.done /\ u.done /\ u.err = "success"
ClosedOnSuccess ==
    [][\A tt \in {<<whole, whole'>>, <<pieces, pieces'>>} :
          Succeeds(tt[1], tt[2]) =>
              Depth(tt[1]) = 0 \/ Top(tt[1]).state \in {"comment", "comment_eol", "comment_end"}]_vars

\* The same without the exception: json_tokener.h says of a text that is not
\* complete that the error tells so.
ClosedOnSuccessAlways ==
    [][\A tt \in {<<whole, whole'>>, <<pieces, pieces'>>} :
          Succeeds(tt[1], tt[2]) => Depth(tt[1]) = 0]_vars
=============================================================================
