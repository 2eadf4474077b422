------------------------------ MODULE Tokener ------------------------------
(***************************************************************************)
(* json_tokener_parse_ex (json_tokener.c), one character at a time: Run(t, *)
(* c) is what the loop of parse_ex does with the next character c of its   *)
(* buffer, the states passed through by "goto redo_char" included, and     *)
(* EndOfBuffer(t) what it does when the buffer has no more characters.     *)
(*                                                                         *)
(* A tokener is a record: the stack of levels, the text pb of the token    *)
(* under way, st_pos, quote_char, is_double, ucs_char, high_surrogate,     *)
(* flags and err; bytes (nBytes) and num (what the number case keeps in C  *)
(* locals) live for one call.  obj is the local that hands a finished      *)
(* value to the level below it (and is read nowhere else, so it is cleared *)
(* there), next says how a case leaves the switch, and done and ret what   *)
(* the call returned.                                                      *)
(*                                                                         *)
(* Characters are one-letter strings, NUL the end of a C string.  A \u     *)
(* escape is written with UnitDigits digits, and Unit gives the character  *)
(* it stands for; "high" and "low" are surrogates.  A value is a pair:     *)
(* <<"null">> (which in C is no object at all), <<"int", n>>, <<"double",  *)
(* text>>, <<"str", text>>, <<"array", items>>, <<"object", fields>>.      *)
(* Running out of memory is not modelled, and neither is the text of a     *)
(* comment, which pb collects and only a debug trace reads.                *)
(***************************************************************************)
EXTENDS Integers, Sequences, FiniteSetsExt, SequencesExt

CONSTANTS MaxDepth,     \* max_depth of json_tokener_new_ex
          I64Max,       \* INT64_MAX; UINT64_MAX is twice this plus one
          UnitDigits,   \* digits of a \u escape
          Unit          \* the character of each sequence of UnitDigits digits

\* What the constants have to be; the modules that use this one assume it.
TokenerAssumption == /\ MaxDepth \in Nat \ {0}
                     /\ I64Max \in Nat \ {0}
                     /\ UnitDigits \in Nat \ {0}

NUL == "NUL"
Ws == {" ", "\t", "\n"}
Quotes == {"\"", "'"}
DigitText == <<"0", "1", "2", "3", "4", "5", "6", "7", "8", "9">>
Digits == Range(DigitText)
HexDigits == Digits \cup {"a", "b", "c", "d", "A"}
Small == [A |-> "a", E |-> "e", F |-> "f", I |-> "i", L |-> "l", N |-> "n",
          T |-> "t", U |-> "u", Y |-> "y"]
Lower(c) == IF c \in DOMAIN Small THEN Small[c] ELSE c

\* text before its first character that is a stop.
UpTo(text, Stop(_)) ==
    LET i == SelectInSeq(text, Stop) IN IF i = 0 THEN text ELSE SubSeq(text, 1, i - 1)

NoValue == <<"null">>
Replacement == "repl"    \* the three bytes of U+FFFD
Escapes == [b |-> "BS", n |-> "\n", r |-> "CR", t |-> "\t", f |-> "FF"]

---------------------------------------------------------------------------
\* The tokener and its levels.

NewLevel == [state |-> "eatws", saved |-> "start", current |-> NoValue, field |-> <<>>]
FreshNumber == [on |-> FALSE, exp |-> FALSE, neg |-> TRUE, pos |-> FALSE, len |-> 0]

New(flags) ==
    [stack |-> <<NewLevel>>, pb |-> <<>>, pos |-> 0, quote |-> NUL, dbl |-> FALSE,
     ucs |-> <<>>, high |-> FALSE, flags |-> flags, err |-> "success", bytes |-> 0,
     num |-> FreshNumber, obj |-> NoValue, next |-> "advance",
     done |-> FALSE, ret |-> NoValue]

Depth(t) == Len(t.stack) - 1
Top(t) == Last(t.stack)
SetTop(t, level) == [t EXCEPT !.stack = Front(@) \o <<level>>]
Go(t, s) == SetTop(t, [Top(t) EXCEPT !.state = s])
SkipWsThen(t, s) == SetTop(t, [Top(t) EXCEPT !.state = "eatws", !.saved = s])
Finish(t, v) == SetTop(t, [Top(t) EXCEPT !.state = "eatws", !.saved = "finish", !.current = v])
Append1(t, c) == [t EXCEPT !.pb = Append(@, c)]

Advance(t) == [t EXCEPT !.next = "advance"]
Redo(t) == [t EXCEPT !.next = "redo"]
Out(t) == [t EXCEPT !.next = "out"]
Fail(t, e) == [t EXCEPT !.next = "out", !.err = e]

Strict(t) == "strict" \in t.flags

\* A new call of parse_ex on the tokener t.
NewCall(t) == [t EXCEPT !.err = "success", !.bytes = 0, !.num = FreshNumber,
                        !.obj = NoValue, !.next = "advance", !.done = FALSE, !.ret = NoValue]

\* json_tokener_reset: the levels and the error.  The surrogate stays.
Reset(t) == [t EXCEPT !.stack = <<NewLevel>>, !.err = "success"]

---------------------------------------------------------------------------
\* White space, comments and the first character of a value.

Eatws(t, c) ==
    IF c \in Ws THEN Advance(t)
    ELSE IF c = "/" /\ ~Strict(t) THEN Advance(Go([t EXCEPT !.pb = <<>>], "comment_start"))
    ELSE Redo(Go(t, Top(t).saved))

CommentStart(t, c) ==
    CASE c = "*" -> Advance(Go(t, "comment"))
      [] c = "/" -> Advance(Go(t, "comment_eol"))
      [] OTHER   -> Fail(t, "comment")

Comment(t, c) == Advance(IF c = "*" THEN Go(t, "comment_end") ELSE t)
CommentEol(t, c) == Advance(IF c = "\n" THEN Go(t, "eatws") ELSE t)
CommentEnd(t, c) == Advance(Go(t, IF c = "/" THEN "eatws" ELSE "comment"))

Start(t, c) ==
    LET word(s) == Redo(Go([t EXCEPT !.pb = <<>>, !.pos = 0], s)) IN
    CASE c = "{" -> Advance(SetTop(t, [Top(t) EXCEPT !.state = "eatws",
                        !.saved = "object_field_start", !.current = <<"object", <<>>>>]))
      [] c = "[" -> Advance(SetTop(t, [Top(t) EXCEPT !.state = "eatws",
                        !.saved = "array", !.current = <<"array", <<>>>>]))
      [] c \in {"I", "i"} -> word("inf")
      [] c \in {"N", "n"} -> word("null")
      [] c \in {"T", "t", "F", "f"} -> word("boolean")
      [] c \in Quotes /\ ~(c = "'" /\ Strict(t)) ->
            Advance(Go([t EXCEPT !.pb = <<>>, !.quote = c], "string"))
      [] c \in Digits \cup {"-"} ->
            Redo(Go([t EXCEPT !.pb = <<>>, !.dbl = FALSE], "number"))
      [] OTHER -> Fail(t, "unexpected")

\* A finished value goes to the level below, or out of the call.
FinishLevel(t, c) ==
    IF Depth(t) = 0 THEN Out(t)
    ELSE Redo([t EXCEPT !.stack = Front(@), !.obj = Top(t).current])

---------------------------------------------------------------------------
\* The words.

Infinity == <<"I", "n", "f", "i", "n", "i", "t", "y">>
NullText == <<"n", "u", "l", "l">>
NanText == <<"N", "a", "N">>
TrueText == <<"t", "r", "u", "e">>
FalseText == <<"f", "a", "l", "s", "e">>

SameLetter(t, a, b) == IF Strict(t) THEN a = b ELSE Lower(a) = Lower(b)

\* strncmp or strncasecmp of the first size characters of word and of pb.
Matches(t, word) == \A i \in 1..Min({t.pos + 1, Len(word)}) : SameLetter(t, word[i], t.pb[i])

Inf(t, c) ==
    IF t.pos = Len(Infinity)
    THEN Redo(Finish(t, <<"double", IF Len(t.pb) > 0 /\ t.pb[1] = "-"
                                    THEN <<"-">> \o Infinity ELSE Infinity>>))
    ELSE IF SameLetter(t, c, Infinity[t.pos + 1])
         THEN Advance([t EXCEPT !.pos = @ + 1])
         ELSE Fail(t, "unexpected")

\* The cases of null/NaN and of true/false: the first word that matches so
\* far is the value once a character after it has come.
Word(t0, c, first, v1, second, v2, e) ==
    LET t == Append1(t0, c) IN
    CASE Matches(t, first) ->
            IF t.pos = Len(first) THEN Redo(Finish(t, v1)) ELSE Advance([t EXCEPT !.pos = @ + 1])
      [] ~Matches(t, first) /\ Matches(t, second) ->
            IF t.pos = Len(second) THEN Redo(Finish(t, v2)) ELSE Advance([t EXCEPT !.pos = @ + 1])
      [] OTHER -> Fail(t, e)

NullOrNaN(t, c) == Word(t, c, NullText, NoValue, NanText, <<"double", NanText>>, "null")
Boolean(t, c) == Word(t, c, TrueText, <<"bool", TRUE>>, FalseText, <<"bool", FALSE>>, "boolean")

---------------------------------------------------------------------------
\* Numbers.

\* Slip: an exponent before the cut is forgotten.
RegeneratedFresh(pb) == [FreshNumber EXCEPT !.on = TRUE]

\* The locals of the number case: at the start of a token, or made again
\* from the text saved by the calls before.
Regenerated(pb) ==
    LET es == {i \in 1..Len(pb) : pb[i] = "e"}
        ES == {i \in 1..Len(pb) : pb[i] = "E"}
        at == IF es # {} THEN Min(es) ELSE Min(ES)
    IN  IF es \cup ES = {} THEN [FreshNumber EXCEPT !.on = TRUE]
        ELSE [on |-> TRUE, exp |-> TRUE, neg |-> at = Len(pb), pos |-> at = Len(pb), len |-> 0]

Accepts(t, n, c) == \/ c \in Digits
                    \/ ~n.exp /\ c \in {"e", "E"}
                    \/ n.neg /\ c = "-"
                    \/ n.pos /\ c = "+"
                    \/ ~t.dbl /\ c = "."

EndsNumber == {",", "]", "}", "/", "I", "i"} \cup Ws

\* "123e+" loses its end.
Trimmed(pb) == SubSeq(pb, 1, Max({1} \cup {i \in 1..Len(pb) : pb[i] \notin {"e", "E", "-", "+"}}))

\* strtoll and strtoull stop at the first character that is no digit.
Leading(text) == UpTo(text, LAMBDA c : c \notin Digits)
ToInt(ds) == FoldLeft(LAMBDA n, d : 10 * n + (CHOOSE i \in 1..10 : DigitText[i] = d) - 1, 0, ds)

\* json_tokener_parse_double: strtod takes the whole text.
IsDouble(pb) ==
    LET body == IF pb[1] = "-" THEN Tail(pb) ELSE pb
        unsigned(x) == x # <<>> /\ Range(x) \subseteq Digits
        mantissa(m) == /\ \E i \in 1..Len(m) : m[i] \in Digits
                       /\ Range(m) \subseteq Digits \cup {"."}
                       /\ Cardinality({i \in 1..Len(m) : m[i] = "."}) <= 1
    IN  \/ mantissa(body)
        \/ \E i \in 1..Len(body) :
              LET x == SubSeq(body, i + 1, Len(body)) IN
              /\ body[i] \in {"e", "E"}
              /\ mantissa(SubSeq(body, 1, i - 1))
              /\ x # <<>>
              /\ unsigned(IF x[1] \in {"-", "+"} THEN Tail(x) ELSE x)

EndNumber(t) ==
    LET negative == t.pb[1] = "-"
        digits == Leading(IF negative THEN Tail(t.pb) ELSE t.pb)
        n == ToInt(digits)
        limit == IF negative THEN I64Max + 1 ELSE 2 * I64Max + 1
        size == Min({n, limit})
    IN  IF t.dbl
        THEN IF IsDouble(t.pb) THEN Redo(Finish(t, <<"double", t.pb>>)) ELSE Fail(t, "number")
        ELSE IF \/ digits = <<>>
                \/ Strict(t) /\ n > limit
                \/ Strict(t) /\ ~negative /\ n # 0 /\ t.pb[1] = "0"
             THEN Fail(t, "number")
             ELSE Redo(Finish(t, <<"int", IF negative THEN -size ELSE size>>))

Number(t, c) ==
    LET n == IF t.num.on THEN t.num ELSE Regenerated(t.pb) IN
    IF Accepts(t, n, c)
    THEN Advance([t EXCEPT !.pb = Append(@, c), !.dbl = @ \/ c \in {".", "e", "E"},
                    !.num = [on |-> TRUE, exp |-> n.exp \/ c \in {"e", "E"},
                             neg |-> c \in {".", "e", "E"}, pos |-> c \in {".", "e", "E"},
                             len |-> Min({2, n.len + 1})]])
    ELSE IF Depth(t) > 0 /\ c \notin EndsNumber THEN Fail(t, "number")
    ELSE LET u == [t EXCEPT !.num = FreshNumber] IN
         IF u.pb[1] = "-" /\ n.len <= 1 /\ c \in {"i", "I"}
         THEN Redo(Go([u EXCEPT !.pos = 0], "inf"))
         ELSE EndNumber(IF u.dbl /\ ~Strict(u) THEN [u EXCEPT !.pb = Trimmed(@)] ELSE u)

---------------------------------------------------------------------------
\* Strings and member names.

\* What both keep until the quote; strdup ends a name at the first NUL.
CString(text) == UpTo(text, LAMBDA c : c = NUL)

String(t, c) ==
    CASE c = t.quote -> Advance(Finish(t, <<"str", t.pb>>))
      [] c = "\\" -> Advance(SetTop(t, [Top(t) EXCEPT !.state = "string_escape", !.saved = "string"]))
      [] OTHER -> Advance(Append1(t, c))

ObjectField(t, c) ==
    CASE c = t.quote -> Advance(SetTop(t, [Top(t) EXCEPT !.state = "eatws",
                                  !.saved = "object_field_end", !.field = CString(t.pb)]))
      [] c = "\\" -> Advance(SetTop(t, [Top(t) EXCEPT !.state = "string_escape",
                                  !.saved = "object_field"]))
      [] OTHER -> Advance(Append1(t, c))

StringEscape(t, c) ==
    CASE c \in {"\"", "\\", "/"} -> Advance(Go(Append1(t, c), Top(t).saved))
      [] c \in DOMAIN Escapes -> Advance(Go(Append1(t, Escapes[c]), Top(t).saved))
      [] c = "u" -> Advance(Go([t EXCEPT !.ucs = <<>>], "escape_unicode"))
      [] OTHER -> Fail(t, "string")

EscapeUnicode(t, c) ==
    IF c \notin HexDigits THEN Fail(t, "string")
    ELSE IF Len(t.ucs) + 1 < UnitDigits THEN Advance([t EXCEPT !.ucs = Append(@, c)])
    ELSE LET unit == Unit[Append(t.ucs, c)]
             lone == t.high /\ unit # "low"
             pb == IF lone THEN Append(t.pb, Replacement) ELSE t.pb
         IN  IF unit = "high"
             THEN Advance(Go([t EXCEPT !.pb = pb, !.high = TRUE, !.ucs = <<>>], "need_escape"))
             ELSE Advance(Go([t EXCEPT !.high = FALSE, !.ucs = <<>>, !.pb = Append(pb,
                    IF unit # "low" THEN unit ELSE IF t.high THEN "pair" ELSE Replacement)],
                    Top(t).saved))

\* A high surrogate needs a second escape; without one it is replaced.
ReplaceHigh(t) == [Append1(t, Replacement) EXCEPT !.high = FALSE, !.ucs = <<>>]
NeedEscape(t, c) == IF c = "\\" THEN Advance(Go(t, "need_u"))
                                ELSE Redo(Go(ReplaceHigh(t), Top(t).saved))
NeedU(t, c) == IF c = "u" THEN Advance(Go(t, "escape_unicode"))
                          ELSE Redo(Go(ReplaceHigh(t), "string_escape"))

---------------------------------------------------------------------------
\* Arrays and objects.

\* depth++, and the new level reset; the level below waits in the state s.
Push(t, s) == IF Depth(t) >= MaxDepth - 1 THEN Fail(t, "depth")
              ELSE LET u == Go(t, s) IN Redo([u EXCEPT !.stack = Append(@, NewLevel)])

Array(t, c) ==
    IF c = "]"
    THEN IF Top(t).state = "array_after_sep" /\ Strict(t) THEN Fail(t, "unexpected")
         ELSE Advance(SkipWsThen(t, "finish"))
    ELSE Push(t, "array_add")

ArrayAdd(t, c) ==
    Redo(SetTop([t EXCEPT !.obj = NoValue],
                [Top(t) EXCEPT !.state = "eatws", !.saved = "array_sep",
                               !.current = <<"array", Append(@[2], t.obj)>>]))

ArraySep(t, c) ==
    CASE c = "]" -> Advance(SkipWsThen(t, "finish"))
      [] c = "," -> Advance(SkipWsThen(t, "array_after_sep"))
      [] OTHER -> Fail(t, "array")

ObjectFieldStart(t, c) ==
    CASE c = "}" -> IF Top(t).state = "object_field_start_after_sep" /\ Strict(t)
                    THEN Fail(t, "unexpected") ELSE Advance(SkipWsThen(t, "finish"))
      [] c \in Quotes -> Advance(Go([t EXCEPT !.pb = <<>>, !.quote = c], "object_field"))
      [] OTHER -> Fail(t, "key_name")

ObjectFieldEnd(t, c) ==
    IF c = ":" THEN Advance(SkipWsThen(t, "object_value")) ELSE Fail(t, "key_sep")

ObjectValue(t, c) == Push(t, "object_value_add")

\* json_object_object_add: a name met again gets the new value.
WithField(fields, k, v) ==
    IF \E i \in 1..Len(fields) : fields[i][1] = k
    THEN [i \in 1..Len(fields) |-> IF fields[i][1] = k THEN <<k, v>> ELSE fields[i]]
    ELSE Append(fields, <<k, v>>)

ObjectValueAdd(t, c) ==
    Redo(SetTop([t EXCEPT !.obj = NoValue],
                [Top(t) EXCEPT !.state = "eatws", !.saved = "object_sep", !.field = <<>>,
                     !.current = <<"object", WithField(@[2], Top(t).field, t.obj)>>]))

ObjectSep(t, c) ==
    CASE c = "}" -> Advance(SkipWsThen(t, "finish"))
      [] c = "," -> Advance(SkipWsThen(t, "object_field_start_after_sep"))
      [] OTHER -> Fail(t, "value_sep")

---------------------------------------------------------------------------
\* The loop.

Case(t, c) ==
    LET s == Top(t).state IN
    CASE s = "eatws" -> Eatws(t, c)
      [] s = "start" -> Start(t, c)
      [] s = "finish" -> FinishLevel(t, c)
      [] s = "inf" -> Inf(t, c)
      [] s = "null" -> NullOrNaN(t, c)
      [] s = "boolean" -> Boolean(t, c)
      [] s = "number" -> Number(t, c)
      [] s = "comment_start" -> CommentStart(t, c)
      [] s = "comment" -> Comment(t, c)
      [] s = "comment_eol" -> CommentEol(t, c)
      [] s = "comment_end" -> CommentEnd(t, c)
      [] s = "string" -> String(t, c)
      [] s = "string_escape" -> StringEscape(t, c)
      [] s = "escape_unicode" -> EscapeUnicode(t, c)
      [] s = "need_escape" -> NeedEscape(t, c)
      [] s = "need_u" -> NeedU(t, c)
      [] s \in {"array", "array_after_sep"} -> Array(t, c)
      [] s = "array_add" -> ArrayAdd(t, c)
      [] s = "array_sep" -> ArraySep(t, c)
      [] s \in {"object_field_start", "object_field_start_after_sep"} -> ObjectFieldStart(t, c)
      [] s = "object_field" -> ObjectField(t, c)
      [] s = "object_field_end" -> ObjectFieldEnd(t, c)
      [] s = "object_value" -> ObjectValue(t, c)
      [] s = "object_value_add" -> ObjectValueAdd(t, c)
      [] s = "object_sep" -> ObjectSep(t, c)

\* The code after the label out: c is the last character that was read.  On
\* success the levels are reset, but not the depth.
Return(t, c) ==
    LET e == CASE c = NUL /\ Top(t).state # "finish" /\ Top(t).saved # "finish" -> "eof"
               [] c # NUL /\ Top(t).state = "finish" /\ Depth(t) = 0
                          /\ Strict(t) /\ "trailing" \notin t.flags -> "unexpected"
               [] OTHER -> IF "utf8" \in t.flags /\ t.bytes # 0 THEN "utf8" ELSE t.err
    IN  IF e = "success"
        THEN [t EXCEPT !.done = TRUE, !.err = e, !.ret = Top(t).current,
                       !.stack = [i \in 1..Len(@) |-> NewLevel]]
        ELSE [t EXCEPT !.done = TRUE, !.err = e]

\* redo_char: a character goes through at most MaxRedo cases before the one
\* that takes it; json_tokener.c loops without a bound, "next" after the last
\* case tells whether it would go on
MaxRedo == 5
Redone(t, c) ==
    LET After[i \in 0 .. MaxRedo] ==
          IF i = 0 THEN Case(t, c)
          ELSE LET u == After[i - 1] IN IF u.next = "redo" THEN Case(u, c) ELSE u
    IN  After[MaxRedo]

Process(t, c) ==
    LET u == Redone(t, c) IN IF u.next = "out" \/ c = NUL THEN Return(u, c) ELSE u

\* json_tokener_validate_utf8: "lead" opens a character of two bytes that
\* "tail" ends; every other character is one of its own.
ValidUtf8(t, c) == IF t.bytes = 0 THEN c # "tail" ELSE c = "tail"

Run(t, c) ==
    IF "utf8" \notin t.flags THEN Process(t, c)
    ELSE IF ValidUtf8(t, c) THEN Process([t EXCEPT !.bytes = IF c = "lead" THEN 1 ELSE 0], c)
    ELSE Return([t EXCEPT !.err = "utf8"], "")

\* Slip: the depth is not looked at.
EndOfBufferAnywhere(t) ==
    Return([t EXCEPT !.err =
        IF Top(t).state = "eatws" /\ Top(t).saved = "finish" THEN "success" ELSE "continue"], "")

\* PEEK_CHAR finds the buffer at its end: the value is complete only at the
\* lowest level, after it.
EndOfBuffer(t) ==
    Return([t EXCEPT !.err =
        IF Depth(t) = 0 /\ Top(t).state = "eatws" /\ Top(t).saved = "finish"
        THEN "success" ELSE "continue"], "")

\* json_tokener_parse of a whole text.
Parse(text, flags) == FoldLeft(LAMBDA t, c : IF t.done THEN t ELSE Run(t, c), New(flags), text)
=============================================================================
