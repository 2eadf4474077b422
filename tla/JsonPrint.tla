----------------------------- MODULE JsonPrint -----------------------------
(***************************************************************************)
(* json_object_to_json_string_ext (json_object.c): ToText(v, style) is the  *)
(* text, as a sequence of characters, of the value v.  A style is a set of *)
(* the flags "spaced", "pretty", "tab" and "noslash".  A number with a     *)
(* fraction prints the text it was read from (json_object_new_double_s),   *)
(* so that the formats of json_object_double_to_json_string_format that    *)
(* start from a double are left out.                                       *)
(***************************************************************************)
EXTENDS Tokener

Styles == {{}, {"spaced"}, {"pretty"}, {"spaced", "pretty", "tab"}, {"noslash"}}

\* Characters below the space other than those with an escape of one letter.
Control == {NUL}

\* json_escape_str, one character: the digits of \u00XX are those of Unit.
EscapeLetter(c) == CHOOSE l \in DOMAIN Escapes : Escapes[l] = c
\* Slip: a control character is printed as it is.
EscapedLetters(c, style) ==
    CASE c \in Range(Escapes) -> <<"\\", EscapeLetter(c)>>
      [] c \in {"\"", "\\"} -> <<"\\", c>>
      [] OTHER -> <<c>>
Escaped(c, style) ==
    CASE c \in Range(Escapes) -> <<"\\", EscapeLetter(c)>>
      [] c \in {"\"", "\\"} -> <<"\\", c>>
      [] c = "/" /\ "noslash" \notin style -> <<"\\", c>>
      [] c \in Control -> <<"\\", "u">> \o (CHOOSE ds \in DOMAIN Unit : Unit[ds] = c)
      [] OTHER -> <<c>>
Quoted(text, style) == <<"\"">> \o FlattenSeq([i \in 1..Len(text) |-> Escaped(text[i], style)])
                                \o <<"\"">>

DigitsOf[n \in Nat] == IF n < 10 THEN <<DigitText[n + 1]>>
                                 ELSE Append(DigitsOf[n \div 10], DigitText[(n % 10) + 1])

Indent(level, style) ==
    IF "pretty" \notin style THEN <<>>
    ELSE IF "tab" \in style THEN [i \in 1..level |-> "\t"]
                            ELSE [i \in 1..2 * level |-> " "]

\* What comes before an item, and before the bracket that closes n items.
Gap(style) == IF "spaced" \in style /\ "pretty" \notin style THEN <<" ">> ELSE <<>>
NewLine(style) == IF "pretty" \in style THEN <<"\n">> ELSE <<>>
Before(i, level, style) ==
    (IF i > 1 THEN <<",">> ELSE <<>>) \o NewLine(style) \o Gap(style) \o Indent(level + 1, style)
Closing(n, level, style) ==
    (IF n > 0 THEN NewLine(style) \o Indent(level, style) ELSE <<>>) \o Gap(style)

RECURSIVE TextAt(_, _, _)
ArrayText(items, level, style) ==
    <<"[">> \o FlattenSeq([i \in 1..Len(items) |->
                 Before(i, level, style) \o TextAt(items[i], level + 1, style)])
            \o Closing(Len(items), level, style) \o <<"]">>
ObjectText(fields, level, style) ==
    <<"{">> \o FlattenSeq([i \in 1..Len(fields) |->
                 Before(i, level, style) \o Quoted(CString(fields[i][1]), style)
                 \o (IF "spaced" \in style THEN <<":", " ">> ELSE <<":">>)
                 \o TextAt(fields[i][2], level + 1, style)])
            \o Closing(Len(fields), level, style) \o <<"}">>
TextAt(v, level, style) ==
    CASE v[1] = "null" -> NullText
      [] v[1] = "bool" -> IF v[2] THEN TrueText ELSE FalseText
      [] v[1] = "int" -> IF v[2] < 0 THEN <<"-">> \o DigitsOf[-v[2]] ELSE DigitsOf[v[2]]
      [] v[1] = "double" -> v[2]
      [] v[1] = "str" -> Quoted(v[2], style)
      [] v[1] = "array" -> ArrayText(v[2], level, style)
      [] v[1] = "object" -> ObjectText(v[2], level, style)

ToText(v, style) == TextAt(v, 0, style)

-----------------------------------------------------------------------------
\* What is printed of a value, in every style, is a text that is read as the
\* same value, strictly or not.  (Not strictly, "1e" is read as a double that
\* keeps the text "1", and that text is read as an integer.)
ReadsBack(v) ==
    \A style \in Styles, flags \in {{}, {"strict"}} :
        LET t == Parse(Append(ToText(v, style), NUL), flags) IN
        t.err = "success" /\ t.ret = v
=============================================================================
