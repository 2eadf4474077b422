----------------------------- MODULE JsonNumber -----------------------------
(***************************************************************************)
(* The numbers of json_object.c: an int is an int64 or a uint64 that       *)
(* shares its memory, json_object_int_inc moves between the two, and every *)
(* value is read as an int, an int64, a uint64 or a double.  The widths    *)
(* are constants.  A double is modelled by its half units, so that it can  *)
(* lie between two integers; a string by the number it begins with.        *)
(***************************************************************************)
EXTENDS Integers

CONSTANTS
    I32Max,     \* INT32_MAX
    I64Max,     \* INT64_MAX
    Doubles,    \* the half units of the doubles the application has
    Texts       \* the strings: [blank, value, rest], see Text

I32Min == -I32Max - 1
I64Min == -I64Max - 1
U64Max == 2 * I64Max + 1

Int64 == I64Min .. I64Max
Uint64 == 0 .. U64Max

\* What a string holds: the blank it begins with, whether digits follow, their
\* value, and whether something else comes behind them.
Text == [blank : {"", "space", "tab"}, digits : BOOLEAN, value : Int, rest : BOOLEAN]

\* What the constants have to be; the modules that use this one assume it.
WidthAssumption ==
    /\ I32Max \in Nat /\ I64Max \in Nat /\ I32Max < I64Max
    /\ Doubles \subseteq Int /\ Texts \subseteq Text

VARIABLES
    num,    \* the json_object: its kind and its value, in a tuple; a double that is
            \* not a number has the kind "nan"
    last    \* what the last json_object_int_inc was asked to add to which value

vars == <<num, last>>

Kind == num[1]
Val == num[2]

\* the conversions of C between the two 64-bit types
ToUnsigned(x) == IF x < 0 THEN x + U64Max + 1 ELSE x
ToSigned(x) == IF x > I64Max THEN x - U64Max - 1 ELSE x

\* Slip: a uint64 that is decremented stays one.
IncUnsigned(kind, v, val) ==
    IF kind = "int64"
    THEN IF val > 0 /\ v > I64Max - val THEN <<"uint64", v + val>>
         ELSE IF val < 0 /\ v < I64Min - val THEN <<"int64", I64Min>>
         ELSE <<"int64", v + val>>
    ELSE IF val > 0 /\ v > U64Max - val THEN <<"uint64", U64Max>>
         ELSE <<"uint64", (v + ToUnsigned(val)) % (U64Max + 1)>>

\* json_object_int_inc: the kind and the value it leaves
Inc(kind, v, val) ==
    IF kind = "int64"
    THEN IF val > 0 /\ v > I64Max - val THEN <<"uint64", (ToUnsigned(v) + ToUnsigned(val)) % (U64Max + 1)>>
         ELSE IF val < 0 /\ v < I64Min - val THEN <<"int64", I64Min>>
         ELSE <<"int64", v + val>>
    ELSE IF val > 0 /\ v > U64Max - ToUnsigned(val) THEN <<"uint64", U64Max>>
         ELSE IF val < 0 /\ v < ToUnsigned(-val) THEN <<"int64", ToSigned(v) + val>>
         ELSE IF val < 0 THEN <<"uint64", v - ToUnsigned(-val)>>
         ELSE <<"uint64", v + val>>

\* a double, in half units, cast to an integer
Cast(d) == IF d < 0 THEN -((-d) \div 2) ELSE d \div 2

Clamp(lo, x, hi) == IF x < lo THEN lo ELSE IF x > hi THEN hi ELSE x

\* strtoll and strtoull: the value, its range kept; json_parse_uint64 looks for
\* the sign behind spaces only, and strtoull negates what it reads
ParsedInt64(s) == IF ~ s.digits THEN 0 ELSE Clamp(I64Min, s.value, I64Max)
ParsedUint64(s) ==
    IF ~ s.digits THEN 0
    ELSE IF s.value >= 0 THEN Clamp(0, s.value, U64Max)
    ELSE IF s.blank # "tab" THEN 0
    ELSE IF -s.value > U64Max THEN U64Max ELSE U64Max + 1 + s.value

\* json_object_get_int64: the results it can have; casting NaN is undefined
GetInt64 ==
    CASE Kind = "int64" -> {Val}
      [] Kind = "uint64" -> {IF Val >= I64Max THEN I64Max ELSE Val}
      [] Kind = "nan" -> Int64
      [] Kind = "double" -> IF Val >= 2 * (I64Max + 1) THEN {I64Max}
                            ELSE IF Val <= 2 * I64Min THEN {I64Min} ELSE {Cast(Val)}
      [] Kind = "boolean" -> {Val}
      [] Kind = "string" -> {ParsedInt64(Val)}

\* json_object_get_uint64
GetUint64 ==
    CASE Kind = "int64" -> {IF Val < 0 THEN 0 ELSE Val}
      [] Kind = "uint64" -> {Val}
      [] Kind = "nan" -> Uint64
      [] Kind = "double" -> IF Val >= 2 * (U64Max + 1) THEN {U64Max}
                            ELSE IF Val < 0 THEN {0} ELSE {Cast(Val)}
      [] Kind = "boolean" -> {Val}
      [] Kind = "string" -> {ParsedUint64(Val)}

\* json_object_get_int: through an int64, except for a double
GetInt ==
    CASE Kind = "nan" -> I32Min .. I32Max
      [] Kind = "double" -> IF Val <= 2 * I32Min THEN {I32Min}
                            ELSE IF Val >= 2 * I32Max THEN {I32Max} ELSE {Cast(Val)}
      [] OTHER -> {IF v <= I32Min THEN I32Min ELSE IF v >= I32Max THEN I32Max ELSE v : v \in GetInt64}

\* json_object_get_double, in half units
GetDouble ==
    CASE Kind = "double" -> Val
      [] Kind = "string" -> IF ~ Val.digits \/ Val.rest THEN 0 ELSE 2 * Val.value
      [] OTHER -> 2 * Val

\* json_object_get_boolean
GetBoolean ==
    CASE Kind = "nan" -> TRUE
      [] Kind = "string" -> Val.blank # "" \/ Val.digits \/ Val.rest
      [] OTHER -> Val # 0
-----------------------------------------------------------------------------
\* json_object_new_int, _int64, _uint64, _double, _boolean, _string
News == {<<"int64", v>> : v \in Int64} \cup {<<"uint64", v>> : v \in Uint64}
        \cup {<<"double", d>> : d \in Doubles} \cup {<<"nan", 0>>}
        \cup {<<"boolean", b>> : b \in {0, 1}} \cup {<<"string", s>> : s \in Texts}

Init == num \in News /\ last = <<>>

\* json_object_set_int, json_object_set_int64
SetInt64(v) ==
    /\ Kind \in {"int64", "uint64"}
    /\ num' = <<"int64", v>>
    /\ last' = <<>>

\* json_object_set_uint64
SetUint64(v) ==
    /\ Kind \in {"int64", "uint64"}
    /\ num' = <<"uint64", v>>
    /\ last' = <<>>

\* json_object_set_double
SetDouble(new) ==
    /\ Kind \in {"double", "nan"}
    /\ num' = new
    /\ last' = <<>>

\* json_object_set_boolean
SetBoolean(b) ==
    /\ Kind = "boolean"
    /\ num' = <<"boolean", b>>
    /\ last' = <<>>

IntInc(val) ==
    /\ Kind \in {"int64", "uint64"}
    /\ num' = Inc(Kind, Val, val)
    /\ last' = <<Val, val>>

Next ==
    \/ \E v \in Int64 : SetInt64(v) \/ IntInc(v)
    \/ \E v \in Uint64 : SetUint64(v)
    \/ \E new \in {<<"double", d>> : d \in Doubles} \cup {<<"nan", 0>>} : SetDouble(new)
    \/ \E b \in {0, 1} : SetBoolean(b)

Spec == Init /\ [][Next]_vars
-----------------------------------------------------------------------------
(***************************************************************************)
(* Properties                                                              *)
(***************************************************************************)
\* The type of the state: the value fits the memory of its kind.
TypeOK ==
    /\ Kind = "int64" => Val \in Int64
    /\ Kind = "uint64" => Val \in Uint64
    /\ Kind \in {"int64", "uint64", "double", "nan", "boolean", "string"}

\* json_object_int_inc adds, and stops at INT64_MIN and UINT64_MAX whatever the
\* sign, the kind and the increment: it never wraps.
IncSaturates == last # <<>> => Val = Clamp(I64Min, last[1] + last[2], U64Max)

\* What the value is, in half units.
Meaning ==
    CASE Kind = "double" -> Val
      [] Kind = "string" -> IF ~ Val.digits THEN 0 ELSE 2 * Val.value
      [] OTHER -> 2 * Val

\* Each way to read a number gives the number, without its fraction, or the
\* nearest number its type has; except for NaN, and for a negative number
\* behind a tab, which json_parse_uint64 does not see to be negative.
ReadsNearest ==
    Kind # "nan" =>
        /\ GetInt = {Clamp(I32Min, Cast(Meaning), I32Max)}
        /\ GetInt64 = {Clamp(I64Min, Cast(Meaning), I64Max)}
        /\ ~ (Kind = "string" /\ Val.blank = "tab") =>
             GetUint64 = {Clamp(0, Cast(Meaning), U64Max)}
        /\ ~ (Kind = "string" /\ Val.rest) => GetDouble = Meaning
        /\ Kind # "string" => GetBoolean = (Meaning # 0)

\* Numbers stay in their memory, increments saturate, reads are the nearest.
NumbersKept == TypeOK /\ IncSaturates /\ ReadsNearest
=============================================================================
