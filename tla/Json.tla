-------------------------------- MODULE Json --------------------------------
(***************************************************************************)
(* libjson.  Its parts share no state, so they stand side by side: a       *)
(* behaviour chooses a part and only that part takes steps, the others     *)
(* stay as they begin.  The table is this module's own (EXTENDS), the      *)
(* others are instances.                                                   *)
(***************************************************************************)
EXTENDS LinkHash

CONSTANTS
    Elems, Junk, ListSize, SizeMax, PtrSize,                            \* ArrayList
    BufferSize, Slack, BufferMax,                                       \* PrintBuf
    I32Max, NumberMax, Doubles, Texts,                                  \* JsonNumber
    Nodes, TreeKeys, MaxTree, MaxCopied, MaxLength, MaxHeld, MaxData,   \* JsonObject
    MaxDepth, TextMax, UnitDigits, Unit, Alphabets,                     \* JsonText
    Null                                                                \* NULL

VARIABLES
    part,                                                                  \* the part that runs
    array, length, owner, twice, stored,                                   \* ArrayList
    allocated, bpos, top, ended, printed,                                  \* PrintBuf
    num, last,                                                             \* JsonNumber
    kind, leaf, slots, ref, data, held, puts, copy, done,                  \* JsonObject
    alphabet, whole, pieces, spoiled                                       \* JsonText

listVars   == <<array, length, owner, twice, stored>>
bufferVars == <<allocated, bpos, top, ended, printed>>
numberVars == <<num, last>>
treeVars   == <<kind, leaf, slots, ref, data, held, puts, copy, done>>
textVars   == <<alphabet, whole, pieces, spoiled>>
jsonVars   == <<part, vars, textVars, listVars, bufferVars, numberVars, treeVars>>

List == INSTANCE ArrayList WITH InitialSize <- ListSize, ret <- stored

Buffer == INSTANCE PrintBuf WITH
            InitialSize <- BufferSize, IntMax <- BufferMax, size <- allocated, ret <- printed

Numbers == INSTANCE JsonNumber WITH I64Max <- NumberMax

Tree == INSTANCE JsonObject WITH Keys <- TreeKeys

Parser == INSTANCE JsonText WITH I64Max <- TextMax

ASSUME PartAssumptions ==
    /\ LinkHashAssumption /\ List!ArrayListAssumption
    /\ Buffer!PrintBufAssumption /\ Numbers!WidthAssumption
    /\ Tree!TreeAssumption /\ Parser!TokenerAssumption

Parts == {"text", "table", "list", "buffer", "numbers", "tree"}

JsonInit ==
    /\ part \in Parts
    /\ Init /\ List!Init /\ Buffer!Init /\ Tree!Init
    /\ Parser!Init /\ (part = "text" \/ alphabet = CHOOSE a \in Alphabets : TRUE)
    /\ Numbers!Init /\ (part = "numbers" \/ num = <<"boolean", 0>>)

JsonNext ==
    /\ UNCHANGED part
    /\ \/ part = "table"
          /\ UNCHANGED <<textVars, listVars, bufferVars, numberVars, treeVars>>
          /\ Next
       \/ part = "text"
          /\ UNCHANGED <<vars, listVars, bufferVars, numberVars, treeVars>>
          /\ Parser!Next
       \/ part = "list"
          /\ UNCHANGED <<vars, textVars, bufferVars, numberVars, treeVars>>
          /\ List!Next
       \/ part = "buffer"
          /\ UNCHANGED <<vars, textVars, listVars, numberVars, treeVars>>
          /\ Buffer!Next
       \/ part = "numbers"
          /\ UNCHANGED <<vars, textVars, listVars, bufferVars, treeVars>>
          /\ Numbers!Next
       \/ part = "tree"
          /\ UNCHANGED <<vars, textVars, listVars, bufferVars, numberVars>>
          /\ Tree!Next

JsonSpec == JsonInit /\ [][JsonNext]_jsonVars

-----------------------------------------------------------------------------
(* The properties of the parts, looked at where their part runs.  Those of *)
(* the table are LinkHash's (TableSound, ImplementsMap), which hold where  *)
(* it stays as it began, too.                                              *)

\* An array is the sequence of its values, gaps included, and a foreach loop
\* visits the fields of an object in sequence.
SequencesKept == List!ImplementsList /\ ForeachVisitsAllUnlessSpoiled

\* At the limits of int and int64: printbuf.c writes inside its memory and its
\* sums do not overflow; increments saturate, and reads give the nearest number
\* of their type.
LimitsKept ==
    /\ part = "buffer" => Buffer!BufferSafe
    /\ part = "numbers" => Numbers!NumbersKept

\* Every json_object has as many references as it counts and none is lost; a
\* value in an array is there once and is not freed there.
OwnershipExact ==
    /\ part = "tree" => Tree!TypeOK /\ Tree!RefsExact /\ Tree!NothingLost
    /\ part = "list" => List!TypeOK /\ List!OwnedOnce

\* Deep copies are equal and apart, and json_object_equal compares values.
CopiesEqual == part = "tree" => Tree!CopyIsEqualAndApart /\ Tree!EqualIsSameValue

\* A text gives the same value whole and in pieces, in a new tokener and in a
\* used one; what the strict tokener reads the lenient one reads as well.
SameValueRead == part = "text" => Parser!TypeOK /\ Parser!PiecesAgree /\ Parser!StrictAgrees

\* A call succeeds only when every array and object it opened was closed,
\* unless the text ends inside a comment.
ClosedOnSuccess == Parser!ClosedOnSuccess
=============================================================================
