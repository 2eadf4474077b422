------------------------------ MODULE ValueList -----------------------------
(***************************************************************************)
(* What a JSON array promises: a sequence of values in which a place that  *)
(* was skipped holds Null.  Every operation may refuse.                    *)
(***************************************************************************)
EXTENDS Sequences, Integers

CONSTANTS Elems, Null

VARIABLE items

Init == items = <<>>

\* a value at the place i (from 0), whatever the length was
Put(i, e) ==
    items' = [j \in 1 .. (IF i + 1 > Len(items) THEN i + 1 ELSE Len(items)) |->
                IF j = i + 1 THEN e ELSE IF j <= Len(items) THEN items[j] ELSE Null]

Delete(i, n) == i + n <= Len(items) /\ items' = SubSeq(items, 1, i) \o SubSeq(items, i + n + 1, Len(items))

CONSTANT MaxLength

Next ==
    \/ \E i \in 0 .. MaxLength, e \in Elems : Put(i, e)
    \/ \E i, n \in 0 .. MaxLength : Delete(i, n)

Spec == Init /\ [][Next]_items
=============================================================================
