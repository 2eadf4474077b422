----------------------------- MODULE OrderedMap -----------------------------
(***************************************************************************)
(* What a JSON object promises of its fields: an ordered map.  A new key   *)
(* goes to the end, a replaced value stays in its place, a deleted key     *)
(* leaves the order of the others alone.  Every operation may refuse.      *)
(***************************************************************************)
EXTENDS Sequences, Naturals

CONSTANTS Keys, Vals

VARIABLE fields      \* sequence of <<key, value>>

Has(key) == \E i \in DOMAIN fields : fields[i][1] = key

Init == fields = <<>>

Append1(key, val) ==
    /\ ~ Has(key)
    /\ fields' = Append(fields, <<key, val>>)

Replace(key, val) ==
    /\ Has(key)
    /\ fields' = [i \in DOMAIN fields |->
                    IF fields[i][1] = key THEN <<key, val>> ELSE fields[i]]

Delete(key) ==
    \E p \in DOMAIN fields :
        /\ fields[p][1] = key
        /\ fields' = [i \in 1 .. Len(fields) - 1 |-> fields[IF i < p THEN i ELSE i + 1]]

Next == \E key \in Keys :
          \/ \E val \in Vals : Append1(key, val) \/ Replace(key, val)
          \/ Delete(key)

Spec == Init /\ [][Next]_fields
=============================================================================
