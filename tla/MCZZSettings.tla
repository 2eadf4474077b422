---------------------------- MODULE MCZZSettings ----------------------------
(***************************************************************************)
(* ZZSettings with two firmware versions: old knows a; new narrows the     *)
(* range of a and adds the read-only b.  x is known to neither.            *)
(***************************************************************************)
EXTENDS ZZSettings

CONSTANTS a, b, x, v1, v2, v3

P(n, range, readonly, v) == [name |-> n, range |-> range, readonly |-> readonly, value |-> v]

MCFirmware == {"old", "new"}
MCFactory == [f \in MCFirmware |->
    IF f = "old" THEN <<P(a, {v1, v2}, FALSE, v1)>>
                 ELSE <<P(a, {v2, v3}, FALSE, v2), P(b, {v1, v2}, TRUE, v1)>>]

(* Files found at the first boot: none, damaged, from firmware without the *)
(* trailer, and whole ones with unknown and with invalid parameters.       *)
MCFirstFiles ==
    {NoFile, Damaged,
     Legacy(<<P(a, {v1, v2}, FALSE, v2)>>),
     Whole(<<P(x, {v1, v3}, FALSE, v3), P(a, {v1, v2, v3}, FALSE, v3)>>),
     Whole(<<P(a, {v1}, TRUE, v1), P(x, {v1}, FALSE, v2)>>)}

MCOnlyNoFile == {NoFile}

(* One update, and two of which any may be unknown, invalid or read-only. *)
U(n, v) == [name |-> n, value |-> v]
MCRequests ==
    {<<U(b, v2)>>, <<U(a, v2), U(x, v1)>>, <<U(x, v1), U(a, v3)>>, <<U(a, v3), U(b, v3)>>,
     <<U(a, v3), U(b, v2)>>, <<U(a, v1), U(a, v2)>>}
MCNoRequests == {}

MCNoParams == {}
MCAppParams == {P(x, {v1, v3}, FALSE, v1)}
=============================================================================
