---------------------------- MODULE MCClosedSlots ----------------------------
(* ClosedSlots on small instances; addresses are interchangeable. *)
EXTENDS ClosedSlots, TLC

Symmetry == Permutations(Pcbs)
=============================================================================
