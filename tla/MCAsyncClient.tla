---------------------------- MODULE MCAsyncClient ----------------------------
(***************************************************************************)
(* AsyncClient for TLC's invariant run.  The view leaves out what neither  *)
(* a later step nor a property asks for, so that the rotations fit.        *)
(***************************************************************************)
EXTENDS AsyncClient

(* The event variable is a local of the service loop: read by "handle" only. *)
Dispatched == IF task = "handle" THEN event ELSE Nothing

(* Every property but TypeOK excepts early and hasty, and those that read  *)
(* left or stale except mixed; none of the three is ever undone.           *)
Excepted == early # {} \/ hasty
Told == IF mixed THEN <<>> ELSE <<left, stale>>

StateView ==
    <<conns, pcb, queue, rotation, posting, task, Dispatched, closing, dns, view,
      Excepted, IF Excepted THEN <<>> ELSE <<mixed, Told>> >>
=============================================================================
