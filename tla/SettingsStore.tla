---------------------------- MODULE SettingsStore ----------------------------
(***************************************************************************)
(* What ZZSettings promises about the flash, as one atomic store.  The     *)
(* power may fail at any moment: live values are lost, durable ones are    *)
(* not.  At boot the live values are computed from the durable ones.  A    *)
(* save replaces the durable content by the live one in one step or does   *)
(* nothing, and nothing else touches the durable content.                  *)
(***************************************************************************)
CONSTANTS Contents,        \* what the settings file may hold at first
          Written(_),      \* the file a save of some parameters leaves
          Recovered(_)     \* the parameters a boot may make of a file

VARIABLES live,      \* parameters in memory
          durable,   \* the settings file
          up         \* the settings are loaded

Init == /\ live = <<>>
        /\ durable \in Contents
        /\ up = FALSE

Load == /\ ~up /\ up'
        /\ live' \in Recovered(durable)
        /\ durable' = durable

Edit == /\ up /\ up'
        /\ durable' = durable

Save == /\ up /\ up'
        /\ durable' = Written(live)
        /\ live' = live

PowerLoss == /\ up' = FALSE
             /\ live' = <<>>
             /\ durable' = durable

Next == Load \/ Edit \/ Save \/ PowerLoss

Spec == Init /\ [][Next]_<<live, durable, up>>
=============================================================================
