------------------------------ MODULE MCSwdSystem ------------------------------
(* SwdSystem with the menu, the server, the main task and two flash tasks.   *)
EXTENDS SwdSystem

Ready == [known |-> TRUE, locked |-> FALSE, loader |-> TRUE]
ReadyTargets == {Ready}
=============================================================================
