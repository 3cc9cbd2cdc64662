------------------------------- MODULE MCSync -------------------------------
(***************************************************************************)
(* Values for the constants of Sync.                                       *)
(***************************************************************************)
EXTENDS Sync

TwoPriorities == {-1, 1}
OneUnit == [s \in Sems |-> 1]
=============================================================================
