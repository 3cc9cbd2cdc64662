---------------------------- MODULE MCPetersons -----------------------------
(* Constants for model-checking Petersons. *)
EXTENDS Petersons

OnePriority == {0}
RoundRobin == {"round_robin"}
=============================================================================
