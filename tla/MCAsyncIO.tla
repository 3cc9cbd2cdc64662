----------------------------- MODULE MCAsyncIO ------------------------------
(* Constants for model-checking AsyncIO. *)
EXTENDS AsyncIO

OnePriority == {0}
RoundRobin == {"round_robin"}
=============================================================================
