----------------------------- MODULE MCChannel ------------------------------
(* Constants for model-checking Channel. *)
EXTENDS Channel

OnePriority == {0}
RoundRobin == {"round_robin"}
OneMutex == {mutex}
TwoSems == {space, messages}
ChannelUnits == [s \in TwoSems |-> IF s = space THEN Capacity ELSE 0]

=============================================================================
