-------------------------- MODULE MCIntrusiveList ---------------------------
(* Constants for model-checking IntrusiveList. *)
EXTENDS IntrusiveList, TLC

\* All TCBs but that of main are alike, and no property is about liveness.
Alike == Permutations(Thread \ {First})
=============================================================================
