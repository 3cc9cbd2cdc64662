---------------------------- MODULE MCScheduler ----------------------------
(***************************************************************************)
(* Values for the constants of Scheduler.                                  *)
(***************************************************************************)
EXTENDS Scheduler

OnePriority == {0}
RoundRobin == {"round_robin"}
=============================================================================
