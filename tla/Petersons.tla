----------------------------- MODULE Petersons ------------------------------
(***************************************************************************)
(* demos/petersons/petersons.c on the scheduler: two workers that count    *)
(* under Peterson's lock, in round robin with preemption.  Each access to  *)
(* a shared variable is a step, in the order of the source, as compiled    *)
(* with -O0; LockHoisted is the order in which gcc -O3 makes them.         *)
(***************************************************************************)
EXTENDS Scheduler

CONSTANT Iterations

Worker == {1, 2}
Other(w) == 3 - w

ASSUME PetersonsAssumption == Iterations \in Nat /\ MaxThreads = 2

VARIABLES
  pc,        \* the next access of each worker
  flag, turn, counter, finished,
  temp,      \* the worker's register
  left,      \* ITERATIONS - i
  passed     \* ghost: how often the other one got in since the worker gave way

sharedVars == <<flag, turn, counter, finished>>
demoVars == <<pc, sharedVars, temp, left, passed>>

DemoInit ==
  /\ Init
  /\ pc = [w \in Worker |-> "flag"]
  /\ flag = [w \in Worker |-> 0]
  /\ turn = 1
  /\ counter = 0 /\ finished = 0
  /\ temp = [w \in Worker |-> 0]
  /\ left = [w \in Worker |-> Iterations]
  /\ passed = [w \in Worker |-> 0]

-----------------------------------------------------------------------------
At(w, label) == UserMode /\ cur = w /\ pc[w] = label
Goto(w, label) == pc' = [pc EXCEPT ![w] = label]

\* flag[self] = 1
SetFlag(w) ==
  /\ At(w, "flag")
  /\ flag' = [flag EXCEPT ![w] = 1]
  /\ Goto(w, "turn")
  /\ UNCHANGED <<vars, turn, counter, finished, temp, left, passed>>

\* turn = other
SetTurn(w) ==
  /\ At(w, "turn")
  /\ turn' = Other(w)
  /\ passed' = [passed EXCEPT ![w] = 0]
  /\ Goto(w, "testFlag")
  /\ UNCHANGED <<vars, flag, counter, finished, temp, left>>

\* lock() returns.
Enter(w) ==
  /\ Goto(w, "read")
  /\ passed' = [passed EXCEPT ![Other(w)] =
                  IF pc[Other(w)] \in {"testFlag", "testTurn"} THEN @ + 1 ELSE @]

\* flag[other] == 1
TestFlag(w) ==
  /\ At(w, "testFlag")
  /\ \/ flag[Other(w)] = 1 /\ Goto(w, "testTurn") /\ UNCHANGED passed
     \/ flag[Other(w)] # 1 /\ Enter(w)
  /\ UNCHANGED <<vars, sharedVars, temp, left>>

\* turn == other; the loop yields.
TestTurn(w) ==
  /\ At(w, "testTurn")
  /\ \/ turn = Other(w) /\ Yield /\ Goto(w, "testFlag") /\ UNCHANGED passed
     \/ turn # Other(w) /\ Enter(w) /\ UNCHANGED vars
  /\ UNCHANGED <<sharedVars, temp, left>>

\* Variant: flag[other] is read before turn is written, as gcc -O3 does.
LockHoisted(w) ==
  \/ /\ At(w, "flag")
     /\ flag' = [flag EXCEPT ![w] = 1]
     /\ temp' = [temp EXCEPT ![w] = flag[Other(w)]]
     /\ Goto(w, "turn")
     /\ UNCHANGED <<vars, turn, counter, finished, left, passed>>
  \/ /\ At(w, "turn")
     /\ turn' = Other(w)
     /\ IF temp[w] # 1 THEN Enter(w) ELSE Goto(w, "testFlag") /\ UNCHANGED passed
     /\ UNCHANGED <<vars, flag, counter, finished, temp, left>>
  \/ TestFlag(w)
  \/ TestTurn(w)

\* Variant: the caller does not give way.
LockRude(w) ==
  \/ /\ At(w, "flag")
     /\ flag' = [flag EXCEPT ![w] = 1]
     /\ passed' = [passed EXCEPT ![w] = 0]
     /\ Goto(w, "testFlag")
     /\ UNCHANGED <<vars, turn, counter, finished, temp, left>>
  \/ TestFlag(w)
  \/ TestTurn(w)

Lock(w) == SetFlag(w) \/ SetTurn(w) \/ TestFlag(w) \/ TestTurn(w)

\* temp = counter, or the read of finished++; some iterations yield here.
Read(w) ==
  /\ At(w, "read")
  /\ temp' = [temp EXCEPT ![w] = IF left[w] > 0 THEN counter ELSE finished]
  /\ Goto(w, "write")
  /\ UNCHANGED vars \/ (left[w] > 0 /\ Yield)
  /\ UNCHANGED <<sharedVars, left, passed>>

\* counter = temp + 1, or the write of finished++
Write(w) ==
  /\ At(w, "write")
  /\ \/ /\ left[w] > 0
        /\ counter' = temp[w] + 1
        /\ UNCHANGED finished
     \/ /\ left[w] = 0
        /\ finished' = temp[w] + 1
        /\ UNCHANGED counter
  /\ Goto(w, IF finished' = 2 THEN "report" ELSE "unlock")
  /\ UNCHANGED <<vars, flag, turn, temp, left, passed>>

\* exit(0) after the report
Report(w) ==
  /\ At(w, "report")
  /\ exited' = TRUE
  /\ UNCHANGED <<state, cur, ready, idle, prio, policy, nextId, asleep, watch,
                 due, epollOk, demoVars>>

\* Variant: the flag is not reset.
UnlockNone(w) ==
  /\ At(w, "unlock")
  /\ Goto(w, IF left[w] > 0 THEN "flag" ELSE "return")
  /\ left' = [left EXCEPT ![w] = IF @ > 0 THEN @ - 1 ELSE 0]
  /\ UNCHANGED <<vars, sharedVars, temp, passed>>

\* flag[self] = 0, and the end of the iteration
Unlock(w) ==
  /\ At(w, "unlock")
  /\ flag' = [flag EXCEPT ![w] = 0]
  /\ Goto(w, IF left[w] > 0 THEN "flag" ELSE "return")
  /\ left' = [left EXCEPT ![w] = IF @ > 0 THEN @ - 1 ELSE 0]
  /\ UNCHANGED <<vars, turn, counter, finished, temp, passed>>

Return(w) == At(w, "return") /\ Exit /\ UNCHANGED demoVars

WorkerStep(w) ==
  Lock(w) \/ Read(w) \/ Write(w) \/ Report(w) \/ Unlock(w) \/ Return(w)

\* main creates the workers and exits.
MainStep ==
  /\ cur = Main
  /\ Create(0) \/ (nextId = 3 /\ Exit)
  /\ UNCHANGED demoVars

DemoNext ==
  \/ MainStep
  \/ \E w \in Worker : WorkerStep(w)
  \/ (Alarm \/ Terminated) /\ UNCHANGED demoVars

(***************************************************************************)
(* Alarms may come between any two steps; a thread that gets the processor *)
(* again and again makes its next step.                                    *)
(***************************************************************************)
DemoSpec ==
  /\ DemoInit
  /\ [][DemoNext]_<<vars, demoVars>>
  /\ WF_<<vars, demoVars>>(Alarm /\ UNCHANGED demoVars)
  /\ SF_<<vars, demoVars>>(MainStep)
  /\ \A w \in Worker : SF_<<vars, demoVars>>(WorkerStep(w))

-----------------------------------------------------------------------------
(***************************************************************************)
(* Correctness.                                                            *)
(***************************************************************************)

DemoTypeOK ==
  /\ pc \in [Worker -> {"flag", "turn", "testFlag", "testTurn", "read", "write",
                        "report", "unlock", "return"}]
  /\ flag \in [Worker -> {0, 1}]
  /\ turn \in Worker
  /\ counter \in Nat /\ finished \in Nat
  /\ temp \in [Worker -> Nat]
  /\ left \in [Worker -> 0 .. Iterations]
  /\ passed \in [Worker -> Nat]

Inside(w) == pc[w] \in {"read", "write", "report", "unlock"}

\* petersons_analysis.md: both workers are never between lock and unlock.
WorkersExclude == ~(Inside(1) /\ Inside(2))

\* "Final counter value: %d (Expected: %d)": no increment is lost.
CountsAll == \A w \in Worker : pc[w] = "report" => counter = 2 * Iterations

\* "a thread waits at most one turn": once it has given way, the other worker
\* gets in at most once before it, wherever the alarms fall.
BoundedWaiting == \A w \in Worker : passed[w] <= 1

\* The demo comes to its report.
Reports == <>exited

=============================================================================
