-------------------------- MODULE PetersonsProofs ---------------------------
(***************************************************************************)
(* For any number of iterations, and wherever the alarms fall, the workers *)
(* of demos/petersons exclude each other and report the right count.       *)
(***************************************************************************)
EXTENDS Petersons, TLAPS

\* What a worker has added to counter, and to finished.
Added(w) ==
  Iterations - left[w] + (IF pc[w] = "unlock" /\ left[w] > 0 THEN 1 ELSE 0)

Ended(w) == IF left[w] = 0 /\ pc[w] \in {"unlock", "report", "return"} THEN 1 ELSE 0

\* A worker that is inside keeps the other out: it has not begun, or waits for
\* a turn that is not its own.
KeptOut(w) ==
  \/ pc[w] \in {"flag", "turn", "return"}
  \/ pc[w] \in {"testFlag", "testTurn"} /\ turn = Other(w)

LockInv ==
  \A w \in Worker :
    /\ flag[w] = 1 <=> pc[w] \notin {"flag", "return"}
    /\ Inside(w) => KeptOut(Other(w))

CountInv ==
  /\ \A w \in Worker :
       /\ pc[w] = "write" => temp[w] = IF left[w] > 0 THEN counter ELSE finished
       /\ pc[w] = "return" => left[w] = 0
       /\ pc[w] = "report" => left[w] = 0 /\ finished = 2
  /\ counter = Added(1) + Added(2)
  /\ finished = Ended(1) + Ended(2)

\* After the other has got in once it cannot again while this one waits.
WaitInv ==
  \A w \in Worker :
    /\ passed[w] <= 1
    /\ pc[w] \in {"testFlag", "testTurn"} /\ passed[w] = 1
         => Inside(Other(w)) \/ KeptOut(Other(w))

DemoInv == DemoTypeOK /\ LockInv /\ WaitInv /\ CountInv

-----------------------------------------------------------------------------
(* No step of a worker, nor of the scheduler, breaks the invariant. *)

LEMMA InitDemo == DemoInit => DemoInv
BY PetersonsAssumption DEF DemoInit, DemoInv, DemoTypeOK, LockInv, WaitInv, CountInv,
   Worker, Inside, Added, Ended

LEMMA LockKeeps ==
  ASSUME DemoInv, NEW w \in Worker, Lock(w)
  PROVE  DemoInv'
<1> USE PetersonsAssumption DEF DemoInv, DemoTypeOK, Worker, Other, At, Goto
<1>1. CASE SetFlag(w)
  <2>1. DemoTypeOK' BY <1>1 DEF SetFlag
  <2>2. LockInv' BY <1>1 DEF SetFlag, LockInv, Inside, KeptOut
  <2>3. WaitInv' BY <1>1 DEF SetFlag, WaitInv, LockInv, Inside, KeptOut
  <2>4. CountInv' BY <1>1 DEF SetFlag, CountInv, Added, Ended
  <2> QED BY <2>1, <2>2, <2>3, <2>4
<1>2. CASE SetTurn(w)
  <2>1. DemoTypeOK' BY <1>2 DEF SetTurn
  <2>2. LockInv' BY <1>2 DEF SetTurn, LockInv, Inside, KeptOut
  <2>3. WaitInv' BY <1>2 DEF SetTurn, WaitInv, LockInv, Inside, KeptOut
  <2>4. CountInv' BY <1>2 DEF SetTurn, CountInv, Added, Ended
  <2> QED BY <2>1, <2>2, <2>3, <2>4
<1>3. CASE TestFlag(w)
  <2>1. DemoTypeOK' BY <1>3 DEF TestFlag, Enter, sharedVars
  <2>2. LockInv' BY <1>3 DEF TestFlag, Enter, sharedVars, LockInv, Inside, KeptOut
  <2>3. WaitInv' BY <1>3 DEF TestFlag, Enter, sharedVars, WaitInv, LockInv, Inside, KeptOut
  <2>4. CountInv' BY <1>3 DEF TestFlag, Enter, sharedVars, CountInv, Added, Ended
  <2> QED BY <2>1, <2>2, <2>3, <2>4
<1>4. CASE TestTurn(w)
  <2>1. DemoTypeOK' BY <1>4 DEF TestTurn, Enter, sharedVars
  <2>2. LockInv' BY <1>4 DEF TestTurn, Enter, sharedVars, LockInv, Inside, KeptOut
  <2>3. WaitInv' BY <1>4 DEF TestTurn, Enter, sharedVars, WaitInv, LockInv, Inside, KeptOut
  <2>4. CountInv' BY <1>4 DEF TestTurn, Enter, sharedVars, CountInv, Added, Ended
  <2> QED BY <2>1, <2>2, <2>3, <2>4
<1> QED BY <1>1, <1>2, <1>3, <1>4 DEF Lock

LEMMA SectionKeeps ==
  ASSUME DemoInv, NEW w \in Worker, Read(w) \/ Write(w) \/ Unlock(w)
  PROVE  DemoInv'
<1> USE PetersonsAssumption DEF DemoInv, DemoTypeOK, Worker, Other, At, Goto, sharedVars
<1>1. CASE Read(w)
  <2>1. DemoTypeOK' BY <1>1 DEF Read
  <2>2. LockInv' BY <1>1 DEF Read, LockInv, Inside, KeptOut
  <2>3. WaitInv' BY <1>1 DEF Read, WaitInv, LockInv, Inside, KeptOut
  <2>4. CountInv' BY <1>1 DEF Read, CountInv, Added, Ended
  <2> QED BY <2>1, <2>2, <2>3, <2>4
<1>2. CASE Write(w)
  <2>1. DemoTypeOK' BY <1>2 DEF Write
  <2>2. LockInv' BY <1>2 DEF Write, LockInv, Inside, KeptOut
  <2>3. WaitInv' BY <1>2 DEF Write, WaitInv, LockInv, Inside, KeptOut
  <2>4. CountInv' BY <1>2 DEF Write, CountInv, LockInv, Inside, KeptOut, Added, Ended
  <2> QED BY <2>1, <2>2, <2>3, <2>4
<1>3. CASE Unlock(w)
  <2>1. DemoTypeOK' BY <1>3 DEF Unlock
  <2>2. LockInv' BY <1>3 DEF Unlock, LockInv, Inside, KeptOut
  <2>3. WaitInv' BY <1>3 DEF Unlock, WaitInv, LockInv, Inside, KeptOut
  <2>4. CountInv' BY <1>3 DEF Unlock, CountInv, Added, Ended
  <2> QED BY <2>1, <2>2, <2>3, <2>4
<1> QED BY <1>1, <1>2, <1>3

LEMMA StepDemo == DemoInv /\ [DemoNext]_<<vars, demoVars>> => DemoInv'
<1> SUFFICES ASSUME DemoInv, [DemoNext]_<<vars, demoVars>> PROVE DemoInv'
  OBVIOUS
<1>1. CASE UNCHANGED demoVars
  BY <1>1 DEF DemoInv, DemoTypeOK, LockInv, WaitInv, CountInv, Inside, KeptOut, Added,
     Ended, demoVars, sharedVars
<1>2. CASE \E w \in Worker : WorkerStep(w)
  <2> PICK w \in Worker : WorkerStep(w)  BY <1>2
  <2>1. CASE Report(w) \/ Return(w)
    BY <2>1, <1>1 DEF Report, Return, demoVars
  <2> QED BY <2>1, LockKeeps, SectionKeeps DEF WorkerStep
<1> QED BY <1>1, <1>2 DEF DemoNext, MainStep

LEMMA DemoInvariant == DemoSpec => []DemoInv
BY InitDemo, StepDemo, PTL DEF DemoSpec

-----------------------------------------------------------------------------
(***************************************************************************)
(* lock() of petersons.c, compiled in the order of its source, lets one    *)
(* worker in at a time, for any number of iterations.                      *)
(***************************************************************************)
THEOREM PetersonExcludes == DemoSpec => []WorkersExclude
<1>1. DemoInv => WorkersExclude
  BY DEF DemoInv, LockInv, WorkersExclude, Inside, KeptOut, Worker, Other
<1> QED BY <1>1, DemoInvariant, PTL

(***************************************************************************)
(* A worker that has given way is overtaken at most once.                  *)
(***************************************************************************)
THEOREM WaitIsBounded == DemoSpec => []BoundedWaiting
<1>1. DemoInv => BoundedWaiting
  BY DEF DemoInv, WaitInv, BoundedWaiting
<1> QED BY <1>1, DemoInvariant, PTL

(***************************************************************************)
(* The worker that reports finds every increment of both in the counter,   *)
(* for any number of iterations.                                           *)
(***************************************************************************)
THEOREM CountIsExact == DemoSpec => []CountsAll
<1>1. DemoInv => CountsAll
  <2> SUFFICES ASSUME DemoInv, NEW w \in Worker, pc[w] = "report"
               PROVE  counter = 2 * Iterations
    BY DEF CountsAll
  <2>1. Ended(1) = 1 /\ Ended(2) = 1
    BY DEF DemoInv, CountInv, Ended
  <2>2. left[1] = 0 /\ left[2] = 0
    BY <2>1 DEF Ended
  <2>3. Added(1) = Iterations /\ Added(2) = Iterations
    BY <2>2, PetersonsAssumption DEF Added
  <2> QED BY <2>3, PetersonsAssumption DEF DemoInv, CountInv
<1> QED BY <1>1, DemoInvariant, PTL

(***************************************************************************)
(* Types of the demonstration's variables.                                 *)
(***************************************************************************)
THEOREM DemoTypes == DemoSpec => []DemoTypeOK
BY DemoInvariant, PTL DEF DemoInv

=============================================================================
