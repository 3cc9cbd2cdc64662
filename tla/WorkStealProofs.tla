-------------------------- MODULE WorkStealProofs --------------------------
(***************************************************************************)
(* The inductive invariant of WorkSteal, with proofs: for any number of    *)
(* processors and threads no thread is on two processors or in two places, *)
(* none is resumed before its context is saved, and no processor stops     *)
(* while a thread is alive.                                                *)
(***************************************************************************)
EXTENDS WorkSteal, QueueLemmas, TLAPS

\* v's current thread is still v's: it runs, or waits on v's own queue.
Active(v) == OnStack(v) \/ local[v] # <<>>

\* v holds a thread that is on no queue.
Taken(v) == pc[v] \in {"dispatch", "add", "push"}

Owns(v, t) == (Active(v) /\ cur[v] = t) \/ (Taken(v) /\ hand[v] = t)

\* What each stage of a call or of the loop has made of the thread it is about.
StageSound ==
  \A v \in VP :
    /\ pc[v] \in {"user", "add", "push", "return"} => state[cur[v]] = "RUNNING"
    /\ pc[v] = "requeue" => state[cur[v]] = "READY"
    /\ pc[v] = "switch" => state[cur[v]] \in {"READY", "IO_BLOCKED"}
    /\ pc[v] = "leave" => state[cur[v]] \in {"FINISHED", "NONE"}
    /\ pc[v] \in {"dispatch", "push"} => state[hand[v]] = "READY"
    /\ pc[v] = "add" => state[hand[v]] = "NONE"
    /\ Taken(v) => saved[hand[v]]

\* The local queue holds nothing but the thread that has yielded here last,
\* and only until the processor looks at it again.
LocalSound ==
  \A v \in VP :
    local[v] # <<>> =>
      /\ local[v] = <<cur[v]>>
      /\ cur[v] # NoThread
      /\ pc[v] \in {"switch", "top"}
      /\ state[cur[v]] = "READY"
      /\ pc[v] = "top" => saved[cur[v]]

\* The global queue holds threads that are READY and saved, once each.
GlobalSound ==
  /\ IsInjective(ready)
  /\ \A t \in Range(ready) : state[t] = "READY" /\ saved[t]

\* A thread has one place: one processor, in one role, or the global queue.
OnePlace ==
  /\ \A v, w \in VP : \A t \in Thread : Owns(v, t) /\ Owns(w, t) => v = w
  /\ \A v \in VP : Active(v) /\ Taken(v) => cur[v] # hand[v]
  /\ \A v \in VP : \A t \in Thread : Owns(v, t) => t \notin Range(ready)

\* An id that has not been given out is nowhere.
Fresh ==
  /\ \A t \in Thread : t >= nextId => state[t] = "NONE"
  /\ \A v \in VP : cur[v] < nextId /\ hand[v] < nextId

\* Main's phases: nothing runs before uthread_mn_run, and the processors are
\* told to stop after main's own loop.
PhasesSound ==
  /\ \A v \in VP : pc[v] = "main" <=> pc[0] = "main"
  /\ \A v \in VP : ~running[v] => pc[0] = "done"

Inv ==
  /\ TypeOK /\ StageSound /\ LocalSound /\ GlobalSound /\ OnePlace /\ Fresh
  /\ PhasesSound /\ StopsWhenDone

-----------------------------------------------------------------------------
LEMMA Constants ==
  /\ VP \subseteq Int /\ 0 \in VP
  /\ Thread \subseteq Int /\ NoThread \notin Thread /\ NoThread = -1
BY WorkStealAssumption DEF VP, Thread, NoThread

\* A processor that serves a live thread keeps all the others from stopping.
LEMMA BusyAlive ==
  ASSUME Inv, NEW v \in VP,
         pc[v] \in (StackPC \ {"leave"}) \cup {"dispatch"}
  PROVE  Alive /\ \A w \in VP : pc[w] # "done"
<1>1. Alive
  <2>1. CASE pc[v] = "dispatch"
    <3>1. hand[v] \in Thread /\ state[hand[v]] = "READY"
      BY <2>1 DEF Inv, TypeOK, StageSound
    <3>2. QED
      BY <3>1 DEF Alive
  <2>2. CASE pc[v] \in StackPC \ {"leave"}
    <3>1. /\ cur[v] \in Thread
          /\ state[cur[v]] \in {"RUNNING", "READY", "IO_BLOCKED"}
      BY <2>2 DEF Inv, TypeOK, StageSound, OnStack, StackPC
    <3>2. QED
      BY <3>1 DEF Alive
  <2>3. QED
    BY <2>1, <2>2
<1>2. QED
  BY <1>1 DEF Inv, StopsWhenDone

LEMMA ReadyAreThreads ==
  ASSUME Inv
  PROVE  Range(ready) \subseteq Thread
BY InRange DEF Inv, TypeOK

\* OnePlace for two processors, role by role.
LEMMA Apart ==
  ASSUME Inv, NEW v \in VP, NEW w \in VP
  PROVE  /\ v # w /\ Active(v) /\ Active(w) => cur[v] # cur[w]
         /\ v # w /\ Taken(v) /\ Taken(w) => hand[v] # hand[w]
         /\ Active(v) /\ Taken(w) => cur[v] # hand[w]
         /\ Active(v) => cur[v] \in Thread /\ cur[v] \notin Range(ready)
         /\ Taken(v) => hand[v] \in Thread /\ hand[v] \notin Range(ready)
<1>1. /\ Active(v) => cur[v] \in Thread
      /\ Active(w) => cur[w] \in Thread
  BY DEF Inv, TypeOK, LocalSound, Active
<1>2. /\ Taken(v) => hand[v] \in Thread
      /\ Taken(w) => hand[w] \in Thread
  BY DEF Inv, TypeOK, Taken
<1>3. QED
  BY <1>1, <1>2 DEF Inv, OnePlace, Owns

LEMMA CreateReturnKeepsInv ==
  ASSUME Inv, NEW v \in VP, CreateReturn(v)
  PROVE  Inv'
<1>1. TypeOK'
  BY Constants DEF Inv, TypeOK, CreateReturn, Goto, OnStack, StackPC,
     LoopPC, ThreadStates
<1>2. StageSound'
  BY Apart DEF Inv, TypeOK, CreateReturn, Goto, StageSound, Active, Taken,
     OnStack, StackPC
<1>3. LocalSound'
  BY Apart DEF Inv, TypeOK, CreateReturn, Goto, LocalSound, Active, Taken,
     OnStack, StackPC
<1>4. GlobalSound'
  BY Apart DEF Inv, TypeOK, CreateReturn, Goto, GlobalSound, Active, Taken,
     OnStack, StackPC
<1>5. OnePlace'
  BY Constants DEF Inv, TypeOK, CreateReturn, Goto, OnePlace, LocalSound,
     Owns, Active, Taken, OnStack, StackPC
<1>6. Fresh'
  BY Constants DEF Inv, TypeOK, CreateReturn, Goto, Fresh, StageSound,
     GlobalSound
<1>7. PhasesSound'
  BY Constants DEF Inv, TypeOK, CreateReturn, Goto, PhasesSound
<1>8. StopsWhenDone'
  BY BusyAlive DEF Inv, TypeOK, CreateReturn, Goto, StopsWhenDone, StackPC
<1>9. QED
  BY <1>1, <1>2, <1>3, <1>4, <1>5, <1>6, <1>7, <1>8 DEF Inv

LEMMA CreateAddKeepsInv ==
  ASSUME Inv, NEW v \in VP, CreateAdd(v)
  PROVE  Inv'
<1>1. TypeOK'
  BY Constants DEF Inv, TypeOK, CreateAdd, Goto, OnStack, StackPC, LoopPC,
     ThreadStates
<1>2. StageSound'
  BY Apart DEF Inv, TypeOK, CreateAdd, Goto, StageSound, Active, Taken,
     OnStack, StackPC
<1>3. LocalSound'
  BY Apart DEF Inv, TypeOK, CreateAdd, Goto, LocalSound, Active, Taken,
     OnStack, StackPC
<1>4. GlobalSound'
  BY Apart DEF Inv, TypeOK, CreateAdd, Goto, GlobalSound, Active, Taken,
     OnStack, StackPC
<1>5. OnePlace'
  BY Constants DEF Inv, TypeOK, CreateAdd, Goto, OnePlace, LocalSound, Owns,
     Active, Taken, OnStack, StackPC
<1>6. Fresh'
  BY Constants DEF Inv, TypeOK, CreateAdd, Goto, Fresh, StageSound,
     GlobalSound
<1>7. PhasesSound'
  BY Constants DEF Inv, TypeOK, CreateAdd, Goto, PhasesSound
<1>8. StopsWhenDone'
  BY BusyAlive DEF Inv, TypeOK, CreateAdd, Goto, StopsWhenDone, StackPC
<1>9. QED
  BY <1>1, <1>2, <1>3, <1>4, <1>5, <1>6, <1>7, <1>8 DEF Inv

LEMMA YieldMarkKeepsInv ==
  ASSUME Inv, NEW v \in VP, YieldMark(v)
  PROVE  Inv'
<1>1. TypeOK'
  BY Constants DEF Inv, TypeOK, YieldMark, Goto, OnStack, StackPC, LoopPC,
     ThreadStates
<1>2. StageSound'
  BY Apart DEF Inv, TypeOK, YieldMark, Goto, StageSound, Active, Taken,
     OnStack, StackPC
<1>3. LocalSound'
  BY Apart DEF Inv, TypeOK, YieldMark, Goto, LocalSound, Active, Taken,
     OnStack, StackPC
<1>4. GlobalSound'
  BY Apart DEF Inv, TypeOK, YieldMark, Goto, GlobalSound, Active, Taken,
     OnStack, StackPC
<1>5. OnePlace'
  BY Constants DEF Inv, TypeOK, YieldMark, Goto, OnePlace, LocalSound, Owns,
     Active, Taken, OnStack, StackPC
<1>6. Fresh'
  BY Constants DEF Inv, TypeOK, YieldMark, Goto, Fresh, StageSound,
     GlobalSound
<1>7. PhasesSound'
  BY Constants DEF Inv, TypeOK, YieldMark, Goto, PhasesSound
<1>8. StopsWhenDone'
  BY BusyAlive DEF Inv, TypeOK, YieldMark, Goto, StopsWhenDone, StackPC
<1>9. QED
  BY <1>1, <1>2, <1>3, <1>4, <1>5, <1>6, <1>7, <1>8 DEF Inv

LEMMA ParkKeepsInv ==
  ASSUME Inv, NEW v \in VP, Park(v)
  PROVE  Inv'
<1>1. TypeOK'
  BY Constants DEF Inv, TypeOK, Park, Goto, OnStack, StackPC, LoopPC,
     ThreadStates
<1>2. StageSound'
  BY Apart DEF Inv, TypeOK, Park, Goto, StageSound, Active, Taken, OnStack,
     StackPC
<1>3. LocalSound'
  BY Apart DEF Inv, TypeOK, Park, Goto, LocalSound, Active, Taken, OnStack,
     StackPC
<1>4. GlobalSound'
  BY Apart DEF Inv, TypeOK, Park, Goto, GlobalSound, Active, Taken, OnStack,
     StackPC
<1>5. OnePlace'
  BY Constants DEF Inv, TypeOK, Park, Goto, OnePlace, LocalSound, Owns,
     Active, Taken, OnStack, StackPC
<1>6. Fresh'
  BY Constants DEF Inv, TypeOK, Park, Goto, Fresh, StageSound, GlobalSound
<1>7. PhasesSound'
  BY Constants DEF Inv, TypeOK, Park, Goto, PhasesSound
<1>8. StopsWhenDone'
  BY BusyAlive DEF Inv, TypeOK, Park, Goto, StopsWhenDone, StackPC
<1>9. QED
  BY <1>1, <1>2, <1>3, <1>4, <1>5, <1>6, <1>7, <1>8 DEF Inv

LEMMA SwitchKeepsInv ==
  ASSUME Inv, NEW v \in VP, Switch(v)
  PROVE  Inv'
<1>1. TypeOK'
  BY Constants DEF Inv, TypeOK, Switch, Goto, OnStack, StackPC, LoopPC,
     ThreadStates
<1>2. StageSound'
  BY Apart DEF Inv, TypeOK, Switch, Goto, StageSound, Active, Taken,
     OnStack, StackPC
<1>3. LocalSound'
  BY Apart DEF Inv, TypeOK, Switch, Goto, LocalSound, Active, Taken,
     OnStack, StackPC
<1>4. GlobalSound'
  BY Apart DEF Inv, TypeOK, Switch, Goto, GlobalSound, Active, Taken,
     OnStack, StackPC
<1>5. OnePlace'
  BY Constants DEF Inv, TypeOK, Switch, Goto, OnePlace, LocalSound, Owns,
     Active, Taken, OnStack, StackPC
<1>6. Fresh'
  BY Constants DEF Inv, TypeOK, Switch, Goto, Fresh, StageSound, GlobalSound
<1>7. PhasesSound'
  BY Constants DEF Inv, TypeOK, Switch, Goto, PhasesSound
<1>8. StopsWhenDone'
  BY BusyAlive DEF Inv, TypeOK, Switch, Goto, StopsWhenDone, StackPC
<1>9. QED
  BY <1>1, <1>2, <1>3, <1>4, <1>5, <1>6, <1>7, <1>8 DEF Inv

LEMMA ExitMarkKeepsInv ==
  ASSUME Inv, NEW v \in VP, ExitMark(v)
  PROVE  Inv'
<1>1. TypeOK'
  BY Constants DEF Inv, TypeOK, ExitMark, Goto, OnStack, StackPC, LoopPC,
     ThreadStates
<1>2. StageSound'
  BY Apart DEF Inv, TypeOK, ExitMark, Goto, StageSound, Active, Taken,
     OnStack, StackPC
<1>3. LocalSound'
  BY Apart DEF Inv, TypeOK, ExitMark, Goto, LocalSound, Active, Taken,
     OnStack, StackPC
<1>4. GlobalSound'
  BY Apart DEF Inv, TypeOK, ExitMark, Goto, GlobalSound, Active, Taken,
     OnStack, StackPC
<1>5. OnePlace'
  BY Constants DEF Inv, TypeOK, ExitMark, Goto, OnePlace, LocalSound, Owns,
     Active, Taken, OnStack, StackPC
<1>6. Fresh'
  BY Constants DEF Inv, TypeOK, ExitMark, Goto, Fresh, StageSound,
     GlobalSound
<1>7. PhasesSound'
  BY Constants DEF Inv, TypeOK, ExitMark, Goto, PhasesSound
<1>8. StopsWhenDone'
  BY BusyAlive DEF Inv, TypeOK, ExitMark, Goto, StopsWhenDone, StackPC
<1>9. QED
  BY <1>1, <1>2, <1>3, <1>4, <1>5, <1>6, <1>7, <1>8 DEF Inv

LEMMA LeaveKeepsInv ==
  ASSUME Inv, NEW v \in VP, Leave(v)
  PROVE  Inv'
<1>1. TypeOK'
  BY Constants DEF Inv, TypeOK, Leave, Goto, OnStack, StackPC, LoopPC,
     ThreadStates
<1>2. StageSound'
  BY Apart DEF Inv, TypeOK, Leave, Goto, StageSound, Active, Taken, OnStack,
     StackPC
<1>3. LocalSound'
  BY Apart DEF Inv, TypeOK, Leave, Goto, LocalSound, Active, Taken, OnStack,
     StackPC
<1>4. GlobalSound'
  BY Apart DEF Inv, TypeOK, Leave, Goto, GlobalSound, Active, Taken,
     OnStack, StackPC
<1>5. OnePlace'
  BY Constants DEF Inv, TypeOK, Leave, Goto, OnePlace, LocalSound, Owns,
     Active, Taken, OnStack, StackPC
<1>6. Fresh'
  BY Constants DEF Inv, TypeOK, Leave, Goto, Fresh, StageSound, GlobalSound
<1>7. PhasesSound'
  BY Constants DEF Inv, TypeOK, Leave, Goto, PhasesSound
<1>8. StopsWhenDone'
  BY Constants DEF Inv, TypeOK, Leave, Goto, StopsWhenDone, Alive
<1>9. QED
  BY <1>1, <1>2, <1>3, <1>4, <1>5, <1>6, <1>7, <1>8 DEF Inv

LEMMA ScanKeepsInv ==
  ASSUME Inv, NEW v \in VP, Scan(v)
  PROVE  Inv'
<1>1. TypeOK'
  BY Constants DEF Inv, TypeOK, Scan, Goto, OnStack, StackPC, LoopPC,
     ThreadStates
<1>2. StageSound'
  BY Apart DEF Inv, TypeOK, Scan, Goto, StageSound, Active, Taken, OnStack,
     StackPC
<1>3. LocalSound'
  BY Apart DEF Inv, TypeOK, Scan, Goto, LocalSound, Active, Taken, OnStack,
     StackPC
<1>4. GlobalSound'
  BY Apart DEF Inv, TypeOK, Scan, Goto, GlobalSound, Active, Taken, OnStack,
     StackPC
<1>5. OnePlace'
  BY Constants DEF Inv, TypeOK, Scan, Goto, OnePlace, LocalSound, Owns,
     Active, Taken, OnStack, StackPC
<1>6. Fresh'
  BY Constants DEF Inv, TypeOK, Scan, Goto, Fresh, StageSound, GlobalSound
<1>7. PhasesSound'
  BY Constants DEF Inv, TypeOK, Scan, Goto, PhasesSound
<1>8. StopsWhenDone'
  <2>1. ASSUME ~Alive, NEW w \in VP
        PROVE  hand[w] = NoThread
    <3>1. hand[w] # NoThread => pc[w] \in (StackPC \ {"leave"}) \cup {"dispatch"}
      BY DEF Inv, TypeOK, StackPC
    <3>2. QED
      BY <2>1, <3>1, BusyAlive
  <2>2. Alive' = Alive /\ hand' = hand
    BY DEF Scan, Alive
  <2>3. QED
    BY <2>1, <2>2 DEF Inv, TypeOK, Scan, Goto, StopsWhenDone
<1>9. QED
  BY <1>1, <1>2, <1>3, <1>4, <1>5, <1>6, <1>7, <1>8 DEF Inv

LEMMA DispatchKeepsInv ==
  ASSUME Inv, NEW v \in VP, Dispatch(v)
  PROVE  Inv'
<1>1. TypeOK'
  BY Constants DEF Inv, TypeOK, Dispatch, Goto, OnStack, StackPC, LoopPC,
     ThreadStates
<1>2. StageSound'
  BY Apart DEF Inv, TypeOK, Dispatch, Goto, StageSound, Active, Taken,
     OnStack, StackPC
<1>3. LocalSound'
  BY Apart DEF Inv, TypeOK, Dispatch, Goto, LocalSound, Active, Taken,
     OnStack, StackPC
<1>4. GlobalSound'
  BY Apart DEF Inv, TypeOK, Dispatch, Goto, GlobalSound, Active, Taken,
     OnStack, StackPC
<1>5. OnePlace'
  BY Constants DEF Inv, TypeOK, Dispatch, Goto, OnePlace, LocalSound, Owns,
     Active, Taken, OnStack, StackPC
<1>6. Fresh'
  BY Constants DEF Inv, TypeOK, Dispatch, Goto, Fresh, StageSound,
     GlobalSound
<1>7. PhasesSound'
  BY Constants DEF Inv, TypeOK, Dispatch, Goto, PhasesSound
<1>8. StopsWhenDone'
  BY BusyAlive DEF Inv, TypeOK, Dispatch, Goto, StopsWhenDone, StackPC
<1>9. QED
  BY <1>1, <1>2, <1>3, <1>4, <1>5, <1>6, <1>7, <1>8 DEF Inv

LEMMA StopVPKeepsInv ==
  ASSUME Inv, NEW v \in VP, StopVP(v)
  PROVE  Inv'
<1>1. TypeOK'
  BY Constants DEF Inv, TypeOK, StopVP, Goto, OnStack, StackPC, LoopPC,
     ThreadStates
<1>2. StageSound'
  BY Apart DEF Inv, TypeOK, StopVP, Goto, StageSound, Active, Taken,
     OnStack, StackPC
<1>3. LocalSound'
  BY Apart DEF Inv, TypeOK, StopVP, Goto, LocalSound, Active, Taken,
     OnStack, StackPC
<1>4. GlobalSound'
  BY Apart DEF Inv, TypeOK, StopVP, Goto, GlobalSound, Active, Taken,
     OnStack, StackPC
<1>5. OnePlace'
  BY Constants DEF Inv, TypeOK, StopVP, Goto, OnePlace, LocalSound, Owns,
     Active, Taken, OnStack, StackPC
<1>6. Fresh'
  BY Constants DEF Inv, TypeOK, StopVP, Goto, Fresh, StageSound, GlobalSound
<1>7. PhasesSound'
  BY Constants DEF Inv, TypeOK, StopVP, Goto, PhasesSound
<1>8. StopsWhenDone'
  BY Constants DEF Inv, TypeOK, StopVP, Goto, StopsWhenDone, Alive
<1>9. QED
  BY <1>1, <1>2, <1>3, <1>4, <1>5, <1>6, <1>7, <1>8 DEF Inv

LEMMA MnRunKeepsInv ==
  ASSUME Inv, MnRun
  PROVE  Inv'
<1>1. TypeOK'
  BY Constants DEF Inv, TypeOK, MnRun, Goto, OnStack, StackPC, LoopPC,
     ThreadStates, PhasesSound
<1>2. StageSound'
  BY Apart DEF Inv, TypeOK, MnRun, Goto, StageSound, Active, Taken, OnStack,
     StackPC
<1>3. LocalSound'
  BY Constants DEF Inv, TypeOK, MnRun, Goto, LocalSound, Active, Taken,
     OnStack, StackPC, PhasesSound
<1>4. GlobalSound'
  BY Apart DEF Inv, TypeOK, MnRun, Goto, GlobalSound, Active, Taken,
     OnStack, StackPC
<1>5. OnePlace'
  BY Constants DEF Inv, TypeOK, MnRun, Goto, OnePlace, LocalSound, Owns,
     Active, Taken, OnStack, StackPC
<1>6. Fresh'
  BY Constants DEF Inv, TypeOK, MnRun, Goto, Fresh, StageSound, GlobalSound
<1>7. PhasesSound'
  BY Constants DEF Inv, TypeOK, MnRun, Goto, PhasesSound
<1>8. StopsWhenDone'
  BY Constants DEF Inv, TypeOK, MnRun, Goto, StopsWhenDone, Alive
<1>9. QED
  BY <1>1, <1>2, <1>3, <1>4, <1>5, <1>6, <1>7, <1>8 DEF Inv

LEMMA MnReturnKeepsInv ==
  ASSUME Inv, MnReturn
  PROVE  Inv'
<1>1. TypeOK'
  BY Constants DEF Inv, TypeOK, MnReturn, Goto, OnStack, StackPC, LoopPC,
     ThreadStates, Reap
<1>2. StageSound'
  BY Apart DEF Inv, TypeOK, MnReturn, Goto, StageSound, Active, Taken,
     OnStack, StackPC, Reap
<1>3. LocalSound'
  BY Apart DEF Inv, TypeOK, MnReturn, Goto, LocalSound, Active, Taken,
     OnStack, StackPC, Reap
<1>4. GlobalSound'
  BY ReadyAreThreads, Constants DEF Inv, TypeOK, MnReturn, Goto,
     GlobalSound, Active, Taken, OnStack, StackPC, Reap
<1>5. OnePlace'
  BY Constants DEF Inv, TypeOK, MnReturn, Goto, OnePlace, LocalSound, Owns,
     Active, Taken, OnStack, StackPC, Reap
<1>6. Fresh'
  BY Constants DEF Inv, TypeOK, MnReturn, Goto, Fresh, StageSound,
     GlobalSound, Reap
<1>7. PhasesSound'
  BY Constants DEF Inv, TypeOK, MnReturn, Goto, PhasesSound, Reap
<1>8. StopsWhenDone'
  BY Constants DEF Inv, TypeOK, MnReturn, Goto, StopsWhenDone, Alive, Reap
<1>9. QED
  BY <1>1, <1>2, <1>3, <1>4, <1>5, <1>6, <1>7, <1>8 DEF Inv

\* An id not given out is nowhere, and giving it out keeps the rest in place.
LEMMA IdFacts ==
  ASSUME Inv
  PROVE  /\ nextId \in Int /\ MaxThreads \in Int /\ Thread \subseteq Int
         /\ \A w \in VP : /\ cur[w] \in Int /\ hand[w] \in Int
                          /\ cur[w] # nextId /\ hand[w] # nextId
                          /\ cur[w] < nextId + 1 /\ hand[w] < nextId + 1
         /\ nextId < MaxThreads => /\ nextId \in Thread
                                   /\ state[nextId] = "NONE"
                                   /\ nextId + 1 \in 0 .. MaxThreads
<1>1. /\ nextId \in Int /\ 0 <= nextId /\ nextId <= MaxThreads
      /\ MaxThreads \in Int
  BY WorkStealAssumption DEF Inv, TypeOK
<1>2. \A w \in VP : cur[w] \in Int /\ hand[w] \in Int
  <2>1. \A x \in Thread \cup {NoThread} : x \in Int
    BY Constants
  <2>2. QED
    BY <2>1 DEF Inv, TypeOK
<1>3. nextId < MaxThreads => nextId \in Thread
  BY <1>1 DEF Thread
<1>4. QED
  BY <1>1, <1>2, <1>3, Constants DEF Inv, Fresh

\* A processor that finds nothing and goes on looking disturbs nothing.
LEMMA LoopKeepsInv ==
  ASSUME Inv, NEW v \in VP, pc[v] \in {"top", "global", "steal"},
         local[v] = <<>>,
         \E l \in {"global", "steal", "scan"} : pc' = [pc EXCEPT ![v] = l],
         untried' \in [VP -> SUBSET VP],
         UNCHANGED <<state, saved, nextId, ready, local, cur, hand, running,
                     returned>>
  PROVE  Inv'
<1>1. PICK l \in {"global", "steal", "scan"} : pc' = [pc EXCEPT ![v] = l]
  OBVIOUS
<1>2. TypeOK' /\ StageSound'
  <2>1. TypeOK'
    BY <1>1 DEF Inv, TypeOK, OnStack, StackPC, LoopPC
  <2>2. StageSound'
    BY <1>1 DEF Inv, TypeOK, StageSound, Taken
  <2> QED
    BY <2>1, <2>2
<1>3. LocalSound' /\ GlobalSound' /\ Fresh'
  BY <1>1 DEF Inv, TypeOK, LocalSound, GlobalSound, Fresh
<1>4. OnePlace'
  BY <1>1 DEF Inv, TypeOK, OnePlace, Owns, Active, Taken, OnStack, StackPC
<1>5. PhasesSound' /\ StopsWhenDone'
  BY <1>1, Constants DEF Inv, TypeOK, PhasesSound, StopsWhenDone, Alive
<1>6. QED
  BY <1>2, <1>3, <1>4, <1>5 DEF Inv

LEMMA CreateBeginKeepsInv ==
  ASSUME Inv, NEW v \in VP, CreateBegin(v)
  PROVE  Inv'
<1>1. /\ pc[v] = "user" /\ state' = Reap(v)
      /\ UNCHANGED <<ready, local, cur, untried, running, returned>>
  BY DEF CreateBegin
<1>2. /\ \A t \in Thread : state[t] # "FINISHED" => state'[t] = state[t]
      /\ \A t \in Thread : state'[t] \in {state[t], "NONE"}
      /\ state' \in [Thread -> ThreadStates]
  BY <1>1 DEF Inv, TypeOK, Reap, ThreadStates
<1>3. CASE /\ UNCHANGED <<hand, saved, pc>>
           /\ nextId' = nextId \/ (nextId < MaxThreads /\ nextId' = nextId + 1)
  <2>1. TypeOK'
    BY <1>1, <1>2, <1>3, WorkStealAssumption DEF Inv, TypeOK, OnStack
  <2>2. StageSound'
    BY <1>1, <1>2, <1>3 DEF Inv, TypeOK, StageSound, Taken, OnStack, StackPC
  <2>3. LocalSound'
    BY <1>1, <1>2, <1>3 DEF Inv, TypeOK, LocalSound
  <2>4. GlobalSound'
    BY <1>1, <1>2, <1>3, ReadyAreThreads DEF Inv, GlobalSound
  <2>5. OnePlace'
    BY <1>1, <1>3 DEF Inv, OnePlace, Owns, Active, Taken, OnStack
  <2>6. Fresh'
    BY <1>1, <1>2, <1>3, IdFacts DEF Inv, Fresh
  <2>7. PhasesSound' /\ StopsWhenDone'
    BY <1>1, <1>3, BusyAlive DEF Inv, PhasesSound, StopsWhenDone, StackPC
  <2>8. QED
    BY <2>1, <2>2, <2>3, <2>4, <2>5, <2>6, <2>7 DEF Inv
<1>4. CASE /\ nextId < MaxThreads /\ nextId' = nextId + 1
           /\ hand' = [hand EXCEPT ![v] = nextId]
           /\ saved' = [saved EXCEPT ![nextId] = TRUE]
           /\ pc' = [pc EXCEPT ![v] = "add"]
  <2>1. /\ nextId \in Thread /\ state[nextId] = "NONE"
        /\ \A w \in VP : cur[w] # nextId /\ hand[w] # nextId
    BY <1>4, IdFacts
  <2>2. hand[v] = NoThread
    BY <1>1 DEF Inv, TypeOK
  <2>3. nextId \notin Range(ready)
    BY <2>1 DEF Inv, GlobalSound
  <2>4. TypeOK'
    BY <1>1, <1>2, <1>4, <2>1, WorkStealAssumption, Constants
       DEF Inv, TypeOK, OnStack, StackPC
  <2>5. StageSound'
    <3>1. ASSUME NEW w \in VP, w # v
          PROVE  /\ pc'[w] = pc[w] /\ cur'[w] = cur[w] /\ hand'[w] = hand[w]
                 /\ OnStack(w) => state'[cur[w]] \in {state[cur[w]], "NONE"}
                 /\ OnStack(w) /\ state[cur[w]] # "FINISHED"
                      => state'[cur[w]] = state[cur[w]]
                 /\ Taken(w) => /\ state'[hand[w]] = state[hand[w]]
                               /\ saved'[hand[w]] = saved[hand[w]]
      <4>1. /\ OnStack(w) => cur[w] \in Thread
            /\ Taken(w) => hand[w] \in Thread /\ state[hand[w]] # "FINISHED"
        BY DEF Inv, TypeOK, StageSound, Taken
      <4>2. QED
        BY <1>1, <1>2, <1>4, <2>1, <3>1, <4>1 DEF Inv, TypeOK
    <3>2. /\ pc'[v] = "add" /\ hand'[v] = nextId /\ cur'[v] = cur[v]
          /\ saved'[nextId] /\ state'[nextId] = "NONE"
          /\ state'[cur[v]] = "RUNNING"
      <4>1. cur[v] \in Thread /\ state[cur[v]] = "RUNNING"
        BY <1>1 DEF Inv, TypeOK, StageSound, OnStack, StackPC
      <4>2. state'[cur[v]] = "RUNNING" /\ state'[nextId] = "NONE"
        BY <1>2, <2>1, <4>1
      <4>3. QED
        BY <1>1, <1>4, <2>1, <4>2 DEF Inv, TypeOK
    <3>3. QED
      BY <3>1, <3>2 DEF Inv, StageSound, Taken, OnStack, StackPC
  <2>6. LocalSound'
    <3>1. \A w \in VP : local[w] # <<>> =>
            /\ cur[w] \in Thread /\ w # v
            /\ state'[cur[w]] = "READY" /\ saved'[cur[w]] = saved[cur[w]]
      <4>1. ASSUME NEW w \in VP, local[w] # <<>>
            PROVE  cur[w] \in Thread /\ w # v /\ state[cur[w]] = "READY"
        <5>1. /\ cur[w] # NoThread /\ pc[w] \in {"switch", "top"}
              /\ state[cur[w]] = "READY"
          BY <4>1 DEF Inv, LocalSound
        <5>2. cur[w] \in Thread
          BY <5>1 DEF Inv, TypeOK
        <5> QED
          BY <1>1, <5>1, <5>2
      <4>2. QED
        BY <1>2, <1>4, <2>1, <4>1 DEF Inv, TypeOK
    <3>2. QED
      BY <1>1, <1>4, <3>1 DEF Inv, TypeOK, LocalSound
  <2>7. GlobalSound'
    BY <1>1, <1>2, <1>4, <2>3, ReadyAreThreads DEF Inv, TypeOK, GlobalSound
  <2>8. OnePlace'
    BY <1>1, <1>4, <2>1, <2>3
       DEF Inv, TypeOK, OnePlace, Owns, Active, Taken, OnStack, StackPC
  <2>9. Fresh'
    BY <1>1, <1>2, <1>4, IdFacts DEF Inv, TypeOK, Fresh
  <2>10. PhasesSound' /\ StopsWhenDone'
    BY <1>1, <1>4, BusyAlive DEF Inv, TypeOK, PhasesSound, StopsWhenDone, StackPC
  <2>11. QED
    BY <2>4, <2>5, <2>6, <2>7, <2>8, <2>9, <2>10 DEF Inv
<1>5. QED
  BY <1>3, <1>4 DEF CreateBegin, Goto

LEMMA MainCreateKeepsInv ==
  ASSUME Inv, MainCreate
  PROVE  Inv'
<1>1. /\ pc[0] = "main" /\ nextId < MaxThreads /\ nextId' = nextId + 1
      /\ UNCHANGED <<local, cur, pc, hand, untried, running, returned>>
  BY DEF MainCreate
<1>2. /\ nextId \in Thread /\ state[nextId] = "NONE"
      /\ nextId' \in 0 .. MaxThreads
      /\ \A w \in VP : cur[w] # nextId /\ hand[w] # nextId
  BY <1>1, IdFacts
<1>3. \A w \in VP : pc[w] = "main" /\ cur[w] # nextId /\ hand[w] # nextId
  BY <1>1, <1>2 DEF Inv, PhasesSound
<1>4. nextId \notin Range(ready)
  BY <1>2 DEF Inv, GlobalSound
<1>5. /\ PhasesSound' /\ StopsWhenDone'
  BY <1>1, <1>3 DEF Inv, PhasesSound, StopsWhenDone
<1>6. Fresh'
  <2>1. \A t \in Thread : t # nextId => state'[t] = state[t]
    BY <1>2 DEF Inv, TypeOK, MainCreate
  <2>2. QED
    BY <1>1, <2>1, IdFacts DEF Inv, Fresh
<1>7. CASE UNCHANGED <<state, saved, ready>>
  <2>1. TypeOK' /\ StageSound' /\ LocalSound' /\ GlobalSound'
    BY <1>1, <1>2, <1>7
       DEF Inv, TypeOK, StageSound, LocalSound, GlobalSound, Taken, OnStack
  <2>2. OnePlace'
    BY <1>1, <1>7 DEF Inv, OnePlace, Owns, Active, Taken, OnStack
  <2>3. QED
    BY <1>5, <1>6, <2>1, <2>2 DEF Inv
<1>8. CASE /\ state' = [state EXCEPT ![nextId] = "READY"]
           /\ saved' = [saved EXCEPT ![nextId] = TRUE]
           /\ ready' = Append(ready, nextId)
  <2>1. /\ ready' \in Seq(Thread) /\ Range(ready') = Range(ready) \cup {nextId}
        /\ IsInjective(ready')
    BY <1>2, <1>4, <1>8, InjectiveAppend DEF Inv, TypeOK, GlobalSound
  <2>2. TypeOK'
    BY <1>1, <1>2, <1>8, <2>1 DEF Inv, TypeOK, ThreadStates, OnStack
  <2>3. StageSound' /\ LocalSound'
    BY <1>1, <1>3, <1>8 DEF Inv, TypeOK, StageSound, LocalSound, Taken
  <2>4. GlobalSound'
    BY <1>2, <1>8, <2>1, ReadyAreThreads DEF Inv, TypeOK, GlobalSound
  <2>5. OnePlace'
    BY <1>1, <1>3, <2>1 DEF Inv, OnePlace, Owns, Active, Taken, OnStack
  <2>6. QED
    BY <1>5, <1>6, <2>2, <2>3, <2>4, <2>5 DEF Inv
<1>9. QED
  BY <1>7, <1>8 DEF MainCreate

LEMMA YieldQueueKeepsInv ==
  ASSUME Inv, NEW v \in VP, YieldQueue(v)
  PROVE  Inv'
<1>1. /\ pc[v] = "requeue" /\ pc' = [pc EXCEPT ![v] = "switch"]
      /\ local' = [local EXCEPT ![v] = Append(local[v], cur[v])]
      /\ UNCHANGED <<state, saved, nextId, ready, cur, hand, untried, running,
                     returned>>
  BY DEF YieldQueue, Goto
<1>2. /\ cur[v] \in Thread /\ cur[v] # NoThread /\ state[cur[v]] = "READY"
      /\ local[v] = <<>>
  BY <1>1, Constants DEF Inv, TypeOK, StageSound, LocalSound, OnStack, StackPC
<1>3. local'[v] = <<cur[v]>> /\ local' \in [VP -> Seq(Thread)]
  BY <1>1, <1>2 DEF Inv, TypeOK
<1>4. TypeOK'
  BY <1>1, <1>3 DEF Inv, TypeOK, OnStack, StackPC
<1>5. StageSound' /\ GlobalSound'
  BY <1>1, <1>2 DEF Inv, TypeOK, StageSound, GlobalSound, Taken
<1>6. LocalSound'
  BY <1>1, <1>2, <1>3 DEF Inv, TypeOK, LocalSound
<1>7. OnePlace'
  BY <1>1, <1>2 DEF Inv, TypeOK, OnePlace, Owns, Active, Taken, OnStack, StackPC
<1>8. Fresh' /\ PhasesSound'
  BY <1>1 DEF Inv, TypeOK, Fresh, PhasesSound
<1>9. StopsWhenDone'
  BY <1>1, BusyAlive DEF Inv, TypeOK, StopsWhenDone, StackPC
<1>10. QED
  BY <1>4, <1>5, <1>6, <1>7, <1>8, <1>9 DEF Inv

LEMMA CreatePushKeepsInv ==
  ASSUME Inv, NEW v \in VP, CreatePush(v)
  PROVE  Inv'
<1>1. /\ pc[v] = "push" /\ pc' = [pc EXCEPT ![v] = "return"]
      /\ ready' = Append(ready, hand[v])
      /\ UNCHANGED <<state, saved, nextId, local, cur, hand, untried, running,
                     returned>>
  BY DEF CreatePush, Goto
<1>2. /\ hand[v] \in Thread /\ hand[v] \notin Range(ready)
      /\ state[hand[v]] = "READY" /\ saved[hand[v]]
      /\ state[cur[v]] = "RUNNING" /\ local[v] = <<>>
  BY <1>1, Apart DEF Inv, TypeOK, StageSound, LocalSound, Taken, OnStack, StackPC
<1>3. /\ ready' \in Seq(Thread) /\ Range(ready') = Range(ready) \cup {hand[v]}
      /\ IsInjective(ready')
  BY <1>1, <1>2, InjectiveAppend DEF Inv, TypeOK, GlobalSound
<1>4. TypeOK'
  BY <1>1, <1>3 DEF Inv, TypeOK, OnStack, StackPC
<1>5. StageSound' /\ LocalSound'
  BY <1>1, <1>2 DEF Inv, TypeOK, StageSound, LocalSound, Taken
<1>6. GlobalSound'
  BY <1>1, <1>2, <1>3 DEF Inv, GlobalSound
<1>7. OnePlace'
  <2>1. \A w \in VP : \A t \in Thread : Owns(w, t)' => Owns(w, t)
    BY <1>1 DEF Inv, TypeOK, Owns, Active, Taken, OnStack, StackPC
  <2>2. \A w \in VP : \A t \in Thread : Owns(w, t)' => t # hand[v]
    BY <1>1, <1>2, <2>1, Apart
       DEF Inv, TypeOK, OnePlace, Owns, Active, Taken, OnStack, StackPC
  <2>3. \A w \in VP : (Active(w) /\ Taken(w))' => cur'[w] # hand'[w]
    BY <1>1 DEF Inv, TypeOK, OnePlace, Active, Taken, OnStack, StackPC
  <2>4. QED
    <3>1. \A w, u \in VP : \A t \in Thread : Owns(w, t)' /\ Owns(u, t)' => w = u
      BY <2>1 DEF Inv, OnePlace
    <3>2. \A w \in VP : \A t \in Thread : Owns(w, t)' => t \notin Range(ready')
      <4>1. ASSUME NEW w \in VP, NEW t \in Thread, Owns(w, t)'
            PROVE  t \notin Range(ready) /\ t # hand[v]
        BY <2>1, <2>2, <4>1 DEF Inv, OnePlace
      <4>2. QED
        BY <1>3, <4>1
    <3>3. QED
      BY <2>3, <3>1, <3>2 DEF OnePlace
<1>8. Fresh' /\ PhasesSound'
  BY <1>1 DEF Inv, TypeOK, Fresh, PhasesSound
<1>9. StopsWhenDone'
  BY <1>1, BusyAlive DEF Inv, TypeOK, StopsWhenDone, StackPC
<1>10. QED
  BY <1>4, <1>5, <1>6, <1>7, <1>8, <1>9 DEF Inv

LEMMA TakeLocalKeepsInv ==
  ASSUME Inv, NEW v \in VP, TakeLocal(v)
  PROVE  Inv'
<1>1. /\ pc[v] = "top" /\ hand[v] = NoThread
      /\ UNCHANGED <<state, saved, nextId, ready, cur, untried, running,
                     returned>>
  BY DEF TakeLocal, Inv, TypeOK
<1>2. CASE /\ ~running[v]
           /\ pc' = [pc EXCEPT ![v] = "done"]
           /\ UNCHANGED <<local, hand>>
  <2>1. TypeOK' /\ StageSound'
    BY <1>1, <1>2 DEF Inv, TypeOK, StageSound, Taken, OnStack, StackPC
  <2>2. local[v] = <<>>
    <3>1. pc[0] = "done" /\ ~Alive
      BY <1>2, Constants DEF Inv, PhasesSound, StopsWhenDone
    <3>2. QED
      BY <1>1, <3>1, Constants DEF Inv, TypeOK, LocalSound, Alive
  <2>3. LocalSound' /\ GlobalSound' /\ Fresh'
    BY <1>1, <1>2, <2>2 DEF Inv, TypeOK, LocalSound, GlobalSound, Fresh
  <2>4. OnePlace'
    BY <1>1, <1>2
       DEF Inv, TypeOK, OnePlace, Owns, Active, Taken, OnStack, StackPC
  <2>5. PhasesSound' /\ StopsWhenDone'
    BY <1>1, <1>2, Constants
       DEF Inv, TypeOK, PhasesSound, StopsWhenDone, Alive
  <2>6. QED
    BY <2>1, <2>3, <2>4, <2>5 DEF Inv
<1>3. CASE /\ running[v] /\ local[v] # <<>>
           /\ hand' = [hand EXCEPT ![v] = Head(local[v])]
           /\ local' = [local EXCEPT ![v] = Tail(local[v])]
           /\ pc' = [pc EXCEPT ![v] = "dispatch"]
  <2>1. /\ local[v] = <<cur[v]>> /\ cur[v] \in Thread
        /\ state[cur[v]] = "READY" /\ saved[cur[v]]
    BY <1>1, <1>3 DEF Inv, TypeOK, LocalSound
  <2>2. /\ hand' = [hand EXCEPT ![v] = cur[v]]
        /\ local' = [local EXCEPT ![v] = <<>>]
    BY <1>3, <2>1
  <2>3. TypeOK'
    <3>1. /\ hand' \in [VP -> Thread \cup {NoThread}]
          /\ local' \in [VP -> Seq(Thread)]
          /\ pc' \in [VP -> {"main", "done"} \cup LoopPC \cup StackPC]
      BY <1>3, <2>1, <2>2 DEF Inv, TypeOK, LoopPC
    <3>2. hand'[v] # NoThread
      BY <2>1, <2>2, Constants DEF Inv, TypeOK
    <3>3. QED
      BY <1>1, <1>3, <2>2, <3>1, <3>2 DEF Inv, TypeOK, OnStack, StackPC
  <2>4. StageSound' /\ LocalSound' /\ GlobalSound'
    BY <1>1, <1>3, <2>1, <2>2
       DEF Inv, TypeOK, StageSound, LocalSound, GlobalSound, Taken
  <2>5. OnePlace'
    <3>1. \A w \in VP : \A t \in Thread : Owns(w, t)' => Owns(w, t)
      <4>1. /\ Active(v) /\ ~Active(v)' /\ hand'[v] = cur[v]
            /\ \A w \in VP : w # v =>
                 /\ Active(w)' = Active(w) /\ Taken(w)' = Taken(w)
                 /\ hand'[w] = hand[w]
        BY <1>1, <1>3, <2>2
           DEF Inv, TypeOK, Active, Taken, OnStack, StackPC
      <4>2. QED
        BY <1>1, <4>1 DEF Owns
    <3>2. \A w \in VP : (Active(w) /\ Taken(w))' => cur'[w] # hand'[w]
      BY <1>1, <1>3, <2>2
         DEF Inv, TypeOK, OnePlace, Active, Taken, OnStack, StackPC
    <3>3. QED
      BY <1>1, <3>1, <3>2 DEF Inv, OnePlace
  <2>6. Fresh' /\ PhasesSound'
    BY <1>1, <1>3, <2>2 DEF Inv, TypeOK, Fresh, PhasesSound
  <2>7. StopsWhenDone'
    <3>1. Alive
      BY <2>1 DEF Alive
    <3>2. QED
      BY <1>1, <1>3, <3>1 DEF Inv, TypeOK, StopsWhenDone
  <2>8. QED
    BY <2>3, <2>4, <2>5, <2>6, <2>7 DEF Inv
<1>4. CASE /\ local[v] = <<>>
           /\ pc' = [pc EXCEPT ![v] = "global"]
           /\ UNCHANGED <<local, hand>>
  <2>1. \E l \in {"global", "steal", "scan"} : pc' = [pc EXCEPT ![v] = l]
    BY <1>4
  <2>2. untried' \in [VP -> SUBSET VP]
    BY <1>1 DEF Inv, TypeOK
  <2>3. pc[v] \in {"top", "global", "steal"}
    BY <1>1
  <2>4. UNCHANGED <<state, saved, nextId, ready, local, cur, hand, running,
                    returned>>
    BY <1>1, <1>4
  <2>5. QED
    BY <1>4, <2>1, <2>2, <2>3, <2>4, LoopKeepsInv
<1>5. QED
  BY <1>2, <1>3, <1>4 DEF TakeLocal, Goto

LEMMA TakeGlobalKeepsInv ==
  ASSUME Inv, NEW v \in VP, TakeGlobal(v)
  PROVE  Inv'
<1>1. /\ pc[v] = "global" /\ hand[v] = NoThread /\ local[v] = <<>>
      /\ UNCHANGED <<state, saved, nextId, local, cur, running, returned>>
  BY DEF TakeGlobal, Inv, TypeOK, LocalSound
<1>2. CASE /\ ready # <<>>
           /\ hand' = [hand EXCEPT ![v] = Head(ready)]
           /\ ready' = Tail(ready)
           /\ pc' = [pc EXCEPT ![v] = "dispatch"]
           /\ UNCHANGED untried
  <2> DEFINE h == Head(ready)
  <2>1. /\ h \in Thread /\ h \in Range(ready)
        /\ ready' \in Seq(Thread) /\ IsInjective(ready')
        /\ Range(ready') = Range(ready) \ {h}
    BY <1>2, InjectiveTail DEF Inv, TypeOK, GlobalSound
  <2>2. /\ state[h] = "READY" /\ saved[h]
        /\ \A w \in VP : ~Owns(w, h)
    BY <2>1 DEF Inv, GlobalSound, OnePlace
  <2>3. hand' = [hand EXCEPT ![v] = h]
    BY <1>2
  <2> HIDE DEF h
  <2>4. TypeOK'
    <3>1. /\ hand' \in [VP -> Thread \cup {NoThread}]
          /\ pc' \in [VP -> {"main", "done"} \cup LoopPC \cup StackPC]
      BY <1>2, <2>1, <2>3 DEF Inv, TypeOK, LoopPC
    <3>2. hand'[v] # NoThread
      BY <2>1, <2>3, Constants DEF Inv, TypeOK
    <3>3. QED
      BY <1>1, <1>2, <2>1, <2>3, <3>1, <3>2 DEF Inv, TypeOK, OnStack, StackPC
  <2>5. StageSound' /\ LocalSound' /\ GlobalSound'
    BY <1>1, <1>2, <2>1, <2>2, <2>3
       DEF Inv, TypeOK, StageSound, LocalSound, GlobalSound, Taken
  <2>6. OnePlace'
    <3>1. \A w \in VP : \A t \in Thread :
            Owns(w, t)' => Owns(w, t) \/ (w = v /\ t = h)
      BY <1>1, <1>2, <2>3
         DEF Inv, TypeOK, Owns, Active, Taken, OnStack, StackPC
    <3>2. \A w \in VP : (Active(w) /\ Taken(w))' => cur'[w] # hand'[w]
      BY <1>1, <1>2, <2>3
         DEF Inv, TypeOK, OnePlace, Active, Taken, OnStack, StackPC
    <3>3. \A w, u \in VP : \A t \in Thread : Owns(w, t)' /\ Owns(u, t)' => w = u
      BY <2>2, <3>1 DEF Inv, OnePlace
    <3>4. \A w \in VP : \A t \in Thread : Owns(w, t)' => t \notin Range(ready')
      BY <2>1, <3>1 DEF Inv, OnePlace
    <3>5. QED
      BY <3>2, <3>3, <3>4 DEF OnePlace
  <2>7. Fresh' /\ PhasesSound'
    <3>1. h < nextId
      BY <2>1, <2>2, IdFacts DEF Inv, Fresh
    <3>2. QED
      BY <1>1, <1>2, <2>3, <3>1 DEF Inv, TypeOK, Fresh, PhasesSound
  <2>8. StopsWhenDone'
    <3>1. Alive
      BY <2>1, <2>2 DEF Alive
    <3>2. QED
      BY <1>1, <1>2, <3>1 DEF Inv, TypeOK, StopsWhenDone
  <2>9. QED
    BY <2>4, <2>5, <2>6, <2>7, <2>8 DEF Inv
<1>3. CASE /\ ready = <<>>
           /\ untried' = [untried EXCEPT ![v] = VP \ {v}]
           /\ pc' = [pc EXCEPT ![v] = IF NumVPs = 1 THEN "scan" ELSE "steal"]
           /\ UNCHANGED <<ready, hand>>
  <2>1. untried' \in [VP -> SUBSET VP]
    BY <1>3 DEF Inv, TypeOK
  <2>2. QED
    BY <1>1, <1>3, <2>1, LoopKeepsInv DEF LoopPC
<1>4. QED
  BY <1>2, <1>3 DEF TakeGlobal, Goto

\* Since every other queue has at most one thread, nothing is stolen.
\* A look at a victim takes nothing: its queue has at most one thread.
LEMMA TryStealIdle ==
  ASSUME Inv, NEW v \in VP, NEW w \in VP, TrySteal(v, w)
  PROVE  /\ pc[v] = "steal" /\ local[v] = <<>>
         /\ \E l \in {"global", "steal", "scan"} : pc' = [pc EXCEPT ![v] = l]
         /\ untried' \in [VP -> SUBSET VP]
         /\ UNCHANGED <<state, saved, nextId, ready, local, cur, hand, running,
                        returned>>
<1>1. pc[v] = "steal" /\ hand[v] = NoThread
  BY DEF TrySteal, Inv, TypeOK
<1>2. /\ Len(local[w]) <= 1 /\ local[w] \in Seq(Thread)
      /\ local[v] \in Seq(Thread) /\ local[v] = <<>>
  <2>1. local[w] = <<>> \/ local[w] = <<cur[w]>>
    BY DEF Inv, LocalSound
  <2>2. Len(local[w]) <= 1
    <3>1. CASE local[w] = <<>>
      BY <3>1
    <3>2. CASE local[w] = <<cur[w]>>
      BY <3>2
    <3>3. QED
      BY <2>1, <3>1, <3>2
  <2>3. QED
    BY <1>1, <2>2 DEF Inv, TypeOK, LocalSound
<1>3. /\ StealCount(local[w]) = 0
      /\ SubSeq(local[w], 1, Len(local[w])) = local[w]
  BY <1>2 DEF StealCount
<1>4. local' = local
  <2>1. local' = [local EXCEPT ![w] = SubSeq(@, 0 + 1, Len(@)),
                               ![v] = @ \o SubSeq(SubSeq(local[w], 1, 0), 2, 0)]
    BY <1>3 DEF TrySteal
  <2>2. SubSeq(local[w], 1, 0) = <<>>
    BY <1>2
  <2>3. SubSeq(<<>>, 2, 0) = <<>> /\ <<>> \o <<>> = <<>>
    OBVIOUS
  <2>4. QED
    BY <1>2, <1>3, <2>1, <2>2, <2>3 DEF Inv, TypeOK
<1>5. hand' = hand
  BY <1>1, <1>3 DEF TrySteal, Inv, TypeOK
<1>6. untried' \in [VP -> SUBSET VP]
  BY DEF TrySteal, Inv, TypeOK
<1>7. \E l \in {"global", "steal", "scan"} : pc' = [pc EXCEPT ![v] = l]
  <2>1. pc' = [pc EXCEPT ![v] = AfterVictim(v, w, 0)]
    BY <1>3 DEF TrySteal, Goto
  <2>2. AfterVictim(v, w, 0) \in {"steal", "scan"}
    BY DEF AfterVictim
  <2>3. QED
    BY <2>1, <2>2
<1>8. UNCHANGED <<state, saved, nextId, ready, cur, running, returned>>
  BY DEF TrySteal
<1>9. QED
  BY <1>1, <1>2, <1>4, <1>5, <1>6, <1>7, <1>8

LEMMA TryStealKeepsInv ==
  ASSUME Inv, NEW v \in VP, NEW w \in VP, TrySteal(v, w)
  PROVE  Inv'
BY TryStealIdle, LoopKeepsInv

LEMMA InitInv == Init => Inv
<1> SUFFICES ASSUME Init PROVE Inv
  OBVIOUS
<1>1. ready \in Seq(Thread) /\ Range(ready) = {} /\ IsInjective(ready)
  BY EmptySeq DEF Init, IsInjective, Range
<1>2. TypeOK
  BY <1>1, WorkStealAssumption, Constants
     DEF Init, TypeOK, ThreadStates, OnStack, StackPC, LoopPC
<1>3. StageSound /\ LocalSound /\ GlobalSound /\ OnePlace
  BY <1>1 DEF Init, StageSound, LocalSound, GlobalSound, OnePlace, Owns, Active,
              Taken, OnStack, StackPC
<1>4. Fresh /\ PhasesSound /\ StopsWhenDone
  BY Constants DEF Init, Fresh, PhasesSound, StopsWhenDone
<1>5. QED
  BY <1>2, <1>3, <1>4 DEF Inv

LEMMA NextKeepsInv ==
  ASSUME Inv, [Next]_vars
  PROVE  Inv'
<1>1. CASE UNCHANGED vars
  BY <1>1 DEF vars, Inv, TypeOK, StageSound, LocalSound, GlobalSound, OnePlace,
              Owns, Active, Taken, OnStack, Fresh, PhasesSound, StopsWhenDone,
              Alive
<1>2. CASE MainStep
  BY <1>2, MainCreateKeepsInv, MnRunKeepsInv, MnReturnKeepsInv, StopVPKeepsInv
     DEF MainStep
<1>3. ASSUME NEW v \in VP, LoopStep(v)
      PROVE  Inv'
  BY <1>3, TakeLocalKeepsInv, TakeGlobalKeepsInv, ScanKeepsInv,
     DispatchKeepsInv, TryStealKeepsInv DEF LoopStep
<1>4. ASSUME NEW v \in VP, CallStep(v)
      PROVE  Inv'
  BY <1>4, CreateAddKeepsInv, CreatePushKeepsInv, CreateReturnKeepsInv,
     YieldQueueKeepsInv, SwitchKeepsInv, LeaveKeepsInv DEF CallStep
<1>5. ASSUME NEW v \in VP, UserStep(v)
      PROVE  Inv'
  BY <1>5, CreateBeginKeepsInv, YieldMarkKeepsInv, ParkKeepsInv,
     ExitMarkKeepsInv DEF UserStep
<1>6. QED
  BY <1>1, <1>2, <1>3, <1>4, <1>5 DEF Next, Returned

-----------------------------------------------------------------------------
(***************************************************************************)
(* No READY thread is lost.                                                *)
(***************************************************************************)

\* t is on v's queue or in v's hands.
With(v, t) ==
  \/ local[v] # <<>> /\ cur[v] = t
  \/ pc[v] \in {"dispatch", "push"} /\ hand[v] = t
  \/ pc[v] = "requeue" /\ cur[v] = t

NoneLost ==
  \A t \in Thread :
    state[t] = "READY" => t \in Range(ready) \/ \E v \in VP : With(v, t)

\* A step of v in which the others keep what they have.
LEMMA OthersKeep ==
  ASSUME TypeOK, NEW v \in VP, NEW t,
         \A w \in VP \ {v} : /\ local'[w] = local[w] /\ cur'[w] = cur[w]
                             /\ pc'[w] = pc[w] /\ hand'[w] = hand[w],
         t \in Range(ready) \/ \E w \in VP : With(w, t),
         t \in Range(ready) => t \in Range(ready)' \/ With(v, t)',
         With(v, t) => t \in Range(ready)' \/ With(v, t)'
  PROVE  (t \in Range(ready) \/ \E w \in VP : With(w, t))'
<1>1. \A w \in VP \ {v} : With(w, t) => With(w, t)'
  BY DEF With
<1> QED
  BY <1>1

LEMMA LoopLosesNone ==
  ASSUME Inv, NoneLost, NEW v \in VP, LoopStep(v)
  PROVE  NoneLost'
<1> SUFFICES ASSUME NEW t \in Thread, state'[t] = "READY"
             PROVE  (t \in Range(ready) \/ \E w \in VP : With(w, t))'
  BY DEF NoneLost
<1> USE DEF Inv
<1>1. CASE \E w \in VP : TrySteal(v, w)
  <2>1. /\ UNCHANGED <<state, ready, local, cur, hand>>
        /\ pc[v] = "steal" /\ local[v] = <<>>
        /\ \E l \in {"global", "steal", "scan"} : pc' = [pc EXCEPT ![v] = l]
    BY <1>1, TryStealIdle
  <2>2. \A w \in VP : With(w, t) => With(w, t)'
    BY <2>1 DEF TypeOK, With
  <2> QED
    BY <2>1, <2>2 DEF NoneLost
<1>2. CASE Scan(v)
  <2>1. \A w \in VP : With(w, t) => With(w, t)'
    BY <1>2 DEF TypeOK, With, Scan, Goto
  <2> QED
    BY <1>2, <2>1 DEF NoneLost, Scan
<1>3. CASE TakeLocal(v)
  <2>1. /\ pc[v] = "top" /\ state' = state /\ ready' = ready /\ cur' = cur
        /\ \A w \in VP \ {v} : local'[w] = local[w] /\ pc'[w] = pc[w] /\ hand'[w] = hand[w]
    BY <1>3 DEF TypeOK, TakeLocal, Goto
  <2>2. With(v, t) => With(v, t)'
    <3>1. CASE local[v] = <<>> \/ UNCHANGED <<local, hand>>
      BY <1>3, <2>1, <3>1 DEF TypeOK, With, TakeLocal, Goto
    <3>2. CASE local[v] # <<>> /\ hand' = [hand EXCEPT ![v] = Head(local[v])]
                 /\ pc' = [pc EXCEPT ![v] = "dispatch"]
      <4>1. Head(local[v]) = cur[v]
        BY <3>2 DEF LocalSound
      <4> QED
        BY <2>1, <3>2, <4>1 DEF TypeOK, With
    <3> QED
      BY <1>3, <3>1, <3>2 DEF TakeLocal, Goto
  <2>3. t \in Range(ready) \/ \E w \in VP : With(w, t)
    BY <2>1 DEF NoneLost
  <2> QED
    BY <2>1, <2>2, <2>3, OthersKeep
<1>4. CASE TakeGlobal(v)
  <2>1. /\ pc[v] = "global" /\ state' = state /\ local' = local /\ cur' = cur
        /\ \A w \in VP \ {v} : pc'[w] = pc[w] /\ hand'[w] = hand[w]
    BY <1>4 DEF TypeOK, TakeGlobal, Goto
  <2>2. With(v, t) => With(v, t)'
    BY <2>1 DEF With, LocalSound
  <2>3. t \in Range(ready) \/ \E w \in VP : With(w, t)
    BY <2>1 DEF NoneLost
  <2>4. t \in Range(ready) => t \in Range(ready)' \/ With(v, t)'
    <3>1. CASE ready' = ready
      BY <3>1
    <3>2. CASE /\ ready # <<>> /\ ready' = Tail(ready)
               /\ hand' = [hand EXCEPT ![v] = Head(ready)]
               /\ pc' = [pc EXCEPT ![v] = "dispatch"]
      <4>1. Range(Tail(ready)) = Range(ready) \ {Head(ready)}
        BY <3>2, InjectiveTail DEF TypeOK, GlobalSound
      <4>2. pc'[v] = "dispatch" /\ hand'[v] = Head(ready)
        BY <3>2 DEF TypeOK
      <4>3. t = Head(ready) => With(v, t)'
        BY <4>2 DEF With
      <4> QED
        BY <3>2, <4>1, <4>3
    <3> QED
      BY <1>4, <3>1, <3>2 DEF TakeGlobal, Goto
  <2> QED
    BY <2>1, <2>2, <2>3, <2>4, OthersKeep
<1>5. CASE Dispatch(v)
  <2>1. /\ pc[v] = "dispatch" /\ ready' = ready /\ local' = local /\ hand[v] \in Thread
        /\ state' = [state EXCEPT ![hand[v]] = "RUNNING"]
        /\ \A w \in VP \ {v} : cur'[w] = cur[w] /\ pc'[w] = pc[w] /\ hand'[w] = hand[w]
    BY <1>5 DEF TypeOK, Dispatch, Goto
  <2>2. t # hand[v] /\ state[t] = "READY"
    BY <2>1 DEF TypeOK
  <2>3. ~With(v, t)
    BY <2>1, <2>2 DEF With, LocalSound
  <2>4. t \in Range(ready) \/ \E w \in VP : With(w, t)
    BY <2>2 DEF NoneLost
  <2> QED
    BY <2>1, <2>3, <2>4, OthersKeep
<1> QED
  BY <1>1, <1>2, <1>3, <1>4, <1>5 DEF LoopStep

LEMMA CallLosesNone ==
  ASSUME Inv, NoneLost, NEW v \in VP, CallStep(v) \/ UserStep(v)
  PROVE  NoneLost'
<1> SUFFICES ASSUME NEW t \in Thread, state'[t] = "READY"
             PROVE  (t \in Range(ready) \/ \E w \in VP : With(w, t))'
  BY DEF NoneLost
<1> USE DEF Inv
<1>1. CASE CreateAdd(v)
  <2>1. /\ pc[v] = "add" /\ UNCHANGED <<ready, local, cur, hand>>
        /\ state' = [state EXCEPT ![hand[v]] = "READY"]
        /\ pc' = [pc EXCEPT ![v] = "push"]
    BY <1>1 DEF CreateAdd, Goto
  <2>2. CASE t = hand[v]
    BY <2>1, <2>2 DEF With, TypeOK
  <2>3. CASE t # hand[v]
    BY <2>1, <2>3 DEF With, TypeOK, NoneLost
  <2> QED
    BY <2>2, <2>3
<1>2. CASE CreatePush(v)
  <2>1. /\ pc[v] = "push" /\ UNCHANGED <<state, local, cur, hand>>
        /\ ready' = Append(ready, hand[v]) /\ pc' = [pc EXCEPT ![v] = "return"]
        /\ ready \in Seq(Thread) /\ hand[v] \in Thread
    BY <1>2 DEF CreatePush, Goto, TypeOK
  <2>2. Range(ready') = Range(ready) \cup {hand[v]}
    BY <2>1, InjectiveAppend
  <2>3. \A w \in VP : With(w, t) => With(w, t)' \/ t = hand[v]
    BY <2>1 DEF With, TypeOK
  <2> QED
    BY <2>1, <2>2, <2>3 DEF NoneLost
<1>3. CASE YieldMark(v)
  <2>1. /\ pc[v] = "user" /\ UNCHANGED <<ready, local, cur, hand>>
        /\ state' = [state EXCEPT ![cur[v]] = "READY"]
        /\ pc' = [pc EXCEPT ![v] = "requeue"]
    BY <1>3 DEF YieldMark, Goto
  <2>2. CASE t = cur[v]
    BY <2>1, <2>2 DEF With, TypeOK
  <2>3. CASE t # cur[v]
    BY <2>1, <2>3 DEF With, TypeOK, NoneLost
  <2> QED
    BY <2>2, <2>3
<1>4. CASE YieldQueue(v)
  <2>1. /\ pc[v] = "requeue" /\ UNCHANGED <<state, ready, cur, hand>>
        /\ local' = [local EXCEPT ![v] = Append(local[v], cur[v])]
        /\ pc' = [pc EXCEPT ![v] = "switch"]
        /\ local[v] \in Seq(Thread) /\ cur[v] \in Thread
    BY <1>4 DEF YieldQueue, Goto, TypeOK, OnStack, StackPC
  <2>2. local'[v] # <<>>
    <3>1. Append(local[v], cur[v]) # <<>>
      BY <2>1, AppendProperties
    <3> QED
      BY <2>1, <3>1 DEF TypeOK
  <2>3. \A w \in VP : With(w, t) => With(w, t)'
    BY <2>1, <2>2 DEF With, TypeOK
  <2> QED
    BY <2>1, <2>3 DEF NoneLost
<1>5. CASE CreateReturn(v) \/ Switch(v) \/ Leave(v)
  <2>1. /\ pc[v] \in {"return", "switch", "leave"}
        /\ UNCHANGED <<state, ready, local, cur>>
        /\ \A w \in VP \ {v} : pc'[w] = pc[w] /\ hand'[w] = hand[w]
    BY <1>5 DEF CreateReturn, Switch, Leave, Goto, TypeOK
  <2>2. \A w \in VP : With(w, t) => With(w, t)'
    BY <2>1 DEF With
  <2> QED
    BY <2>1, <2>2 DEF NoneLost
<1>6. CASE CreateBegin(v) \/ Park(v) \/ ExitMark(v)
  <2>1. /\ pc[v] = "user" /\ UNCHANGED <<ready, local, cur>>
        /\ \A w \in VP \ {v} : pc'[w] = pc[w] /\ hand'[w] = hand[w]
    BY <1>6 DEF CreateBegin, Park, ExitMark, Goto, TypeOK
  <2>2. state[t] = "READY"
    BY <1>6 DEF CreateBegin, Park, ExitMark, Reap, TypeOK
  <2>3. \A w \in VP : With(w, t) => With(w, t)'
    BY <2>1 DEF With
  <2> QED
    BY <2>1, <2>2, <2>3 DEF NoneLost
<1> QED
  BY <1>1, <1>2, <1>3, <1>4, <1>5, <1>6 DEF CallStep, UserStep

LEMMA MainLosesNone ==
  ASSUME Inv, NoneLost, MainStep \/ UNCHANGED vars
  PROVE  NoneLost'
<1> SUFFICES ASSUME NEW t \in Thread, state'[t] = "READY"
             PROVE  (t \in Range(ready) \/ \E w \in VP : With(w, t))'
  BY DEF NoneLost
<1> USE DEF Inv
<1>1. CASE MainCreate
  <2>1. UNCHANGED <<local, cur, pc, hand>> /\ nextId \in Thread
    BY <1>1, WorkStealAssumption DEF MainCreate, TypeOK, Thread
  <2>2. \A w \in VP : With(w, t) => With(w, t)'
    BY <2>1 DEF With
  <2>3. CASE UNCHANGED <<state, ready>>
    BY <2>2, <2>3 DEF NoneLost
  <2>4. CASE /\ state' = [state EXCEPT ![nextId] = "READY"]
             /\ ready' = Append(ready, nextId)
    <3>1. Range(ready') = Range(ready) \cup {nextId}
      BY <2>1, <2>4, InjectiveAppend DEF TypeOK
    <3>2. t = nextId \/ state[t] = "READY"
      BY <2>4 DEF TypeOK
    <3> QED
      BY <2>2, <3>1, <3>2 DEF NoneLost
  <2> QED
    BY <1>1, <2>3, <2>4 DEF MainCreate
<1>2. CASE MnRun
  <2>1. pc[0] = "main" /\ UNCHANGED <<state, ready, local, cur, hand>>
    BY <1>2 DEF MnRun
  <2>2. \A w \in VP : pc[w] = "main"
    BY <2>1 DEF PhasesSound
  <2>3. \A w \in VP : With(w, t) => With(w, t)'
    BY <2>1, <2>2 DEF With
  <2> QED
    BY <2>1, <2>3 DEF NoneLost
<1>3. CASE MnReturn \/ (\E v \in VP : StopVP(v)) \/ UNCHANGED vars
  <2>1. UNCHANGED <<ready, local, cur, pc, hand>>
    BY <1>3 DEF MnReturn, StopVP, vars
  <2>2. state[t] = "READY"
    BY <1>3 DEF MnReturn, StopVP, vars, Reap, TypeOK
  <2>3. \A w \in VP : With(w, t) => With(w, t)'
    BY <2>1 DEF With
  <2> QED
    BY <2>1, <2>2, <2>3 DEF NoneLost
<1> QED
  BY <1>1, <1>2, <1>3 DEF MainStep

LEMMA NextLosesNone == Inv /\ NoneLost /\ [Next]_vars => NoneLost'
BY LoopLosesNone, CallLosesNone, MainLosesNone DEF Next, Returned

LEMMA InitLosesNone == Init => NoneLost
BY DEF Init, NoneLost

\* t can be taken from v: from its queue, or out of its hands.
Placed(v, t) == (local[v] # <<>> /\ cur[v] = t) \/ (Taken(v) /\ hand[v] = t)

LEMMA PlacedOnce ==
  ASSUME Inv, NEW t \in Thread, NEW v \in VP, NEW w \in VP,
         Placed(v, t), Placed(w, t)
  PROVE  /\ v = w /\ t \notin Range(ready)
         /\ Taken(v) /\ hand[v] = t => local[v] = <<>> \/ cur[v] # t
BY Apart DEF Placed, Active

\* A set of at most one element has the cardinality 0 or 1.
LEMMA AtMostOne ==
  ASSUME NEW S, \A x, y \in S : x = y
  PROVE  /\ S = {} => Cardinality(S) = 0
         /\ S # {} => Cardinality(S) = 1
<1>1. CASE S = {}
  BY <1>1, FS_EmptySet
<1>2. CASE S # {}
  <2>1. PICK x \in S : TRUE
    BY <1>2
  <2>2. S = {x}
    BY <2>1
  <2> QED
    BY <2>2, FS_Singleton
<1> QED
  BY <1>1, <1>2

LEMMA PlacesCount ==
  ASSUME Inv, NEW t \in Thread
  PROVE  /\ Places(t) \in {0, 1}
         /\ Places(t) = 1 <=> t \in Range(ready) \/ \E v \in VP : Placed(v, t)
<1> DEFINE L == {v \in VP : t \in Range(local[v])}
           H == {v \in VP : hand[v] = t /\ pc[v] # "return"}
           G == {q \in {ready} : t \in Range(q)}
<1>1. \A v \in VP : t \in Range(local[v]) <=> local[v] # <<>> /\ cur[v] = t
  <2> SUFFICES ASSUME NEW v \in VP
               PROVE  t \in Range(local[v]) <=> local[v] # <<>> /\ cur[v] = t
    OBVIOUS
  <2>1. CASE local[v] = <<>>
    BY <2>1, EmptyRange
  <2>2. CASE local[v] # <<>>
    <3>1. local[v] = <<cur[v]>>
      BY <2>2 DEF Inv, LocalSound
    <3>2. Range(<<cur[v]>>) = {cur[v]}
      BY DEF Range
    <3> QED
      BY <2>2, <3>1, <3>2
  <2> QED
    BY <2>1, <2>2
<1>2. \A v \in VP : hand[v] = t /\ pc[v] # "return" <=> Taken(v) /\ hand[v] = t
  BY Constants DEF Inv, TypeOK, Taken
<1>3. L = {v \in VP : local[v] # <<>> /\ cur[v] = t}
  BY <1>1
<1>4. H = {v \in VP : Taken(v) /\ hand[v] = t}
  BY <1>2
<1>5. /\ \A v, w \in L : v = w /\ v \notin H
      /\ \A v, w \in H : v = w
      /\ L = {} \/ H = {}
      /\ L # {} \/ H # {} <=> \E v \in VP : Placed(v, t)
      /\ L # {} \/ H # {} => t \notin Range(ready)
  BY <1>3, <1>4, PlacedOnce DEF Placed
<1>6. G # {} <=> t \in Range(ready)
  OBVIOUS
<1>7. \A x, y \in G : x = y
  OBVIOUS
<1>8. Places(t) = Cardinality(L) + Cardinality(H) + Cardinality(G)
  BY DEF Places
<1> HIDE DEF L, H, G
<1>9. /\ Cardinality(L) = IF L = {} THEN 0 ELSE 1
      /\ Cardinality(H) = IF H = {} THEN 0 ELSE 1
      /\ Cardinality(G) = IF G = {} THEN 0 ELSE 1
  BY <1>5, <1>7, AtMostOne
<1> QED
  BY <1>5, <1>6, <1>8, <1>9

\* Where running threads create none, a stack goes only after the joins.
LEMMA StepKeepsStacks ==
  ASSUME Inv, StackKept, [Next]_vars, ~CreateInRun
  PROVE  StackKept'
<1> SUFFICES ASSUME NEW v \in VP, OnStack(v)'
             PROVE  state'[cur'[v]] # "NONE"
  BY DEF StackKept
<1>1. Inv'
  BY NextKeepsInv
<1>2. CASE pc'[v] # "leave"
  BY <1>1, <1>2 DEF Inv, StageSound, OnStack, StackPC
<1>3. CASE pc'[v] = "leave" /\ pc[v] # "leave"
  <2>1. ExitMark(v)
    BY <1>3 DEF Inv, TypeOK, Next, vars, Returned, MainStep, LoopStep, CallStep,
       UserStep, MainCreate, MnRun, MnReturn, StopVP, TakeLocal, TakeGlobal, Scan,
       Dispatch, TrySteal, AfterVictim, CreateBegin, CreateAdd, CreatePush,
       CreateReturn, YieldMark, YieldQueue, Park, Switch, ExitMark, Leave, Goto
  <2> QED
    BY <2>1 DEF ExitMark, Inv, TypeOK, OnStack, StackPC
<1>4. CASE pc'[v] = "leave" /\ pc[v] = "leave"
  <2>1. OnStack(v) /\ cur[v] \in Thread /\ state[cur[v]] # "NONE"
    BY <1>4 DEF StackKept, Inv, TypeOK, OnStack, StackPC
  <2>2. cur'[v] = cur[v]
    BY <1>4 DEF Inv, TypeOK, Next, vars, Returned, MainStep, LoopStep, CallStep,
       UserStep, MainCreate, MnRun, MnReturn, StopVP, TakeLocal, TakeGlobal, Scan,
       Dispatch, TrySteal, CreateBegin, CreateAdd, CreatePush, CreateReturn,
       YieldMark, YieldQueue, Park, Switch, ExitMark, Leave
  <2>3. \A t \in Thread : state[t] # "NONE" => state'[t] # "NONE"
    BY <1>4 DEF Inv, TypeOK, Next, vars, Returned, MainStep, LoopStep, CallStep,
       UserStep, MainCreate, MnRun, MnReturn, StopVP, TakeLocal, TakeGlobal, Scan,
       Dispatch, TrySteal, CreateBegin, CreateAdd, CreatePush, CreateReturn,
       YieldMark, YieldQueue, Park, Switch, ExitMark, Leave
  <2> QED
    BY <2>1, <2>2, <2>3
<1> QED
  BY <1>2, <1>3, <1>4

-----------------------------------------------------------------------------
(***************************************************************************)
(* The theorems.                                                           *)
(***************************************************************************)

\* The invariant holds for every number of processors and threads.
THEOREM WorkStealInv == Spec => []Inv
<1>1. Init => Inv
  BY InitInv
<1>2. Inv /\ [Next]_vars => Inv'
  BY NextKeepsInv
<1>3. QED
  BY <1>1, <1>2, PTL DEF Spec

\* Every variable has its type, vp_loop dispatches only a thread that it found,
\* and calls are made only by a dispatched thread.
THEOREM WorkStealTypes == Spec => []TypeOK
<1>1. Inv => TypeOK
  BY DEF Inv
<1>2. QED
  BY <1>1, WorkStealInv, PTL

\* No two processors stand on one stack.
THEOREM ProcessorsApart == Spec => []OneProcessor
<1>1. Inv => OneProcessor
  BY Apart DEF OneProcessor, Active
<1>2. QED
  BY <1>1, WorkStealInv, PTL

\* vp_loop resumes only threads whose context has been saved, although mn_yield
\* queues its caller before swapcontext.
THEOREM ResumesSaved == Spec => []ContextSaved
<1>1. Inv => ContextSaved
  BY DEF Inv, StageSound, Taken, ContextSaved
<1>2. QED
  BY <1>1, WorkStealInv, PTL

\* try_steal never finds a queue of more than one thread, so it never steals.
THEOREM NeverSteals == Spec => []NothingToSteal
<1>1. Inv => NothingToSteal
  <2>1. ASSUME Inv, NEW v \in VP
        PROVE  Len(local[v]) <= 1
    <3>1. local[v] = <<>> \/ local[v] = <<cur[v]>>
      BY <2>1 DEF Inv, LocalSound
    <3>2. CASE local[v] = <<>>
      BY <3>2
    <3>3. CASE local[v] = <<cur[v]>>
      BY <3>3
    <3>4. QED
      BY <3>1, <3>2, <3>3
  <2>2. QED
    BY <2>1 DEF NothingToSteal
<1>2. QED
  BY <1>1, WorkStealInv, PTL

\* vp_loop ends only when every thread has finished.
THEOREM StopsSound == Spec => []StopsWhenDone
<1>1. Inv => StopsWhenDone
  BY DEF Inv
<1>2. QED
  BY <1>1, WorkStealInv, PTL

\* A READY thread is on one queue once, or in the hands of one processor, or
\* about to be queued by the processor it yields on; nothing else can be taken.
\* vp_loop, try_steal and mn_yield neither lose a thread nor run it twice.
THEOREM ReadyKept == Spec => []ReadyOnce
<1>1. Init => NoneLost
  BY InitLosesNone
<1>2. Inv /\ NoneLost /\ [Next]_vars => NoneLost'
  BY NextLosesNone
<1>3. Inv /\ NoneLost => ReadyOnce
  <2> SUFFICES ASSUME Inv, NoneLost
               PROVE  ReadyOnce
    OBVIOUS
  <2>1. IsInjective(ready)
    BY DEF Inv, GlobalSound
  <2>2. \A v \in VP : IsInjective(local[v])
    BY EmptySeq DEF Inv, LocalSound, IsInjective
  <2>3. ASSUME NEW t \in Thread
        PROVE  /\ Places(t) <= 1
               /\ Requeuing(t) => Places(t) = 0
               /\ state[t] = "READY" <=>
                    (Places(t) = 1 /\ ~Adding(t)) \/ Requeuing(t)
    <3>1. Places(t) \in {0, 1}
      BY PlacesCount
    <3>2. Places(t) = 1 <=> t \in Range(ready) \/ \E v \in VP : Placed(v, t)
      BY PlacesCount
    <3>3. ASSUME NEW v \in VP, pc[v] = "requeue", cur[v] = t
          PROVE  state[t] = "READY" /\ Places(t) = 0
      <4>1. Active(v) /\ local[v] = <<>> /\ ~Taken(v) /\ state[t] = "READY"
        BY <3>3 DEF Inv, StageSound, LocalSound, Active, Taken, OnStack, StackPC
      <4>2. t \notin Range(ready) /\ \A w \in VP : ~Placed(w, t)
        BY <3>3, <4>1, Apart DEF Placed, Active
      <4> QED
        BY <3>1, <3>2, <4>1, <4>2
    <3>4. ASSUME NEW v \in VP, pc[v] = "add", hand[v] = t
          PROVE  state[t] # "READY"
      BY <3>4 DEF Inv, StageSound
    <3>5. ASSUME state[t] = "READY", ~Requeuing(t)
          PROVE  Places(t) = 1 /\ ~Adding(t)
      BY <3>2, <3>4, <3>5 DEF NoneLost, With, Placed, Taken, Adding, Requeuing
    <3>6. ASSUME Places(t) = 1, ~Adding(t)
          PROVE  state[t] = "READY"
      <4>1. CASE t \in Range(ready)
        BY <4>1 DEF Inv, GlobalSound
      <4>2. ASSUME NEW v \in VP, Placed(v, t)
            PROVE  state[t] = "READY"
        BY <3>6, <4>2 DEF Inv, StageSound, LocalSound, Placed, Taken, Adding
      <4> QED
        BY <3>2, <3>6, <4>1, <4>2
    <3> QED
      BY <3>1, <3>3, <3>5, <3>6 DEF Requeuing
  <2> QED
    BY <2>1, <2>2, <2>3 DEF ReadyOnce
<1> QED
  BY <1>1, <1>2, <1>3, WorkStealInv, PTL DEF Spec

\* If main creates all threads before uthread_mn_run, no stack under a
\* processor's feet is reclaimed: uthread_mn_run collects only after it has
\* joined the processors.
THEOREM StacksKept ==
  ASSUME ~CreateInRun
  PROVE  Spec => []StackKept
<1>1. Init => StackKept
  BY DEF Init, StackKept, OnStack, StackPC
<1>2. Inv /\ StackKept /\ [Next]_vars => StackKept'
  BY StepKeepsStacks
<1> QED
  BY <1>1, <1>2, WorkStealInv, PTL DEF Spec

=============================================================================
