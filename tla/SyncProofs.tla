----------------------------- MODULE SyncProofs -----------------------------
(***************************************************************************)
(* Mutexes exclude, hand over and wake, and semaphores keep their units,   *)
(* for every number of threads, mutexes and semaphores, whatever policy is *)
(* installed and however alarms nest.  The invariant of the scheduler is   *)
(* kept by the blocking and waking calls as well.                          *)
(*                                                                         *)
(* A channel, which is built from a mutex and two semaphores, is a bounded *)
(* FIFO queue, for every capacity, every set of messages and every number  *)
(* of threads, with preemption between any two of its calls.               *)
(***************************************************************************)
EXTENDS Channel, SchedulerProofs

-----------------------------------------------------------------------------
(***************************************************************************)
(* Mutexes and semaphores.                                                 *)
(***************************************************************************)

Object == Mutexes \cup Sems

\* A thread on the wait list of a mutex is in a call of lock on it.
WaitersCalled ==
  \A m \in Mutexes : \A t \in Thread : Waits(t, m) => m \in called[t]

\* The invariant that is inductive: hand-off makes a waiter the owner, so that
\* MutualExclusion rests on WaitersCalled, and finds it off every other list,
\* so that ReadyListed (of Inv) rests on WaitListed.
SyncInv ==
  /\ Inv
  /\ SyncTypeOK
  /\ WaitListed
  /\ WaitersCalled
  /\ MutualExclusion
  /\ LockHeld
  /\ SemConserved
  /\ SemNoIdleUnit

\* Where wait lists are sound, only a waiter is kept outside.
LEMMA InsideMeans ==
  /\ WaitListed =>
       \A t \in Thread : \A m \in Mutexes :
         InCS(t, m) <=> m \in called[t] /\ ~Waits(t, m)
  /\ WaitListed' =>
       \A t \in Thread : \A m \in Mutexes :
         InCS(t, m)' <=> m \in called'[t] /\ ~Waits(t, m)'
BY DEF WaitListed, InCS

\* What the caller of a mutex or semaphore may rely on.
LEMMA SyncCaller ==
  ASSUME SyncInv, UserMode
  PROVE  /\ cur \in Thread /\ state[cur] = "RUNNING"
         /\ \A x \in Object : ~Waits(cur, x)
<1>1. cur \in Thread /\ state[cur] = "RUNNING"
  BY CallerFacts DEF SyncInv
<1> QED
  BY <1>1 DEF SyncInv, WaitListed, Object

\* Blocking adds the caller to one wait list and to nothing else.
LEMMA BlockOnOutcome ==
  ASSUME SyncInv, UserMode, NEW x \in Object, BlockOn(x)
  PROVE  /\ Inv'
         /\ waiters' \in [Object -> Seq(Thread)]
         /\ \A y \in Object \ {x} : waiters'[y] = waiters[y]
         /\ Len(waiters'[x]) = Len(waiters[x]) + 1
         /\ \A t \in Thread, y \in Object :
              Waits(t, y)' <=> Waits(t, y) \/ (t = cur /\ y = x)
         /\ WaitListed'
<1> DEFINE st == [state EXCEPT ![cur] = "BLOCKED"]
<1>1. /\ cur \in Thread /\ state[cur] = "RUNNING"
      /\ \A y \in Object : ~Waits(cur, y)
      /\ waiters \in [Object -> Seq(Thread)]
      /\ waiters' = [waiters EXCEPT ![x] = Append(waiters[x], cur)]
  BY SyncCaller DEF SyncInv, SyncTypeOK, Object, BlockOn, WaitListAdd
<1>2. /\ asleep \subseteq Thread /\ watch \subseteq Thread
      /\ ~exited /\ idle[cur] < MaxNest
  BY CallerFacts DEF SyncInv
<1>3. /\ st \in [Thread -> States] /\ st[cur] = "BLOCKED"
      /\ \A t \in Thread : t # cur => st[t] = state[t]
      /\ Listed(st, ready) /\ Parked(st, asleep, watch, due)
  BY BlockedCaller DEF SyncInv
<1>4. /\ YieldFrom(st, asleep, watch, due)
      /\ UNCHANGED <<prio, policy, nextId, epollOk>>
  BY DEF BlockOn
<1> HIDE DEF st
<1>5. Inv' /\ \A t \in Thread : YieldEdge(st[t], state'[t], t)
  BY <1>2, <1>3, <1>4, YieldKeepsInv DEF SyncInv
<1>6. \A t \in Thread : state'[t] = "BLOCKED" <=> t = cur \/ state[t] = "BLOCKED"
  BY <1>1, <1>3, <1>5 DEF YieldEdge
<1>7. /\ Append(waiters[x], cur) \in Seq(Thread)
      /\ Range(Append(waiters[x], cur)) = Range(waiters[x]) \cup {cur}
      /\ IsInjective(Append(waiters[x], cur))
      /\ Len(Append(waiters[x], cur)) = Len(waiters[x]) + 1
  <2>1. waiters[x] \in Seq(Thread) /\ IsInjective(waiters[x]) /\ cur \notin Range(waiters[x])
    BY <1>1 DEF SyncInv, WaitListed, Waits, Object
  <2> QED
    BY <1>1, <2>1, InjectiveAppend, AppendProperties
<1>8. /\ waiters'[x] = Append(waiters[x], cur)
      /\ \A y \in Object \ {x} : waiters'[y] = waiters[y]
      /\ waiters' \in [Object -> Seq(Thread)]
  BY <1>1, <1>7
<1>9. \A t \in Thread, y \in Object :
        Waits(t, y)' <=> Waits(t, y) \/ (t = cur /\ y = x)
  BY <1>7, <1>8 DEF Waits
<1>10. \A y \in Object : IsInjective(waiters'[y])
  BY <1>7, <1>8 DEF SyncInv, WaitListed, Object
<1>11. WaitListed'
  <2>1. \A t \in Thread : \A y, z \in Object : Waits(t, y)' /\ Waits(t, z)' => y = z
    BY <1>1, <1>9 DEF SyncInv, WaitListed, Object
  <2>2. \A t \in Thread : state'[t] = "BLOCKED" <=> \E y \in Object : Waits(t, y)'
    BY <1>6, <1>9 DEF SyncInv, WaitListed, Object
  <2> QED
    BY <1>10, <2>1, <2>2 DEF WaitListed, Object
<1> QED
  BY <1>5, <1>7, <1>8, <1>9, <1>11

\* Waking moves the first waiter from its list to the ready queue.
LEMMA WakeFirstOutcome ==
  ASSUME SyncInv, UserMode, NEW x \in Object, waiters[x] # <<>>, WakeFirst(x)
  PROVE  /\ Inv'
         /\ waiters' \in [Object -> Seq(Thread)]
         /\ \A y \in Object \ {x} : waiters'[y] = waiters[y]
         /\ Len(waiters'[x]) = Len(waiters[x]) - 1
         /\ Head(waiters[x]) \in Thread /\ Waits(Head(waiters[x]), x)
         /\ \A t \in Thread, y \in Object :
              Waits(t, y)' <=> Waits(t, y) /\ ~(t = Head(waiters[x]) /\ y = x)
         /\ WaitListed'
<1> DEFINE h == Head(waiters[x])
<1>1. /\ waiters \in [Object -> Seq(Thread)]
      /\ waiters' = [waiters EXCEPT ![x] = Tail(waiters[x])]
      /\ state' = [state EXCEPT ![h] = "READY"]
      /\ ready' = Append(ready, h)
      /\ UNCHANGED <<cur, idle, prio, policy, nextId, asleep, watch, due, epollOk,
                     exited>>
  BY DEF SyncInv, SyncTypeOK, Object, WakeFirst
<1>2. /\ h \in Thread /\ Waits(h, x)
      /\ Tail(waiters[x]) \in Seq(Thread)
      /\ Len(Tail(waiters[x])) = Len(waiters[x]) - 1
      /\ IsInjective(Tail(waiters[x]))
      /\ Range(Tail(waiters[x])) = Range(waiters[x]) \ {h}
  <2>1. waiters[x] \in Seq(Thread) /\ IsInjective(waiters[x])
    BY <1>1 DEF SyncInv, WaitListed, Object
  <2> QED
    BY <2>1, InjectiveTail DEF Waits
<1> HIDE DEF h
<1>3. state[h] = "BLOCKED"
  BY <1>2 DEF SyncInv, WaitListed, Object
<1>4. /\ waiters'[x] = Tail(waiters[x])
      /\ \A y \in Object \ {x} : waiters'[y] = waiters[y]
      /\ waiters' \in [Object -> Seq(Thread)]
  BY <1>1, <1>2
<1>5. \A t \in Thread, y \in Object :
        Waits(t, y)' <=> Waits(t, y) /\ ~(t = h /\ y = x)
  BY <1>2, <1>4 DEF Waits
<1>6. /\ state' \in [Thread -> States] /\ state'[h] = "READY"
      /\ \A t \in Thread : t # h => state'[t] = state[t]
  BY <1>1, <1>2 DEF SyncInv, Inv, TypeOK, States
<1>7. WaitListed'
  <2>1. \A y \in Object : IsInjective(waiters'[y])
    BY <1>2, <1>4 DEF SyncInv, WaitListed, Object
  <2>2. \A t \in Thread : \A y, z \in Object : Waits(t, y)' /\ Waits(t, z)' => y = z
    BY <1>5 DEF SyncInv, WaitListed, Object
  <2>3. \A t \in Thread : state'[t] = "BLOCKED" <=> \E y \in Object : Waits(t, y)'
    BY <1>2, <1>5, <1>6 DEF SyncInv, WaitListed, Object
  <2> QED
    BY <2>1, <2>2, <2>3 DEF WaitListed, Object
<1>8. Inv'
  <2>1. /\ ready \in Seq(Thread) /\ IsInjective(ready) /\ h \notin Range(ready)
        /\ h \notin asleep \cup watch
        /\ asleep \subseteq Thread /\ watch \subseteq Thread
    BY <1>2, <1>3
       DEF SyncInv, Inv, TypeOK, ReadyListed, Listed, ParkedSound, Parked
  <2>2. /\ ready' \in Seq(Thread) /\ IsInjective(ready')
        /\ Range(ready') = Range(ready) \cup {h}
    BY <1>1, <1>2, <2>1, InjectiveAppend
  <2>3. TypeOK'
    BY <1>1, <1>6, <2>2 DEF SyncInv, Inv, TypeOK
  <2>4. ReadyListed'
    BY <1>6, <2>2 DEF SyncInv, Inv, ReadyListed, Listed
  <2>5. ParkedSound'
    BY <1>1, <1>6, <2>1 DEF SyncInv, Inv, ParkedSound, Parked
  <2>6. UserRuns' /\ CurrentKept'
    <3>1. cur \in Thread /\ cur # h /\ ~exited
      BY <1>3, SyncCaller DEF UserMode
    <3> QED
      BY <1>1, <1>6, <3>1 DEF SyncInv, Inv, UserRuns, UserMode, CurrentKept
  <2>7. Fresh'
    BY <1>1, <1>3, <1>6 DEF SyncInv, Inv, Fresh
  <2> QED
    BY <2>3, <2>4, <2>5, <2>6, <2>7 DEF Inv
<1> QED
  BY <1>2, <1>4, <1>5, <1>7, <1>8 DEF h

LEMMA MutexLockKeepsInv ==
  ASSUME SyncInv, NEW m \in Mutexes, MutexLock(m)
  PROVE  SyncInv'
<1>1. /\ UserMode /\ m \notin called[cur] /\ UNCHANGED semVars
      /\ called' = [called EXCEPT ![cur] = called[cur] \cup {m}]
  BY DEF MutexLock
<1>2. /\ cur \in Thread /\ m \in Object /\ m \notin Sems
      /\ \A x \in Object : ~Waits(cur, x)
      /\ called \in [Thread -> SUBSET Mutexes] /\ locked \in [Mutexes -> BOOLEAN]
  BY <1>1, SyncCaller, SyncAssumption DEF Object, SyncInv, SyncTypeOK
<1>3. /\ called' \in [Thread -> SUBSET Mutexes]
      /\ \A t \in Thread : \A n \in Mutexes :
           n \in called'[t] <=> n \in called[t] \/ (t = cur /\ n = m)
  BY <1>1, <1>2
<1>4. CASE ~locked[m]
  <2>1. locked' = [locked EXCEPT ![m] = TRUE] /\ UNCHANGED <<vars, waiters>>
    BY <1>4 DEF MutexLock
  <2>2. Inv'
    BY <2>1, InvUnchanged DEF SyncInv
  <2>3. WaitListed' /\ \A t, x : Waits(t, x)' <=> Waits(t, x)
    BY <2>1 DEF SyncInv, WaitListed, Waits, vars
  <2>4. SyncTypeOK'
    BY <1>1, <1>2, <1>3, <2>1, <2>2 DEF SyncInv, SyncTypeOK, Inv, semVars
  <2>5. WaitersCalled'
    BY <1>3, <2>3 DEF SyncInv, WaitersCalled
  <2>6. \A t \in Thread : \A n \in Mutexes :
          InCS(t, n)' <=> InCS(t, n) \/ (t = cur /\ n = m)
    BY <1>2, <1>3, <2>3, InsideMeans DEF SyncInv, Object
  <2>7. MutualExclusion' /\ LockHeld'
    <3>1. \A t \in Thread : ~InCS(t, m)
      BY <1>4 DEF SyncInv, LockHeld
    <3>2. MutualExclusion'
      BY <2>6, <3>1 DEF SyncInv, MutualExclusion
    <3>3. \A n \in Mutexes : locked'[n] <=> locked[n] \/ n = m
      BY <1>2, <2>1
    <3>4. LockHeld'
      BY <1>2, <2>1, <2>6, <3>3 DEF SyncInv, LockHeld
    <3> QED
      BY <3>2, <3>4
  <2>8. SemConserved' /\ SemNoIdleUnit'
    BY <1>1, <2>1 DEF SyncInv, SemConserved, SemNoIdleUnit, semVars
  <2> QED
    BY <2>2, <2>3, <2>4, <2>5, <2>7, <2>8 DEF SyncInv
<1>5. CASE locked[m]
  <2>1. BlockOn(m) /\ UNCHANGED locked
    BY <1>5 DEF MutexLock
  <2>2. /\ Inv' /\ WaitListed'
        /\ waiters' \in [Object -> Seq(Thread)]
        /\ \A y \in Object \ {m} : waiters'[y] = waiters[y]
        /\ \A t \in Thread, y \in Object :
             Waits(t, y)' <=> Waits(t, y) \/ (t = cur /\ y = m)
    BY <1>1, <1>2, <2>1, BlockOnOutcome
  <2>3. SyncTypeOK'
    BY <1>1, <1>2, <1>3, <2>1, <2>2 DEF SyncInv, SyncTypeOK, Inv, semVars, Object
  <2>4. WaitersCalled'
    BY <1>3, <2>2 DEF SyncInv, WaitersCalled, Object
  <2>5. \A t \in Thread : \A n \in Mutexes : InCS(t, n)' <=> InCS(t, n)
    BY <1>1, <1>2, <1>3, <2>2, InsideMeans DEF SyncInv, Object
  <2>6. MutualExclusion' /\ LockHeld'
    BY <1>5, <2>1, <2>2, <2>5 DEF SyncInv, MutualExclusion, LockHeld, Object
  <2>7. SemConserved' /\ SemNoIdleUnit'
    BY <1>1, <1>2, <2>2 DEF SyncInv, SemConserved, SemNoIdleUnit, semVars, Object
  <2> QED
    BY <2>2, <2>3, <2>4, <2>6, <2>7 DEF SyncInv
<1> QED
  BY <1>4, <1>5

LEMMA MutexUnlockKeepsInv ==
  ASSUME SyncInv, NEW m \in Mutexes, MutexUnlock(m)
  PROVE  SyncInv'
<1>1. /\ UserMode /\ m \in called[cur] /\ UNCHANGED semVars
      /\ called' = [called EXCEPT ![cur] = called[cur] \ {m}]
  BY DEF MutexUnlock
<1>2. /\ cur \in Thread /\ m \in Object /\ m \notin Sems
      /\ \A x \in Object : ~Waits(cur, x)
      /\ called \in [Thread -> SUBSET Mutexes] /\ locked \in [Mutexes -> BOOLEAN]
  BY <1>1, SyncCaller, SyncAssumption DEF Object, SyncInv, SyncTypeOK
<1>3. /\ called' \in [Thread -> SUBSET Mutexes]
      /\ \A t \in Thread : \A n \in Mutexes :
           n \in called'[t] <=> n \in called[t] /\ ~(t = cur /\ n = m)
  BY <1>1, <1>2
<1>4. InCS(cur, m) /\ \A t \in Thread : InCS(t, m) => t = cur
  BY <1>1, <1>2, InsideMeans DEF SyncInv, MutualExclusion
<1>5. CASE waiters[m] # <<>>
  <2> DEFINE h == Head(waiters[m])
  <2>1. WakeFirst(m) /\ UNCHANGED locked
    BY <1>5 DEF MutexUnlock, HandOff
  <2>2. /\ Inv' /\ WaitListed'
        /\ waiters' \in [Object -> Seq(Thread)]
        /\ \A y \in Object \ {m} : waiters'[y] = waiters[y]
        /\ h \in Thread /\ Waits(h, m)
        /\ \A t \in Thread, y \in Object :
             Waits(t, y)' <=> Waits(t, y) /\ ~(t = h /\ y = m)
    BY <1>1, <1>2, <1>5, <2>1, WakeFirstOutcome
  <2> HIDE DEF h
  <2>3. SyncTypeOK'
    BY <1>1, <1>2, <1>3, <2>1, <2>2 DEF SyncInv, SyncTypeOK, Inv, semVars, Object
  <2>4. h # cur /\ m \in called[h]
    BY <1>2, <2>2 DEF SyncInv, WaitersCalled
  <2>5. WaitersCalled'
    BY <1>2, <1>3, <2>2 DEF SyncInv, WaitersCalled, Object
  <2>6. \A t \in Thread : \A n \in Mutexes :
          InCS(t, n)' <=> IF n = m THEN t = h ELSE InCS(t, n)
    <3>1. ASSUME NEW t \in Thread, NEW n \in Mutexes
          PROVE  /\ InCS(t, n) <=> n \in called[t] /\ ~Waits(t, n)
                 /\ InCS(t, n)' <=> n \in called'[t] /\ ~Waits(t, n)'
                 /\ Waits(t, n)' <=> Waits(t, n) /\ ~(t = h /\ n = m)
      BY <2>2, InsideMeans DEF SyncInv, Object
    <3> QED
      BY <1>3, <1>4, <2>2, <2>4, <3>1
  <2>7. MutualExclusion' /\ LockHeld'
    <3>1. MutualExclusion'
      BY <2>6 DEF SyncInv, MutualExclusion
    <3>2. locked[m]
      BY <1>2, <1>4 DEF SyncInv, LockHeld
    <3>3. LockHeld'
      BY <1>2, <2>1, <2>2, <2>6, <3>2 DEF SyncInv, LockHeld, Object
    <3> QED
      BY <3>1, <3>3
  <2>8. SemConserved' /\ SemNoIdleUnit'
    BY <1>1, <1>2, <2>2 DEF SyncInv, SemConserved, SemNoIdleUnit, semVars, Object
  <2> QED
    BY <2>2, <2>3, <2>5, <2>7, <2>8 DEF SyncInv
<1>6. CASE waiters[m] = <<>>
  <2>1. locked' = [locked EXCEPT ![m] = FALSE] /\ UNCHANGED <<vars, waiters>>
    BY <1>6 DEF MutexUnlock, HandOff
  <2>2. Inv'
    BY <2>1, InvUnchanged DEF SyncInv
  <2>3. WaitListed' /\ \A t, x : Waits(t, x)' <=> Waits(t, x)
    BY <2>1 DEF SyncInv, WaitListed, Waits, vars
  <2>4. SyncTypeOK'
    BY <1>1, <1>2, <1>3, <2>1, <2>2 DEF SyncInv, SyncTypeOK, Inv, semVars
  <2>5. \A t \in Thread : ~Waits(t, m)
    BY <1>6, EmptyRange DEF Waits
  <2>6. WaitersCalled'
    BY <1>3, <2>3, <2>5 DEF SyncInv, WaitersCalled
  <2>7. \A t \in Thread : \A n \in Mutexes :
          InCS(t, n)' <=> InCS(t, n) /\ n # m
    BY <1>2, <1>3, <1>4, <2>3, InsideMeans DEF SyncInv, Object
  <2>8. MutualExclusion' /\ LockHeld'
    <3>1. MutualExclusion'
      BY <2>7 DEF SyncInv, MutualExclusion
    <3>2. \A n \in Mutexes : locked'[n] <=> locked[n] /\ n # m
      BY <1>2, <2>1
    <3>3. LockHeld'
      BY <1>6, <2>1, <2>7, <3>2 DEF SyncInv, LockHeld
    <3> QED
      BY <3>1, <3>3
  <2>9. SemConserved' /\ SemNoIdleUnit'
    BY <1>1, <2>1 DEF SyncInv, SemConserved, SemNoIdleUnit, semVars
  <2> QED
    BY <2>2, <2>3, <2>4, <2>6, <2>8, <2>9 DEF SyncInv
<1> QED
  BY <1>5, <1>6

\* What a step of a semaphore leaves alone.
LEMMA MutexesAside ==
  ASSUME SyncInv, UNCHANGED mutexVars, WaitListed',
         \A m \in Mutexes : waiters'[m] = waiters[m]
  PROVE  WaitersCalled' /\ MutualExclusion' /\ LockHeld'
<1>1. \A t : \A m \in Mutexes : Waits(t, m)' <=> Waits(t, m)
  BY DEF Waits
<1>2. \A t \in Thread : \A m \in Mutexes : InCS(t, m)' <=> InCS(t, m)
  BY <1>1, InsideMeans DEF SyncInv, mutexVars
<1> QED
  BY <1>1, <1>2 DEF SyncInv, WaitersCalled, MutualExclusion, LockHeld, mutexVars

LEMMA SemFacts ==
  ASSUME SyncInv, NEW s \in Sems
  PROVE  /\ s \in Object /\ s \notin Mutexes
         /\ count \in [Sems -> Int] /\ net \in [Sems -> Int]
         /\ waiters \in [Object -> Seq(Thread)]
         /\ \A x \in Sems : Len(waiters[x]) \in Nat
         /\ waiters[s] = <<>> <=> Len(waiters[s]) = 0
<1>1. waiters \in [Object -> Seq(Thread)]
  BY DEF SyncInv, SyncTypeOK, Object
<1>2. \A x \in Sems : waiters[x] \in Seq(Thread)
  BY <1>1 DEF Object
<1> QED
  BY <1>1, <1>2, SyncAssumption, EmptySeq, LenProperties DEF SyncInv, SyncTypeOK, Object

LEMMA SemWaitKeepsInv ==
  ASSUME SyncInv, NEW s \in Sems, SemWait(s)
  PROVE  SyncInv'
<1>1. /\ UserMode /\ net' = [net EXCEPT ![s] = net[s] - 1]
      /\ UNCHANGED mutexVars
  BY DEF SemWait
<1>2. /\ s \in Object /\ s \notin Mutexes
      /\ count \in [Sems -> Int] /\ net \in [Sems -> Int]
      /\ waiters \in [Object -> Seq(Thread)]
      /\ \A x \in Sems : Len(waiters[x]) \in Nat
      /\ waiters[s] = <<>> <=> Len(waiters[s]) = 0
  BY SemFacts
<1>3. net' \in [Sems -> Int]
  BY <1>1, <1>2
<1>4. CASE count[s] > 0
  <2>1. count' = [count EXCEPT ![s] = count[s] - 1] /\ UNCHANGED <<vars, waiters>>
    BY <1>2, <1>4 DEF SemWait
  <2>2. Inv'
    BY <2>1, InvUnchanged DEF SyncInv
  <2>3. WaitListed'
    BY <2>1 DEF SyncInv, WaitListed, Waits, vars
  <2>4. WaitersCalled' /\ MutualExclusion' /\ LockHeld'
    BY <1>1, <2>1, <2>3, MutexesAside
  <2>5. SyncTypeOK'
    BY <1>1, <1>2, <1>3, <2>1, <2>2 DEF SyncInv, SyncTypeOK, Inv, mutexVars
  <2>6. SemConserved'
    BY <1>1, <1>2, <2>1 DEF SyncInv, SemConserved
  <2>7. SemNoIdleUnit'
    BY <1>2, <1>4, <2>1 DEF SyncInv, SemNoIdleUnit
  <2> QED
    BY <2>2, <2>3, <2>4, <2>5, <2>6, <2>7 DEF SyncInv
<1>5. CASE count[s] <= 0
  <2>1. BlockOn(s) /\ UNCHANGED count
    BY <1>2, <1>5 DEF SemWait
  <2>2. /\ Inv' /\ WaitListed'
        /\ waiters' \in [Object -> Seq(Thread)]
        /\ \A y \in Object \ {s} : waiters'[y] = waiters[y]
        /\ Len(waiters'[s]) = Len(waiters[s]) + 1
    BY <1>1, <1>2, <2>1, BlockOnOutcome
  <2>3. WaitersCalled' /\ MutualExclusion' /\ LockHeld'
    BY <1>1, <1>2, <2>2, MutexesAside DEF Object
  <2>4. SyncTypeOK'
    BY <1>1, <1>3, <2>1, <2>2 DEF SyncInv, SyncTypeOK, Inv, mutexVars, Object
  <2>5. SemConserved'
    BY <1>1, <1>2, <2>1, <2>2 DEF SyncInv, SemConserved, Object
  <2>6. SemNoIdleUnit'
    BY <1>2, <1>5, <2>1, <2>2 DEF SyncInv, SemNoIdleUnit, Object
  <2> QED
    BY <2>2, <2>3, <2>4, <2>5, <2>6 DEF SyncInv
<1> QED
  BY <1>2, <1>4, <1>5

LEMMA SemPostKeepsInv ==
  ASSUME SyncInv, NEW s \in Sems, SemPost(s)
  PROVE  SyncInv'
<1>1. /\ UserMode /\ net' = [net EXCEPT ![s] = net[s] + 1]
      /\ UNCHANGED mutexVars
  BY DEF SemPost
<1>2. /\ s \in Object /\ s \notin Mutexes
      /\ count \in [Sems -> Int] /\ net \in [Sems -> Int]
      /\ waiters \in [Object -> Seq(Thread)]
      /\ \A x \in Sems : Len(waiters[x]) \in Nat
      /\ waiters[s] = <<>> <=> Len(waiters[s]) = 0
  BY SemFacts
<1>3. net' \in [Sems -> Int]
  BY <1>1, <1>2
<1>4. CASE waiters[s] # <<>>
  <2>1. WakeFirst(s) /\ UNCHANGED count
    BY <1>4 DEF SemPost, PassUnit
  <2>2. /\ Inv' /\ WaitListed'
        /\ waiters' \in [Object -> Seq(Thread)]
        /\ \A y \in Object \ {s} : waiters'[y] = waiters[y]
        /\ Len(waiters'[s]) = Len(waiters[s]) - 1
    BY <1>1, <1>2, <1>4, <2>1, WakeFirstOutcome
  <2>3. WaitersCalled' /\ MutualExclusion' /\ LockHeld'
    BY <1>1, <1>2, <2>2, MutexesAside DEF Object
  <2>4. SyncTypeOK'
    BY <1>1, <1>3, <2>1, <2>2 DEF SyncInv, SyncTypeOK, Inv, mutexVars, Object
  <2>5. SemConserved'
    BY <1>1, <1>2, <2>1, <2>2 DEF SyncInv, SemConserved, Object
  <2>6. SemNoIdleUnit'
    BY <1>2, <1>4, <2>1, <2>2 DEF SyncInv, SemNoIdleUnit, Object
  <2> QED
    BY <2>2, <2>3, <2>4, <2>5, <2>6 DEF SyncInv
<1>5. CASE waiters[s] = <<>>
  <2>1. count' = [count EXCEPT ![s] = count[s] + 1] /\ UNCHANGED <<vars, waiters>>
    BY <1>5 DEF SemPost, PassUnit
  <2>2. Inv'
    BY <2>1, InvUnchanged DEF SyncInv
  <2>3. WaitListed'
    BY <2>1 DEF SyncInv, WaitListed, Waits, vars
  <2>4. WaitersCalled' /\ MutualExclusion' /\ LockHeld'
    BY <1>1, <2>1, <2>3, MutexesAside
  <2>5. SyncTypeOK'
    BY <1>1, <1>2, <1>3, <2>1, <2>2 DEF SyncInv, SyncTypeOK, Inv, mutexVars
  <2>6. SemConserved'
    BY <1>1, <1>2, <2>1 DEF SyncInv, SemConserved
  <2>7. SemNoIdleUnit'
    BY <1>2, <1>5, <2>1 DEF SyncInv, SemNoIdleUnit
  <2> QED
    BY <2>2, <2>3, <2>4, <2>5, <2>6, <2>7 DEF SyncInv
<1> QED
  BY <1>4, <1>5

\* The scheduler's own steps block and wake nobody on a mutex or semaphore.
LEMMA PlainKeepsInv ==
  ASSUME SyncInv, [Next]_vars, UNCHANGED syncVars
  PROVE  SyncInv'
<1>1. Inv' /\ StatesFollow
  BY NextKeepsInv DEF SyncInv
<1>2. \A t \in Thread : state'[t] = "BLOCKED" <=> state[t] = "BLOCKED"
  BY <1>1 DEF StatesFollow
<1>3. UNCHANGED <<locked, called, count, net, waiters>>
  BY DEF syncVars, mutexVars, semVars
<1>4. WaitListed'
  BY <1>2, <1>3 DEF SyncInv, WaitListed, Waits
<1>5. WaitersCalled' /\ MutualExclusion' /\ LockHeld'
  BY <1>3, <1>4, MutexesAside DEF mutexVars
<1>6. SyncTypeOK' /\ SemConserved' /\ SemNoIdleUnit'
  BY <1>1, <1>3 DEF SyncInv, SyncTypeOK, Inv, SemConserved, SemNoIdleUnit
<1> QED
  BY <1>1, <1>4, <1>5, <1>6 DEF SyncInv

LEMMA SyncInitInv == SyncInit => SyncInv
<1> SUFFICES ASSUME SyncInit  PROVE  SyncInv
  OBVIOUS
<1>1. Inv
  BY InitInv DEF SyncInit
<1>2. \A x \in Object : waiters[x] = <<>>
  BY DEF SyncInit, Object
<1>3. \A t \in Thread, x \in Object : ~Waits(t, x)
  BY <1>2, EmptyRange DEF Waits
<1>4. SyncTypeOK
  <2>1. waiters \in [Object -> Seq(Thread)]
    BY EmptySeq DEF SyncInit, Object
  <2> QED
    BY <1>1, <2>1, SyncAssumption DEF SyncInit, SyncTypeOK, Inv, Object
<1>5. WaitListed
  <2>1. \A x \in Object : IsInjective(waiters[x])
    BY <1>2, EmptySeq DEF IsInjective
  <2>2. \A t \in Thread : state[t] # "BLOCKED"
    BY DEF SyncInit, Init
  <2> QED
    BY <1>3, <2>1, <2>2 DEF WaitListed, Object
<1>6. WaitersCalled
  BY <1>3 DEF WaitersCalled, Object
<1>7. MutualExclusion /\ LockHeld
  BY <1>2 DEF SyncInit, MutualExclusion, LockHeld, InCS, Object
<1>8. SemConserved /\ SemNoIdleUnit
  <2>1. \A s \in Sems : waiters[s] = <<>> /\ count[s] \in Nat /\ net[s] = count[s]
    BY <1>2, SyncAssumption DEF SyncInit, Object
  <2>2. Len(<<>>) = 0
    BY EmptySeq
  <2> QED
    BY <2>1, <2>2 DEF SemConserved, SemNoIdleUnit
<1> QED
  BY <1>1, <1>4, <1>5, <1>6, <1>7, <1>8 DEF SyncInv

LEMMA SyncNextKeepsInv == SyncInv /\ [SyncNext]_allVars => SyncInv'
<1> SUFFICES ASSUME SyncInv, [SyncNext]_allVars  PROVE  SyncInv'
  OBVIOUS
<1>1. CASE \E m \in Mutexes : MutexLock(m) \/ MutexUnlock(m)
  BY <1>1, MutexLockKeepsInv, MutexUnlockKeepsInv
<1>2. CASE \E s \in Sems : SemWait(s) \/ SemPost(s)
  BY <1>2, SemWaitKeepsInv, SemPostKeepsInv
<1>3. CASE PlainStep
  <2>1. Next /\ UNCHANGED syncVars
    BY <1>3 DEF PlainStep, Next, UserStep
  <2> QED
    BY <2>1, PlainKeepsInv
<1>4. CASE UNCHANGED allVars
  BY <1>4, PlainKeepsInv DEF allVars
<1> QED
  BY <1>1, <1>2, <1>3, <1>4 DEF SyncNext, SyncStep

THEOREM SyncInvariant == SyncSpec => []SyncInv
BY SyncInitInv, SyncNextKeepsInv, PTL DEF SyncSpec

\* Absolute mutual exclusion, as design.md says it of uthread_mutex_t: for any
\* number of threads and mutexes, with preemption and nested alarms.
THEOREM MutexExcludes == SyncSpec => []MutualExclusion
<1>1. SyncInv => MutualExclusion
  BY DEF SyncInv
<1> QED
  BY <1>1, SyncInvariant, PTL

\* uthread_mutex_unlock neither loses a wake-up nor leaves a mutex locked that
\* nobody will unlock.
THEOREM LockSound == SyncSpec => []LockHeld
<1>1. SyncInv => LockHeld
  BY DEF SyncInv
<1> QED
  BY <1>1, SyncInvariant, PTL

\* The blocked threads are those on wait lists, each on one, and the ready and
\* sleep lists stay sound beside them.
THEOREM WaitListsSound == SyncSpec => [](WaitListed /\ ReadyListed /\ ParkedSound)
<1>1. SyncInv => WaitListed /\ ReadyListed /\ ParkedSound
  BY DEF SyncInv, Inv
<1> QED
  BY <1>1, SyncInvariant, PTL

\* uthread_sem_wait and _post neither lose nor make units.
THEOREM UnitsSound == SyncSpec => []SemConserved
<1>1. SyncInv => SemConserved
  BY DEF SyncInv
<1> QED
  BY <1>1, SyncInvariant, PTL

\* Nobody waits beside a free unit: uthread_sem_post hands its unit to the
\* oldest waiter, and raises the count only when there is none.
THEOREM NobodyWaitsBesideUnit == SyncSpec => []SemNoIdleUnit
<1>1. SyncInv => SemNoIdleUnit
  BY DEF SyncInv
<1> QED
  BY <1>1, SyncInvariant, PTL

-----------------------------------------------------------------------------
(***************************************************************************)
(* Channels.                                                               *)
(***************************************************************************)

Sent == Message \cup {NoMessage}
Position == 0 .. Capacity - 1

ChanTypeOK ==
  /\ op \in [Thread -> {"none", "send", "recv"}]
  /\ at \in [Thread -> {"begin", "lock", "access", "advance", "unlock", "post"}]
  /\ msg \in [Thread -> Sent]
  /\ buffer \in [Position -> Sent]
  /\ head \in Position /\ tail \in Position
  /\ filled \in Int
  /\ taken \in Sent

\* What a thread is waiting for, and whether it has called lock, follows from
\* where it is in its call.
CallsSound ==
  \A t \in Thread :
    /\ op[t] = "none" <=> at[t] = "begin"
    /\ Waits(t, space) => op[t] = "send" /\ at[t] = "lock"
    /\ Waits(t, messages) => op[t] = "recv" /\ at[t] = "lock"
    /\ Waits(t, mutex) => at[t] = "access"
    /\ mutex \in called[t] <=> at[t] \in {"access", "advance", "unlock"}
    /\ op[t] = "send" /\ at[t] \in {"lock", "access", "advance"} => msg[t] \in Message

\* tail is filled places after head; between its access and its advance a
\* thread finds the buffer as it left it.
RingSound ==
  /\ tail = (head + filled) % Capacity
  /\ \A t \in Thread : at[t] = "advance" =>
       /\ op[t] = "send" => buffer[tail] = msg[t]
       /\ op[t] = "recv" => buffer[head] = msg[t]

\* The invariant that is inductive.
ChanInv == SyncInv /\ ChanTypeOK /\ CallsSound /\ RingSound /\ SlotsAccounted

-----------------------------------------------------------------------------
(* Places of the ring. *)

LEMMA ModSplit ==
  ASSUME NEW h \in Position, NEW i \in 0 .. Capacity
  PROVE  /\ (h + i) % Capacity = IF h + i < Capacity THEN h + i ELSE h + i - Capacity
         /\ (h + i) % Capacity \in Position
<1> USE ChannelAssumption DEF Position
<1>1. CASE h + i < Capacity
  BY <1>1
<1>2. CASE h + i >= Capacity
  BY <1>2
<1> QED
  BY <1>1, <1>2

-----------------------------------------------------------------------------
(* Threads that hold a slot or a message. *)

Claimers(kind, steps) ==
  {t \in Thread :
    op[t] = kind /\ at[t] \in steps /\ ~Waits(t, space) /\ ~Waits(t, messages)}

Early == {"lock", "access", "advance"}
Late  == {"unlock", "post"}

LEMMA ThreadFinite == IsFiniteSet(Thread)
BY SchedulerAssumption, FS_Interval DEF Thread

LEMMA ClaimersFinite ==
  \A kind, steps :
    /\ IsFiniteSet(Claimers(kind, steps))
    /\ Claims(kind, steps) = Cardinality(Claimers(kind, steps))
    /\ Claims(kind, steps) \in Nat
<1> TAKE kind, steps
<1>1. Claimers(kind, steps) \subseteq Thread
  BY DEF Claimers
<1>2. IsFiniteSet(Claimers(kind, steps))
  BY <1>1, ThreadFinite, FS_Subset
<1>3. Claims(kind, steps) = Cardinality(Claimers(kind, steps))
  BY DEF Claims, Claimers
<1> QED
  BY <1>2, <1>3, FS_CardinalityType

\* One thread more, one fewer.
LEMMA CountIn ==
  ASSUME NEW A, IsFiniteSet(A), NEW x, x \notin A
  PROVE  Cardinality(A \cup {x}) = Cardinality(A) + 1
BY FS_AddElement

LEMMA CountOut ==
  ASSUME NEW A, IsFiniteSet(A), NEW x \in A
  PROVE  Cardinality(A \ {x}) = Cardinality(A) - 1
BY FS_RemoveElement

\* Whoever has a slot or a message keeps the ring from being full or empty.
LEMMA ClaimBounds ==
  ASSUME SlotsAccounted, SyncInv, ChanTypeOK
  PROVE  /\ filled \in 0 .. Capacity
         /\ \A t \in Claimers("send", Early) : filled < Capacity
         /\ \A t \in Claimers("recv", Early) : filled > 0
<1>1. count[space] \in Nat /\ count[messages] \in Nat
  BY ChannelAssumption DEF SyncInv, SyncTypeOK, SemNoIdleUnit
<1>2. \A kind, steps : Claims(kind, steps) \in Nat
  BY ClaimersFinite
<1>3. \A kind, steps : \A t \in Claimers(kind, steps) : Claims(kind, steps) > 0
  <2> SUFFICES ASSUME NEW kind, NEW steps, NEW t \in Claimers(kind, steps)
               PROVE  Claims(kind, steps) > 0
    OBVIOUS
  <2>1. Cardinality(Claimers(kind, steps)) # 0
    BY ClaimersFinite, FS_EmptySet
  <2> QED
    BY <2>1, ClaimersFinite
<1>4. /\ filled = count[messages] + Claims("recv", Early) + Claims("send", Late)
      /\ Capacity - filled = count[space] + Claims("recv", Late) + Claims("send", Early)
  BY DEF SlotsAccounted, Early, Late
<1>5. filled \in Int /\ Capacity \in Nat
  BY ChannelAssumption DEF ChanTypeOK
<1>6. filled \in 0 .. Capacity
  BY <1>1, <1>2, <1>4, <1>5
<1>7. \A t \in Claimers("send", Early) : filled < Capacity
  BY <1>1, <1>2, <1>3, <1>4, <1>5
<1>8. \A t \in Claimers("recv", Early) : filled > 0
  BY <1>1, <1>2, <1>3, <1>4, <1>5
<1> QED
  BY <1>6, <1>7, <1>8

\* How the claims change, from how the set of the claimers does.
LEMMA ClaimsStay ==
  ASSUME NEW kind, NEW steps, Claimers(kind, steps)' = Claimers(kind, steps)
  PROVE  Claims(kind, steps)' = Claims(kind, steps)
BY DEF Claims, Claimers

LEMMA ClaimsJoin ==
  ASSUME NEW kind, NEW steps, NEW x, x \notin Claimers(kind, steps),
         Claimers(kind, steps)' = Claimers(kind, steps) \cup {x}
  PROVE  Claims(kind, steps)' = Claims(kind, steps) + 1
<1>1. Claims(kind, steps)' = Cardinality(Claimers(kind, steps)')
  BY DEF Claims, Claimers
<1> QED
  BY <1>1, ClaimersFinite, CountIn

LEMMA ClaimsLeave ==
  ASSUME NEW kind, NEW steps, NEW x, x \in Claimers(kind, steps),
         Claimers(kind, steps)' = Claimers(kind, steps) \ {x}
  PROVE  Claims(kind, steps)' = Claims(kind, steps) - 1
<1>1. Claims(kind, steps)' = Cardinality(Claimers(kind, steps)')
  BY DEF Claims, Claimers
<1> QED
  BY <1>1, ClaimersFinite, CountOut

\* The two equations of SlotsAccounted, now and after a step.
LEMMA Accounts ==
  /\ SlotsAccounted <=>
       /\ filled = count[messages] + Claims("recv", Early) + Claims("send", Late)
       /\ Capacity - filled = count[space] + Claims("recv", Late) + Claims("send", Early)
  /\ SlotsAccounted' <=>
       /\ filled' = count'[messages] + Claims("recv", Early)' + Claims("send", Late)'
       /\ Capacity - filled' = count'[space] + Claims("recv", Late)' + Claims("send", Early)'
BY DEF SlotsAccounted, Early, Late

\* Numbers are numbers.
LEMMA ChanNumbers ==
  ASSUME SyncInv, ChanTypeOK
  PROVE  /\ count \in [Sems -> Int] /\ count[space] \in Nat /\ count[messages] \in Nat
         /\ space \in Sems /\ messages \in Sems /\ mutex \in Mutexes
         /\ space # messages /\ mutex # space /\ mutex # messages
         /\ \A kind, steps : Claims(kind, steps) \in Nat
         /\ filled \in Int /\ Capacity \in Nat \ {0}
<1>1. count \in [Sems -> Int]
  BY DEF SyncInv, SyncTypeOK
<1>2. space \in Sems /\ messages \in Sems /\ mutex \in Mutexes /\ space # messages
      /\ Capacity \in Nat \ {0}
  BY ChannelAssumption
<1>3. mutex # space /\ mutex # messages
  BY <1>2, SyncAssumption
<1>4. count[space] \in Nat /\ count[messages] \in Nat
  BY <1>1, <1>2 DEF SyncInv, SemNoIdleUnit
<1> QED
  BY <1>1, <1>2, <1>3, <1>4, ClaimersFinite DEF ChanTypeOK

-----------------------------------------------------------------------------
(* What the calls of Sync do to the lists and the counts. *)

LEMMA SemWaitOutcome ==
  ASSUME SyncInv, NEW s \in Sems, SemWait(s)
  PROVE  /\ called' = called
         /\ \/ /\ count[s] > 0
               /\ count' = [count EXCEPT ![s] = count[s] - 1]
               /\ \A t \in Thread, y \in Object : Waits(t, y)' <=> Waits(t, y)
            \/ /\ count' = count
               /\ \A t \in Thread, y \in Object :
                    Waits(t, y)' <=> Waits(t, y) \/ (t = cur /\ y = s)
<1>1. UserMode /\ called' = called /\ s \in Object
  BY DEF SemWait, mutexVars, Object
<1>2. CASE count[s] > 0
  BY <1>1, <1>2 DEF SemWait, Waits, SyncInv, SyncTypeOK
<1>3. CASE ~(count[s] > 0)
  <2>1. BlockOn(s) /\ count' = count
    BY <1>3 DEF SemWait
  <2> QED
    BY <1>1, <2>1, BlockOnOutcome
<1> QED
  BY <1>2, <1>3

LEMMA SemPostOutcome ==
  ASSUME SyncInv, NEW s \in Sems, SemPost(s)
  PROVE  /\ called' = called
         /\ \/ /\ count' = [count EXCEPT ![s] = count[s] + 1]
               /\ \A t \in Thread, y \in Object : Waits(t, y)' <=> Waits(t, y)
            \/ /\ count' = count
               /\ \E h \in Thread :
                    /\ Waits(h, s)
                    /\ \A t \in Thread, y \in Object :
                         Waits(t, y)' <=> Waits(t, y) /\ ~(t = h /\ y = s)
<1>1. UserMode /\ called' = called /\ s \in Object /\ PassUnit(s)
  BY DEF SemPost, mutexVars, Object
<1>2. CASE waiters[s] # <<>>
  <2>1. WakeFirst(s) /\ count' = count
    BY <1>1, <1>2 DEF PassUnit
  <2>2. /\ Head(waiters[s]) \in Thread /\ Waits(Head(waiters[s]), s)
        /\ \A t \in Thread, y \in Object :
             Waits(t, y)' <=> Waits(t, y) /\ ~(t = Head(waiters[s]) /\ y = s)
    BY <1>1, <1>2, <2>1, WakeFirstOutcome
  <2> QED
    BY <1>1, <2>1, <2>2
<1>3. CASE waiters[s] = <<>>
  BY <1>1, <1>3 DEF PassUnit, Waits
<1> QED
  BY <1>2, <1>3

\* Locking and unlocking a mutex is nothing to those who wait for a unit.
LEMMA LockOutcome ==
  ASSUME SyncInv, NEW m \in Mutexes, MutexLock(m)
  PROVE  /\ count' = count
         /\ \A t \in Thread : m \in called'[t] <=> m \in called[t] \/ t = cur
         /\ \A t \in Thread, y \in Object : Waits(t, y) => Waits(t, y)'
         /\ \A t \in Thread, y \in Object :
              Waits(t, y)' /\ ~Waits(t, y) => t = cur /\ y = m
<1>1. UserMode /\ m \in Object /\ count' = count
  BY DEF MutexLock, semVars, Object
<1>2. called' = [called EXCEPT ![cur] = called[cur] \cup {m}]
  BY DEF MutexLock
<1>3. called \in [Thread -> SUBSET Mutexes]
  BY DEF SyncInv, SyncTypeOK
<1>4. CASE waiters' = waiters
  BY <1>1, <1>2, <1>3, <1>4 DEF Waits
<1>5. CASE BlockOn(m)
  <2>1. \A t \in Thread, y \in Object : Waits(t, y)' <=> Waits(t, y) \/ (t = cur /\ y = m)
    BY <1>1, <1>5, BlockOnOutcome
  <2> QED
    BY <1>1, <1>2, <1>3, <2>1
<1> QED
  BY <1>4, <1>5 DEF MutexLock

LEMMA UnlockOutcome ==
  ASSUME SyncInv, NEW m \in Mutexes, MutexUnlock(m)
  PROVE  /\ count' = count
         /\ \A t \in Thread : m \in called'[t] <=> m \in called[t] /\ t # cur
         /\ \A t \in Thread, y \in Object : Waits(t, y)' => Waits(t, y)
         /\ \A t \in Thread, y \in Object : Waits(t, y) /\ ~Waits(t, y)' => y = m
<1>1. UserMode /\ m \in Object /\ count' = count /\ HandOff(m)
  BY DEF MutexUnlock, semVars, Object
<1>2. called' = [called EXCEPT ![cur] = called[cur] \ {m}]
  BY DEF MutexUnlock
<1>3. called \in [Thread -> SUBSET Mutexes]
  BY DEF SyncInv, SyncTypeOK
<1>4. CASE waiters[m] = <<>>
  BY <1>1, <1>2, <1>3, <1>4 DEF HandOff, Waits
<1>5. CASE waiters[m] # <<>>
  <2>1. \A t \in Thread, y \in Object :
          Waits(t, y)' <=> Waits(t, y) /\ ~(t = Head(waiters[m]) /\ y = m)
    BY <1>1, <1>5, WakeFirstOutcome DEF HandOff
  <2> QED
    BY <1>1, <1>2, <1>3, <2>1
<1> QED
  BY <1>4, <1>5

-----------------------------------------------------------------------------
(* The steps of a call. *)

LEMMA SendBeginKeeps ==
  ASSUME ChanInv, SendBegin
  PROVE  ChanInv'
<1>1. /\ UserMode /\ op[cur] = "none" /\ SemWait(space)
      /\ op' = [op EXCEPT ![cur] = "send"]
      /\ at' = [at EXCEPT ![cur] = "lock"]
      /\ UNCHANGED <<buffer, head, tail, filled, taken>>
  BY DEF SendBegin, GoOn, ringVars
<1>2. PICK m \in Message : msg' = [msg EXCEPT ![cur] = m]
  BY DEF SendBegin
<1>3. SyncInv' /\ SyncInv /\ ChanTypeOK
  BY <1>1, SemWaitKeepsInv, ChannelAssumption DEF ChanInv
<1>4. cur \in Thread /\ \A y \in Object : ~Waits(cur, y)
  BY <1>1, <1>3, SyncCaller
<1>5. /\ count \in [Sems -> Int] /\ space \in Object /\ messages \in Object /\ mutex \in Object
      /\ space # messages /\ mutex # space /\ mutex # messages
      /\ space \in Sems /\ messages \in Sems
  BY <1>3, ChanNumbers DEF Object
<1>6. /\ called' = called
      /\ \/ /\ count[space] > 0
            /\ count' = [count EXCEPT ![space] = count[space] - 1]
            /\ \A t \in Thread, y \in Object : Waits(t, y)' <=> Waits(t, y)
         \/ /\ count' = count
            /\ \A t \in Thread, y \in Object :
                 Waits(t, y)' <=> Waits(t, y) \/ (t = cur /\ y = space)
  BY <1>1, <1>3, <1>5, SemWaitOutcome
<1>7. ChanTypeOK'
  BY <1>1, <1>2, <1>3, <1>4 DEF ChanTypeOK, Sent
<1>8. CallsSound'
  <2> SUFFICES ASSUME NEW t \in Thread
               PROVE  /\ (op[t] = "none" <=> at[t] = "begin")'
                      /\ (Waits(t, space) => op[t] = "send" /\ at[t] = "lock")'
                      /\ (Waits(t, messages) => op[t] = "recv" /\ at[t] = "lock")'
                      /\ (Waits(t, mutex) => at[t] = "access")'
                      /\ (mutex \in called[t] <=> at[t] \in {"access", "advance", "unlock"})'
                      /\ (op[t] = "send" /\ at[t] \in {"lock", "access", "advance"} => msg[t] \in Message)'
    BY DEF CallsSound
  <2>1. CASE t = cur
    BY <1>1, <1>2, <1>3, <1>4, <1>5, <1>6, <2>1 DEF ChanInv, CallsSound, ChanTypeOK
  <2>2. CASE t # cur
    <3>1. op'[t] = op[t] /\ at'[t] = at[t] /\ msg'[t] = msg[t] /\ called'[t] = called[t]
      BY <1>1, <1>2, <1>3, <1>6, <2>2 DEF ChanTypeOK
    <3>2. \A y \in Object : Waits(t, y)' <=> Waits(t, y)
      BY <1>6, <2>2
    <3> QED
      BY <1>5, <3>1, <3>2 DEF ChanInv, CallsSound
  <2> QED
    BY <2>1, <2>2
<1>9. RingSound'
  BY <1>1, <1>2, <1>3, <1>4 DEF ChanInv, RingSound, ChanTypeOK
<1>10. SlotsAccounted'
  <2>1. \A kind, steps : cur \notin Claimers(kind, steps) \/ kind = "none"
    BY <1>1 DEF Claimers
  <2>2. /\ Claimers("send", Late)' = Claimers("send", Late)
        /\ Claimers("recv", Late)' = Claimers("recv", Late)
        /\ Claimers("recv", Early)' = Claimers("recv", Early)
    BY <1>1, <1>3, <1>4, <1>5, <1>6 DEF Claimers, Late, Early, ChanTypeOK
  <2>3. CASE count' = [count EXCEPT ![space] = count[space] - 1]
              /\ \A t \in Thread, y \in Object : Waits(t, y)' <=> Waits(t, y)
    <3>1. Claimers("send", Early)' = Claimers("send", Early) \cup {cur}
      BY <1>1, <1>3, <1>4, <1>5, <2>3 DEF Claimers, Early, ChanTypeOK
    <3>2. Claims("send", Early)' = Claims("send", Early) + 1
      BY <2>1, <3>1, ClaimsJoin
    <3>3. count'[space] = count[space] - 1 /\ count'[messages] = count[messages]
      BY <1>5, <2>3
    <3> QED
      BY <1>1, <1>3, <2>2, <3>2, <3>3, ClaimsStay, ChanNumbers, Accounts DEF ChanInv
  <2>4. CASE count' = count /\ \A t \in Thread, y \in Object :
                 Waits(t, y)' <=> Waits(t, y) \/ (t = cur /\ y = space)
    <3>1. Claimers("send", Early)' = Claimers("send", Early)
      BY <1>1, <1>3, <1>4, <1>5, <2>4 DEF Claimers, Early, ChanTypeOK
    <3> QED
      BY <1>1, <1>3, <2>2, <2>4, <3>1, ClaimsStay, ChanNumbers, Accounts DEF ChanInv
  <2> QED
    BY <1>6, <2>3, <2>4
<1> QED
  BY <1>3, <1>7, <1>8, <1>9, <1>10 DEF ChanInv

LEMMA RecvBeginKeeps ==
  ASSUME ChanInv, RecvBegin
  PROVE  ChanInv'
<1>1. /\ UserMode /\ op[cur] = "none" /\ SemWait(messages)
      /\ op' = [op EXCEPT ![cur] = "recv"]
      /\ at' = [at EXCEPT ![cur] = "lock"]
      /\ UNCHANGED <<buffer, head, tail, filled, taken>>
  BY DEF RecvBegin, GoOn, ringVars
<1>2. msg' = msg
  BY DEF RecvBegin
<1>3. SyncInv' /\ SyncInv /\ ChanTypeOK
  BY <1>1, SemWaitKeepsInv, ChannelAssumption DEF ChanInv
<1>4. cur \in Thread /\ \A y \in Object : ~Waits(cur, y)
  BY <1>1, <1>3, SyncCaller
<1>5. /\ count \in [Sems -> Int] /\ messages \in Object /\ space \in Object /\ mutex \in Object
      /\ messages # space /\ mutex # messages /\ mutex # space
      /\ space \in Sems /\ messages \in Sems
  BY <1>3, ChanNumbers DEF Object
<1>6. /\ called' = called
      /\ \/ /\ count[messages] > 0
            /\ count' = [count EXCEPT ![messages] = count[messages] - 1]
            /\ \A t \in Thread, y \in Object : Waits(t, y)' <=> Waits(t, y)
         \/ /\ count' = count
            /\ \A t \in Thread, y \in Object :
                 Waits(t, y)' <=> Waits(t, y) \/ (t = cur /\ y = messages)
  BY <1>1, <1>3, <1>5, SemWaitOutcome
<1>7. ChanTypeOK'
  BY <1>1, <1>2, <1>3, <1>4 DEF ChanTypeOK
<1>8. CallsSound'
  <2> SUFFICES ASSUME NEW t \in Thread
               PROVE  /\ (op[t] = "none" <=> at[t] = "begin")'
                      /\ (Waits(t, space) => op[t] = "send" /\ at[t] = "lock")'
                      /\ (Waits(t, messages) => op[t] = "recv" /\ at[t] = "lock")'
                      /\ (Waits(t, mutex) => at[t] = "access")'
                      /\ (mutex \in called[t] <=> at[t] \in {"access", "advance", "unlock"})'
                      /\ (op[t] = "send" /\ at[t] \in {"lock", "access", "advance"} => msg[t] \in Message)'
    BY DEF CallsSound
  <2>1. CASE t = cur
    BY <1>1, <1>2, <1>3, <1>4, <1>5, <1>6, <2>1 DEF ChanInv, CallsSound, ChanTypeOK
  <2>2. CASE t # cur
    <3>1. op'[t] = op[t] /\ at'[t] = at[t] /\ msg'[t] = msg[t] /\ called'[t] = called[t]
      BY <1>1, <1>2, <1>3, <1>6, <2>2 DEF ChanTypeOK
    <3>2. \A y \in Object : Waits(t, y)' <=> Waits(t, y)
      BY <1>6, <2>2
    <3> QED
      BY <1>5, <3>1, <3>2 DEF ChanInv, CallsSound
  <2> QED
    BY <2>1, <2>2
<1>9. RingSound'
  BY <1>1, <1>2, <1>3, <1>4 DEF ChanInv, RingSound, ChanTypeOK
<1>10. SlotsAccounted'
  <2>1. \A kind, steps : cur \notin Claimers(kind, steps) \/ kind = "none"
    BY <1>1 DEF Claimers
  <2>2. /\ Claimers("send", Late)' = Claimers("send", Late)
        /\ Claimers("recv", Late)' = Claimers("recv", Late)
        /\ Claimers("send", Early)' = Claimers("send", Early)
    BY <1>1, <1>3, <1>4, <1>5, <1>6 DEF Claimers, Late, Early, ChanTypeOK
  <2>3. CASE count' = [count EXCEPT ![messages] = count[messages] - 1]
              /\ \A t \in Thread, y \in Object : Waits(t, y)' <=> Waits(t, y)
    <3>1. Claimers("recv", Early)' = Claimers("recv", Early) \cup {cur}
      BY <1>1, <1>3, <1>4, <1>5, <2>3 DEF Claimers, Early, ChanTypeOK
    <3>2. Claims("recv", Early)' = Claims("recv", Early) + 1
      BY <2>1, <3>1, ClaimsJoin
    <3>3. count'[messages] = count[messages] - 1 /\ count'[space] = count[space]
      BY <1>5, <2>3
    <3> QED
      BY <1>1, <1>3, <2>2, <3>2, <3>3, ClaimsStay, ChanNumbers, Accounts DEF ChanInv
  <2>4. CASE count' = count /\ \A t \in Thread, y \in Object :
                 Waits(t, y)' <=> Waits(t, y) \/ (t = cur /\ y = messages)
    <3>1. Claimers("recv", Early)' = Claimers("recv", Early)
      BY <1>1, <1>3, <1>4, <1>5, <2>4 DEF Claimers, Early, ChanTypeOK
    <3> QED
      BY <1>1, <1>3, <2>2, <2>4, <3>1, ClaimsStay, ChanNumbers, Accounts DEF ChanInv
  <2> QED
    BY <1>6, <2>3, <2>4
<1> QED
  BY <1>3, <1>7, <1>8, <1>9, <1>10 DEF ChanInv

\* What a thread in the middle of a call may rely on.
LEMMA InsideCall ==
  ASSUME ChanInv, NEW step, InCall(step)
  PROVE  /\ UserMode /\ cur \in Thread /\ at[cur] = step
         /\ op[cur] = "send" \/ op[cur] = "recv"
         /\ \A y \in Object : ~Waits(cur, y)
         /\ space \in Object /\ messages \in Object /\ mutex \in Object
<1>1. UserMode /\ op[cur] # "none" /\ at[cur] = step /\ SyncInv /\ ChanTypeOK
  BY DEF InCall, ChanInv
<1>2. cur \in Thread /\ \A y \in Object : ~Waits(cur, y)
  BY <1>1, SyncCaller
<1> QED
  BY <1>1, <1>2, ChanNumbers DEF ChanTypeOK, Object

\* The mutex keeps the others out of the ring.
LEMMA AloneInside ==
  ASSUME ChanInv, NEW t \in Thread, at[t] \in {"access", "advance", "unlock"},
         ~Waits(t, mutex), NEW u \in Thread, u # t
  PROVE  at[u] # "advance" /\ at[u] # "unlock"
<1>1. mutex \in Mutexes /\ SyncInv /\ CallsSound
  BY ChannelAssumption DEF ChanInv
<1>2. \A x \in Thread : InCS(x, mutex) <=> mutex \in called[x] /\ ~Waits(x, mutex)
  BY <1>1, InsideMeans DEF SyncInv
<1>3. InCS(t, mutex) /\ ~InCS(u, mutex)
  BY <1>1, <1>2 DEF CallsSound, SyncInv, MutualExclusion
<1> QED
  BY <1>1, <1>2, <1>3 DEF CallsSound

LEMMA ChannelLockKeeps ==
  ASSUME ChanInv, ChannelLock
  PROVE  ChanInv'
<1>1. /\ InCall("lock") /\ MutexLock(mutex)
      /\ at' = [at EXCEPT ![cur] = "access"]
      /\ UNCHANGED <<op, msg, buffer, head, tail, filled, taken>>
  BY DEF ChannelLock, GoOn, ringVars
<1>2. /\ cur \in Thread /\ at[cur] = "lock"
      /\ op[cur] = "send" \/ op[cur] = "recv"
      /\ \A y \in Object : ~Waits(cur, y)
      /\ space \in Object /\ messages \in Object /\ mutex \in Object
  BY <1>1, InsideCall
<1>3. SyncInv' /\ SyncInv /\ ChanTypeOK /\ mutex \in Mutexes
  BY <1>1, MutexLockKeepsInv, ChannelAssumption DEF ChanInv
<1>4. mutex # space /\ mutex # messages
  BY <1>3, ChanNumbers
<1>5. /\ count' = count
      /\ \A t \in Thread : mutex \in called'[t] <=> mutex \in called[t] \/ t = cur
      /\ \A t \in Thread, y \in Object : Waits(t, y) => Waits(t, y)'
      /\ \A t \in Thread, y \in Object :
           Waits(t, y)' /\ ~Waits(t, y) => t = cur /\ y = mutex
  BY <1>1, <1>3, LockOutcome
<1>6. ChanTypeOK'
  BY <1>1, <1>3 DEF ChanTypeOK
<1>7. CallsSound'
  <2>1. \A t \in Thread : t # cur => at'[t] = at[t]
    BY <1>1, <1>3 DEF ChanTypeOK
  <2>2. at'[cur] = "access"
    BY <1>1, <1>2, <1>3 DEF ChanTypeOK
  <2> QED
    BY <1>1, <1>2, <1>4, <1>5, <2>1, <2>2 DEF ChanInv, CallsSound
<1>8. RingSound'
  BY <1>1, <1>2, <1>3 DEF ChanInv, RingSound, ChanTypeOK
<1>9. SlotsAccounted'
  <2>1. \A kind \in {"send", "recv"} :
          /\ Claimers(kind, Early)' = Claimers(kind, Early)
          /\ Claimers(kind, Late)' = Claimers(kind, Late)
    BY <1>1, <1>2, <1>3, <1>4, <1>5 DEF Claimers, Early, Late, ChanTypeOK
  <2> QED
    BY <1>1, <1>5, <2>1, ClaimsStay, Accounts DEF ChanInv
<1> QED
  BY <1>3, <1>6, <1>7, <1>8, <1>9 DEF ChanInv

LEMMA ChannelUnlockKeeps ==
  ASSUME ChanInv, ChannelUnlock
  PROVE  ChanInv'
<1>1. /\ InCall("unlock") /\ MutexUnlock(mutex)
      /\ at' = [at EXCEPT ![cur] = "post"]
      /\ UNCHANGED <<op, msg, buffer, head, tail, filled, taken>>
  BY DEF ChannelUnlock, GoOn, ringVars
<1>2. /\ cur \in Thread /\ at[cur] = "unlock"
      /\ op[cur] = "send" \/ op[cur] = "recv"
      /\ \A y \in Object : ~Waits(cur, y)
      /\ space \in Object /\ messages \in Object /\ mutex \in Object
  BY <1>1, InsideCall
<1>3. SyncInv' /\ SyncInv /\ ChanTypeOK /\ mutex \in Mutexes
  BY <1>1, MutexUnlockKeepsInv, ChannelAssumption DEF ChanInv
<1>4. mutex # space /\ mutex # messages
  BY <1>3, ChanNumbers
<1>5. /\ count' = count
      /\ \A t \in Thread : mutex \in called'[t] <=> mutex \in called[t] /\ t # cur
      /\ \A t \in Thread, y \in Object : Waits(t, y)' => Waits(t, y)
      /\ \A t \in Thread, y \in Object : Waits(t, y) /\ ~Waits(t, y)' => y = mutex
  BY <1>1, <1>3, UnlockOutcome
<1>6. ChanTypeOK'
  BY <1>1, <1>3 DEF ChanTypeOK
<1>7. CallsSound'
  <2>1. \A t \in Thread : t # cur => at'[t] = at[t]
    BY <1>1, <1>3 DEF ChanTypeOK
  <2>2. at'[cur] = "post"
    BY <1>1, <1>2, <1>3 DEF ChanTypeOK
  <2> QED
    BY <1>1, <1>2, <1>4, <1>5, <2>1, <2>2 DEF ChanInv, CallsSound
<1>8. RingSound'
  BY <1>1, <1>2, <1>3 DEF ChanInv, RingSound, ChanTypeOK
<1>9. SlotsAccounted'
  <2>1. \A kind \in {"send", "recv"} :
          /\ Claimers(kind, Early)' = Claimers(kind, Early)
          /\ Claimers(kind, Late)' = Claimers(kind, Late)
    BY <1>1, <1>2, <1>3, <1>4, <1>5 DEF Claimers, Early, Late, ChanTypeOK
  <2> QED
    BY <1>1, <1>5, <2>1, ClaimsStay, Accounts DEF ChanInv
<1> QED
  BY <1>3, <1>6, <1>7, <1>8, <1>9 DEF ChanInv

LEMMA AccessKeeps ==
  ASSUME ChanInv, Access
  PROVE  ChanInv' /\ UNCHANGED <<Contents, taken>>
<1>1. /\ InCall("access")
      /\ at' = [at EXCEPT ![cur] = "advance"]
      /\ UNCHANGED <<allVars, op, head, tail, filled, taken>>
      /\ \/ /\ op[cur] = "send"
            /\ buffer' = [buffer EXCEPT ![tail] = msg[cur]]
            /\ msg' = msg
         \/ /\ op[cur] = "recv"
            /\ msg' = [msg EXCEPT ![cur] = buffer[head]]
            /\ buffer' = buffer
  BY DEF Access, GoOn
<1>2. /\ cur \in Thread /\ at[cur] = "access"
      /\ op[cur] = "send" \/ op[cur] = "recv"
      /\ \A y \in Object : ~Waits(cur, y)
      /\ space \in Object /\ messages \in Object /\ mutex \in Object
  BY <1>1, InsideCall
<1>3. SyncInv' /\ SyncInv /\ ChanTypeOK
  BY <1>1, SyncNextKeepsInv DEF ChanInv
<1>4. count' = count /\ called' = called /\ \A t, y : Waits(t, y)' <=> Waits(t, y)
  BY <1>1 DEF allVars, syncVars, mutexVars, semVars, Waits
<1>5. \A t \in Thread : t # cur => at[t] # "advance" /\ at'[t] = at[t]
  BY <1>1, <1>2, <1>3, AloneInside DEF ChanTypeOK
<1>6. at'[cur] = "advance"
  BY <1>1, <1>2, <1>3 DEF ChanTypeOK
<1>7. ChanTypeOK'
  BY <1>1, <1>2, <1>3 DEF ChanTypeOK
<1>8. CallsSound'
  <2>1. \A t \in Thread : op[t] = "send" => msg'[t] = msg[t]
    BY <1>1, <1>3 DEF ChanTypeOK
  <2>2. /\ op' = op /\ called' = called
        /\ \A t \in Thread : t # cur => at'[t] = at[t]
    BY <1>1, <1>4, <1>5
  <2> QED
    BY <1>2, <1>4, <1>6, <2>1, <2>2 DEF ChanInv, CallsSound
<1>9. RingSound'
  BY <1>1, <1>2, <1>3, <1>5 DEF ChanInv, RingSound, ChanTypeOK
<1>10. SlotsAccounted'
  <2>1. \A kind \in {"send", "recv"} :
          /\ Claimers(kind, Early)' = Claimers(kind, Early)
          /\ Claimers(kind, Late)' = Claimers(kind, Late)
    BY <1>1, <1>2, <1>3, <1>4 DEF Claimers, Early, Late, ChanTypeOK
  <2> QED
    BY <1>1, <1>4, <2>1, ClaimsStay, Accounts DEF ChanInv
<1>11. UNCHANGED Contents
  <2>1. CASE buffer' = buffer
    BY <1>1, <2>1 DEF Contents
  <2>2. CASE op[cur] = "send" /\ buffer' = [buffer EXCEPT ![tail] = msg[cur]]
    <3>1. cur \in Claimers("send", Early)
      BY <1>2, <2>2 DEF Claimers, Early
    <3>2. filled \in 0 .. Capacity /\ filled < Capacity
      BY <1>3, <3>1, ClaimBounds DEF ChanInv
    <3>3. ASSUME NEW i \in 1 .. filled
          PROVE  buffer'[(head + i - 1) % Capacity] = buffer[(head + i - 1) % Capacity]
      <4>1. head \in Position /\ i - 1 \in 0 .. Capacity /\ head + i - 1 = head + (i - 1)
        BY <1>3, <3>2, ChannelAssumption DEF ChanTypeOK, Position
      <4>2. /\ (head + (i - 1)) % Capacity \in Position
            /\ (head + (i - 1)) % Capacity # (head + filled) % Capacity
        <5>1. /\ i - 1 \in Nat /\ i - 1 < filled /\ filled \in Nat
              /\ head \in Nat /\ head < Capacity /\ Capacity \in Nat
          BY <3>2, <4>1, ChannelAssumption DEF Position
        <5>2. (head + filled) % Capacity =
                IF head + filled < Capacity THEN head + filled ELSE head + filled - Capacity
          BY <3>2, <4>1, ModSplit
        <5>3. /\ (head + (i - 1)) % Capacity \in Position
              /\ (head + (i - 1)) % Capacity =
                   IF head + (i - 1) < Capacity THEN head + (i - 1)
                   ELSE head + (i - 1) - Capacity
          BY <4>1, ModSplit
        <5> QED
          BY <3>2, <5>1, <5>2, <5>3
      <4> QED
        BY <1>3, <2>2, <4>1, <4>2 DEF ChanInv, RingSound, ChanTypeOK
    <3> QED
      BY <1>1, <3>3 DEF Contents
  <2> QED
    BY <1>1, <2>1, <2>2
<1> QED
  BY <1>1, <1>3, <1>7, <1>8, <1>9, <1>10, <1>11 DEF ChanInv

\* Posting a unit: the claim of the caller passes to the count or to a waiter.
LEMMA PostKeeps ==
  ASSUME ChanInv, Post
  PROVE  ChanInv'
<1> DEFINE sem == IF op[cur] = "send" THEN messages ELSE space
<1>1. /\ InCall("post") /\ SemPost(sem)
      /\ op' = [op EXCEPT ![cur] = "none"]
      /\ msg' = [msg EXCEPT ![cur] = NoMessage]
      /\ at' = [at EXCEPT ![cur] = "begin"]
      /\ UNCHANGED <<buffer, head, tail, filled, taken>>
  BY DEF Post, GoOn, ringVars
<1>2. /\ cur \in Thread /\ at[cur] = "post"
      /\ op[cur] = "send" \/ op[cur] = "recv"
      /\ \A y \in Object : ~Waits(cur, y)
      /\ space \in Object /\ messages \in Object /\ mutex \in Object
  BY <1>1, InsideCall
<1>3. SyncInv /\ ChanTypeOK /\ sem \in Sems /\ space \in Sems /\ messages \in Sems
      /\ space # messages /\ count \in [Sems -> Int]
      /\ mutex # space /\ mutex # messages
  BY ChanNumbers DEF ChanInv
<1>4. SyncInv'
  BY <1>1, <1>3, SemPostKeepsInv
<1>5. /\ called' = called
      /\ \/ /\ count' = [count EXCEPT ![sem] = count[sem] + 1]
            /\ \A t \in Thread, y \in Object : Waits(t, y)' <=> Waits(t, y)
         \/ /\ count' = count
            /\ \E h \in Thread :
                 /\ Waits(h, sem)
                 /\ \A t \in Thread, y \in Object :
                      Waits(t, y)' <=> Waits(t, y) /\ ~(t = h /\ y = sem)
  BY <1>1, <1>3, SemPostOutcome
<1>6. ChanTypeOK'
  BY <1>1, <1>2, <1>3 DEF ChanTypeOK, Sent
<1>7. \A t \in Thread :
        /\ t # cur => op'[t] = op[t] /\ at'[t] = at[t] /\ msg'[t] = msg[t]
        /\ t = cur => op'[t] = "none" /\ at'[t] = "begin"
  BY <1>1, <1>2, <1>3 DEF ChanTypeOK
<1>8. CallsSound'
  <2>1. \A t \in Thread, y \in Object : Waits(t, y)' => Waits(t, y)
    BY <1>5
  <2> QED
    BY <1>2, <1>5, <1>7, <2>1 DEF ChanInv, CallsSound
<1>9. RingSound'
  BY <1>1, <1>7 DEF ChanInv, RingSound
<1>10. SlotsAccounted'
  <2> HIDE DEF sem
  <2>1. CASE op[cur] = "send"
    <3>1. sem = messages
      BY <2>1 DEF sem
    <3>2. Claims("send", Late)' = Claims("send", Late) - 1
      <4>1. cur \in Claimers("send", Late)
        BY <1>2, <2>1 DEF Claimers, Late
      <4>2. Claimers("send", Late)' = Claimers("send", Late) \ {cur}
        BY <1>2, <1>5, <1>7, <3>1 DEF Claimers, Late, ChanInv, CallsSound
      <4> QED
        BY <4>1, <4>2, ClaimsLeave
    <3>3. /\ Claims("recv", Late)' = Claims("recv", Late)
          /\ Claims("send", Early)' = Claims("send", Early)
      <4>1. Claimers("recv", Late)' = Claimers("recv", Late)
        BY <1>2, <1>5, <1>7, <2>1, <3>1 DEF Claimers, Late, ChanInv, CallsSound
      <4>2. Claimers("send", Early)' = Claimers("send", Early)
        BY <1>2, <1>5, <1>7, <3>1 DEF Claimers, Early, ChanInv, CallsSound
      <4> QED
        BY <4>1, <4>2, ClaimsStay
    <3>4. /\ count'[space] = count[space]
          /\ count'[messages] \in Int /\ Claims("recv", Early)' \in Int
          /\ count'[messages] + Claims("recv", Early)'
               = count[messages] + Claims("recv", Early) + 1
      <4>1. CASE count' = [count EXCEPT ![sem] = count[sem] + 1]
                   /\ \A t \in Thread, y \in Object : Waits(t, y)' <=> Waits(t, y)
        <5>1. Claimers("recv", Early)' = Claimers("recv", Early)
          BY <1>2, <1>7, <2>1, <4>1 DEF Claimers, Early
        <5> QED
          BY <1>3, <3>1, <4>1, <5>1, ClaimsStay, ClaimersFinite
      <4>2. ASSUME count' = count, NEW h \in Thread, Waits(h, sem),
                   \A t \in Thread, y \in Object :
                     Waits(t, y)' <=> Waits(t, y) /\ ~(t = h /\ y = sem)
            PROVE  /\ count'[space] = count[space]
                   /\ count'[messages] \in Int /\ Claims("recv", Early)' \in Int
                   /\ count'[messages] + Claims("recv", Early)'
                        = count[messages] + Claims("recv", Early) + 1
        <5>1. op[h] = "recv" /\ at[h] = "lock" /\ ~Waits(h, space) /\ h # cur
          BY <1>2, <1>3, <3>1, <4>2 DEF ChanInv, CallsSound
        <5>2. h \notin Claimers("recv", Early)
          BY <3>1, <4>2 DEF Claimers
        <5>3. Claimers("recv", Early)' = Claimers("recv", Early) \cup {h}
          BY <1>2, <1>3, <1>7, <2>1, <3>1, <4>2, <5>1 DEF Claimers, Early
        <5> QED
          BY <1>3, <4>2, <5>2, <5>3, ClaimsJoin, ClaimersFinite
      <4> QED
        BY <1>5, <4>1, <4>2
    <3> QED
      BY <1>1, <1>3, <3>2, <3>3, <3>4, Accounts, ChanNumbers DEF ChanInv
  <2>2. CASE op[cur] = "recv"
    <3>1. sem = space
      BY <2>2 DEF sem
    <3>2. Claims("recv", Late)' = Claims("recv", Late) - 1
      <4>1. cur \in Claimers("recv", Late)
        BY <1>2, <2>2 DEF Claimers, Late
      <4>2. Claimers("recv", Late)' = Claimers("recv", Late) \ {cur}
        BY <1>2, <1>5, <1>7, <3>1 DEF Claimers, Late, ChanInv, CallsSound
      <4> QED
        BY <4>1, <4>2, ClaimsLeave
    <3>3. /\ Claims("send", Late)' = Claims("send", Late)
          /\ Claims("recv", Early)' = Claims("recv", Early)
      <4>1. Claimers("send", Late)' = Claimers("send", Late)
        BY <1>2, <1>5, <1>7, <2>2, <3>1 DEF Claimers, Late, ChanInv, CallsSound
      <4>2. Claimers("recv", Early)' = Claimers("recv", Early)
        BY <1>2, <1>5, <1>7, <3>1 DEF Claimers, Early, ChanInv, CallsSound
      <4> QED
        BY <4>1, <4>2, ClaimsStay
    <3>4. /\ count'[messages] = count[messages]
          /\ count'[space] \in Int /\ Claims("send", Early)' \in Int
          /\ count'[space] + Claims("send", Early)'
               = count[space] + Claims("send", Early) + 1
      <4>1. CASE count' = [count EXCEPT ![sem] = count[sem] + 1]
                   /\ \A t \in Thread, y \in Object : Waits(t, y)' <=> Waits(t, y)
        <5>1. Claimers("send", Early)' = Claimers("send", Early)
          BY <1>2, <1>7, <2>2, <4>1 DEF Claimers, Early
        <5> QED
          BY <1>3, <3>1, <4>1, <5>1, ClaimsStay, ClaimersFinite
      <4>2. ASSUME count' = count, NEW h \in Thread, Waits(h, sem),
                   \A t \in Thread, y \in Object :
                     Waits(t, y)' <=> Waits(t, y) /\ ~(t = h /\ y = sem)
            PROVE  /\ count'[messages] = count[messages]
                   /\ count'[space] \in Int /\ Claims("send", Early)' \in Int
                   /\ count'[space] + Claims("send", Early)'
                        = count[space] + Claims("send", Early) + 1
        <5>1. op[h] = "send" /\ at[h] = "lock" /\ ~Waits(h, messages) /\ h # cur
          BY <1>2, <1>3, <3>1, <4>2 DEF ChanInv, CallsSound
        <5>2. h \notin Claimers("send", Early)
          BY <3>1, <4>2 DEF Claimers
        <5>3. Claimers("send", Early)' = Claimers("send", Early) \cup {h}
          BY <1>2, <1>3, <1>7, <2>2, <3>1, <4>2, <5>1 DEF Claimers, Early
        <5> QED
          BY <1>3, <4>2, <5>2, <5>3, ClaimsJoin, ClaimersFinite
      <4> QED
        BY <1>5, <4>1, <4>2
    <3> QED
      BY <1>1, <1>3, <3>2, <3>3, <3>4, Accounts, ChanNumbers DEF ChanInv
  <2> QED
    BY <1>2, <2>1, <2>2
<1> QED
  BY <1>4, <1>6, <1>8, <1>9, <1>10 DEF ChanInv

-----------------------------------------------------------------------------
(* The messages in the ring. *)

LEMMA ContentsAre ==
  ASSUME ChanInv
  PROVE  /\ Contents \in Seq(Sent) /\ Len(Contents) = filled /\ filled \in 0 .. Capacity
         /\ \A i \in 1 .. filled : Contents[i] = buffer[(head + i - 1) % Capacity]
<1>1. ChanTypeOK /\ filled \in 0 .. Capacity /\ Capacity \in Nat \ {0}
  BY ClaimBounds, ChannelAssumption DEF ChanInv
<1>2. \A i \in 1 .. filled : buffer[(head + i - 1) % Capacity] \in Sent
  <2> TAKE i \in 1 .. filled
  <2>1. head \in Position /\ i - 1 \in 0 .. Capacity /\ head + i - 1 = head + (i - 1)
    BY <1>1 DEF ChanTypeOK, Position
  <2> QED
    BY <1>1, <2>1, ModSplit DEF ChanTypeOK
<1>3. Contents = [i \in 1 .. filled |-> buffer[(head + i - 1) % Capacity]]
  BY DEF Contents
<1>4. filled \in Nat
  BY <1>1
<1> HIDE DEF Contents
<1> QED
  BY <1>1, <1>2, <1>3, <1>4

\* A step of a sender to the next place is Accept.
LEMMA SenderAccepts ==
  ASSUME ChanInv, InCall("advance"), op[cur] = "send",
         filled' = filled + 1, UNCHANGED <<head, buffer, taken>>
  PROVE  Fifo!Next
<1>1. /\ cur \in Thread /\ at[cur] = "advance" /\ \A y \in Object : ~Waits(cur, y)
      /\ space \in Object /\ messages \in Object
  BY InsideCall
<1>2. filled \in 0 .. Capacity /\ filled < Capacity
  <2>1. cur \in Claimers("send", Early)
    BY <1>1 DEF Claimers, Early
  <2> QED
    BY <2>1, ClaimBounds DEF ChanInv
<1>3. msg[cur] \in Message /\ msg[cur] = buffer[(head + filled) % Capacity]
  BY <1>1 DEF ChanInv, CallsSound, RingSound
<1>4. /\ Contents \in Seq(Sent) /\ Len(Contents) = filled
      /\ \A i \in 1 .. filled : Contents[i] = buffer[(head + i - 1) % Capacity]
  BY ContentsAre
<1>5. Contents' = [i \in 1 .. filled + 1 |-> buffer[(head + i - 1) % Capacity]]
  BY DEF Contents
<1>6. Contents' = Append(Contents, msg[cur])
  <2>1. filled \in Nat /\ head \in Nat
    BY <1>2, ChannelAssumption DEF ChanInv, ChanTypeOK, Position
  <2>2. head + (filled + 1) - 1 = head + filled
    BY <2>1
  <2>3. /\ Append(Contents, msg[cur]) \in Seq(Sent)
        /\ Len(Append(Contents, msg[cur])) = filled + 1
        /\ \A i \in 1 .. filled + 1 :
             Append(Contents, msg[cur])[i] = IF i = filled + 1 THEN msg[cur] ELSE Contents[i]
    BY <1>3, <1>4, <2>1, AppendProperties DEF Sent
  <2>4. \A i \in 1 .. filled + 1 :
          buffer[(head + i - 1) % Capacity]
            = IF i = filled + 1 THEN msg[cur] ELSE Contents[i]
    <3> TAKE i \in 1 .. filled + 1
    <3>1. CASE i = filled + 1
      BY <1>3, <2>2, <3>1
    <3>2. CASE i # filled + 1
      <4>1. i \in 1 .. filled
        BY <2>1, <3>2
      <4> QED
        BY <1>4, <3>2, <4>1
    <3> QED
      BY <3>1, <3>2
  <2>5. DOMAIN Append(Contents, msg[cur]) = 1 .. filled + 1
    BY <2>3
  <2>6. Append(Contents, msg[cur]) =
          [i \in 1 .. filled + 1 |-> Append(Contents, msg[cur])[i]]
    BY <2>3, <2>5
  <2> QED
    BY <1>5, <2>3, <2>4, <2>6
<1>7. Fifo!Accept(msg[cur])
  BY <1>2, <1>4, <1>6 DEF Fifo!Accept
<1> QED
  BY <1>3, <1>7 DEF Fifo!Next

\* A step of a receiver to the next place is Deliver.
LEMMA ReceiverDelivers ==
  ASSUME ChanInv, InCall("advance"), op[cur] = "recv",
         filled' = filled - 1, head' = (head + 1) % Capacity,
         taken' = msg[cur], UNCHANGED buffer
  PROVE  Fifo!Next
<1>1. /\ cur \in Thread /\ at[cur] = "advance" /\ \A y \in Object : ~Waits(cur, y)
      /\ space \in Object /\ messages \in Object
  BY InsideCall
<1>2. filled \in 0 .. Capacity /\ filled > 0 /\ filled \in Nat
  <2>1. cur \in Claimers("recv", Early)
    BY <1>1 DEF Claimers, Early
  <2> QED
    BY <2>1, ClaimBounds, ChannelAssumption DEF ChanInv
<1>3. msg[cur] = buffer[head]
  BY <1>1 DEF ChanInv, RingSound
<1>4. /\ Contents \in Seq(Sent) /\ Len(Contents) = filled
      /\ \A i \in 1 .. filled : Contents[i] = buffer[(head + i - 1) % Capacity]
  BY ContentsAre
<1>5. head \in Position /\ head \in Nat /\ head < Capacity /\ Capacity \in Nat \ {0}
  BY ChannelAssumption DEF ChanInv, ChanTypeOK, Position
<1>6. Contents' = [i \in 1 .. filled - 1 |-> buffer[(head' + i - 1) % Capacity]]
  BY DEF Contents
<1>7. Contents # <<>> /\ Contents[1] = msg[cur]
  <2>1. 1 \in 1 .. filled /\ head + 1 - 1 = head + 0 /\ head + 0 = head
    BY <1>2, <1>5
  <2>2. (head + 0) % Capacity = head
    BY <1>5, <2>1, ModSplit
  <2> QED
    BY <1>2, <1>3, <1>4, <2>1, <2>2, EmptySeq
<1>8. \A i \in 1 .. filled - 1 : (head' + i - 1) % Capacity = (head + (i + 1) - 1) % Capacity
  <2> TAKE i \in 1 .. filled - 1
  <2>1. i \in Nat /\ i \in 0 .. Capacity /\ i - 1 \in 0 .. Capacity /\ 1 \in 0 .. Capacity
        /\ i < Capacity /\ i >= 1
    BY <1>2, <1>5
  <2>2. /\ head' \in Position
        /\ head' = IF head + 1 < Capacity THEN head + 1 ELSE head + 1 - Capacity
    BY <1>5, <2>1, ModSplit
  <2>3. (head + i) % Capacity = IF head + i < Capacity THEN head + i ELSE head + i - Capacity
    BY <1>5, <2>1, ModSplit
  <2>4. (head' + (i - 1)) % Capacity =
          IF head' + (i - 1) < Capacity THEN head' + (i - 1) ELSE head' + (i - 1) - Capacity
    BY <2>1, <2>2, ModSplit
  <2>5. (head' + (i - 1)) % Capacity = (head + i) % Capacity
    BY <1>5, <2>1, <2>2, <2>3, <2>4
  <2>6. head' + (i - 1) = head' + i - 1 /\ head + i = head + (i + 1) - 1
    BY <1>5, <2>1, <2>2
  <2> QED
    BY <2>5, <2>6
<1>9. Contents' = Tail(Contents)
  <2>1. /\ Tail(Contents) \in Seq(Sent) /\ Len(Tail(Contents)) = filled - 1
        /\ \A i \in 1 .. filled - 1 : Tail(Contents)[i] = Contents[i + 1]
    BY <1>4, <1>7, HeadTailProperties
  <2>2. \A i \in 1 .. filled - 1 : Contents[i + 1] = buffer[(head + (i + 1) - 1) % Capacity]
    <3> TAKE i \in 1 .. filled - 1
    <3>1. i + 1 \in 1 .. filled
      BY <1>2
    <3> QED
      BY <1>4, <3>1
  <2>3. Tail(Contents) = [i \in 1 .. filled - 1 |-> Tail(Contents)[i]]
    <3> DEFINE q == Tail(Contents)
    <3>1. q \in Seq(Sent) /\ Len(q) = filled - 1
      BY <2>1
    <3> HIDE DEF q
    <3>2. q = [i \in 1 .. filled - 1 |-> q[i]]
      BY <3>1
    <3> QED
      BY <3>2 DEF q
  <2> QED
    BY <1>6, <1>8, <2>1, <2>2, <2>3
<1>10. Head(Contents) = Contents[1]
  BY <1>4, <1>7
<1>11. Fifo!Deliver
  BY <1>7, <1>9, <1>10 DEF Fifo!Deliver
<1> QED
  BY <1>11 DEF Fifo!Next

-----------------------------------------------------------------------------
(* The step of head or tail, the other steps, and the theorems. *)

LEMMA AdvanceKeeps ==
  ASSUME ChanInv, Advance
  PROVE  ChanInv' /\ Fifo!Next
<1>1. /\ InCall("advance")
      /\ at' = [at EXCEPT ![cur] = "unlock"]
      /\ UNCHANGED <<allVars, op, buffer>>
      /\ \/ /\ op[cur] = "send"
            /\ tail' = (tail + 1) % Capacity
            /\ filled' = filled + 1
            /\ UNCHANGED <<head, taken, msg>>
         \/ /\ op[cur] = "recv"
            /\ head' = (head + 1) % Capacity
            /\ filled' = filled - 1
            /\ taken' = msg[cur]
            /\ msg' = [msg EXCEPT ![cur] = NoMessage]
            /\ UNCHANGED tail
  BY DEF Advance, GoOn
<1>2. /\ cur \in Thread /\ at[cur] = "advance"
      /\ op[cur] = "send" \/ op[cur] = "recv"
      /\ \A y \in Object : ~Waits(cur, y)
      /\ space \in Object /\ messages \in Object /\ mutex \in Object
  BY <1>1, InsideCall
<1>3. SyncInv' /\ SyncInv /\ ChanTypeOK /\ Capacity \in Nat \ {0}
  BY <1>1, SyncNextKeepsInv, ChannelAssumption DEF ChanInv
<1>4. count' = count /\ called' = called /\ \A t, y : Waits(t, y)' <=> Waits(t, y)
  BY <1>1 DEF allVars, syncVars, mutexVars, semVars, Waits
<1>5. /\ \A t \in Thread : t # cur => at[t] # "advance" /\ at'[t] = at[t]
      /\ at'[cur] = "unlock"
  BY <1>1, <1>2, <1>3, AloneInside DEF ChanTypeOK
<1>6. /\ filled \in 0 .. Capacity
      /\ op[cur] = "send" => filled < Capacity
      /\ op[cur] = "recv" => filled > 0
  <2>1. /\ op[cur] = "send" => cur \in Claimers("send", Early)
        /\ op[cur] = "recv" => cur \in Claimers("recv", Early)
    BY <1>2 DEF Claimers, Early
  <2> QED
    BY <2>1, ClaimBounds DEF ChanInv
<1>7. tail \in Position /\ head \in Position /\ 1 \in 0 .. Capacity
  BY <1>3 DEF ChanTypeOK
<1>8. ChanTypeOK'
  <2>1. (tail + 1) % Capacity \in Position /\ (head + 1) % Capacity \in Position
    BY <1>7, ModSplit
  <2> QED
    BY <1>1, <1>2, <1>3, <1>6, <2>1 DEF ChanTypeOK, Sent
<1>9. CallsSound'
  <2>1. \A t \in Thread : t # cur => msg'[t] = msg[t]
    BY <1>1, <1>3 DEF ChanTypeOK
  <2>2. op' = op
    BY <1>1
  <2> QED
    BY <1>2, <1>4, <1>5, <2>1, <2>2 DEF ChanInv, CallsSound
<1>10. RingSound'
  <2>1. tail = (head + filled) % Capacity
    BY DEF ChanInv, RingSound
  <2>2. head \in Nat /\ head < Capacity /\ filled \in Nat /\ Capacity \in Nat
    BY <1>3, <1>6, <1>7 DEF Position
  <2>3. tail = IF head + filled < Capacity THEN head + filled ELSE head + filled - Capacity
    BY <1>6, <1>7, <2>1, ModSplit
  <2>4. tail' = (head' + filled') % Capacity
    <3>1. CASE op[cur] = "send"
      <4>1. filled < Capacity /\ filled + 1 \in 0 .. Capacity
        BY <1>6, <2>2, <3>1
      <4>2. (tail + 1) % Capacity = IF tail + 1 < Capacity THEN tail + 1 ELSE tail + 1 - Capacity
        BY <1>7, ModSplit
      <4>3. (head + (filled + 1)) % Capacity =
              IF head + (filled + 1) < Capacity THEN head + (filled + 1)
              ELSE head + (filled + 1) - Capacity
        BY <1>7, <4>1, ModSplit
      <4>4. (tail + 1) % Capacity = (head + (filled + 1)) % Capacity
        BY <2>2, <2>3, <4>1, <4>2, <4>3
      <4> QED
        BY <1>1, <3>1, <4>4
    <3>2. CASE op[cur] = "recv"
      <4>1. filled > 0 /\ filled - 1 \in 0 .. Capacity
        BY <1>6, <2>2, <3>2
      <4> DEFINE h == (head + 1) % Capacity
      <4>2. h \in Position /\ h = IF head + 1 < Capacity THEN head + 1 ELSE head + 1 - Capacity
        BY <1>7, ModSplit
      <4> HIDE DEF h
      <4>3. (h + (filled - 1)) % Capacity =
              IF h + (filled - 1) < Capacity THEN h + (filled - 1)
              ELSE h + (filled - 1) - Capacity
        BY <4>1, <4>2, ModSplit
      <4>4. tail = (h + (filled - 1)) % Capacity
        BY <1>6, <2>2, <2>3, <4>1, <4>2, <4>3
      <4> QED
        BY <1>1, <3>2, <4>4 DEF h
    <3> QED
      BY <1>2, <3>1, <3>2
  <2>5. \A t \in Thread : at'[t] # "advance"
    BY <1>5
  <2> QED
    BY <2>4, <2>5 DEF RingSound
<1>11. SlotsAccounted'
  <2>1. op' = op /\ \A steps : cur \in Claimers(op[cur], steps) <=> "advance" \in steps
    BY <1>1, <1>2 DEF Claimers
  <2>2. CASE op[cur] = "send"
    <3>1. /\ Claimers("recv", Early)' = Claimers("recv", Early)
          /\ Claimers("recv", Late)' = Claimers("recv", Late)
      BY <1>4, <1>5, <2>1, <2>2 DEF Claimers
    <3>2. Claimers("send", Early)' = Claimers("send", Early) \ {cur}
      BY <1>4, <1>5, <2>1 DEF Claimers, Early
    <3>3. Claimers("send", Late)' = Claimers("send", Late) \cup {cur}
      BY <1>2, <1>4, <1>5, <2>1, <2>2 DEF Claimers, Late
    <3>4. cur \in Claimers("send", Early) /\ cur \notin Claimers("send", Late)
      BY <2>1, <2>2 DEF Early, Late
    <3>5. /\ Claims("send", Early)' = Claims("send", Early) - 1
          /\ Claims("send", Late)' = Claims("send", Late) + 1
      BY <3>2, <3>3, <3>4, ClaimsJoin, ClaimsLeave
    <3>6. filled' = filled + 1
      BY <1>1, <2>2
    <3> QED
      BY <1>3, <1>4, <3>1, <3>5, <3>6, ClaimsStay, Accounts, ChanNumbers DEF ChanInv
  <2>3. CASE op[cur] = "recv"
    <3>1. /\ Claimers("send", Early)' = Claimers("send", Early)
          /\ Claimers("send", Late)' = Claimers("send", Late)
      BY <1>4, <1>5, <2>1, <2>3 DEF Claimers
    <3>2. Claimers("recv", Early)' = Claimers("recv", Early) \ {cur}
      BY <1>4, <1>5, <2>1 DEF Claimers, Early
    <3>3. Claimers("recv", Late)' = Claimers("recv", Late) \cup {cur}
      BY <1>2, <1>4, <1>5, <2>1, <2>3 DEF Claimers, Late
    <3>4. cur \in Claimers("recv", Early) /\ cur \notin Claimers("recv", Late)
      BY <2>1, <2>3 DEF Early, Late
    <3>5. /\ Claims("recv", Early)' = Claims("recv", Early) - 1
          /\ Claims("recv", Late)' = Claims("recv", Late) + 1
      BY <3>2, <3>3, <3>4, ClaimsJoin, ClaimsLeave
    <3>6. filled' = filled - 1
      BY <1>1, <2>3
    <3> QED
      BY <1>3, <1>4, <3>1, <3>5, <3>6, ClaimsStay, Accounts, ChanNumbers DEF ChanInv
  <2> QED
    BY <1>2, <2>2, <2>3
<1>12. Fifo!Next
  <2>1. CASE op[cur] = "send"
    BY <1>1, <2>1, SenderAccepts
  <2>2. CASE op[cur] = "recv"
    BY <1>1, <2>2, ReceiverDelivers
  <2> QED
    BY <1>2, <2>1, <2>2
<1> QED
  BY <1>3, <1>8, <1>9, <1>10, <1>11, <1>12 DEF ChanInv

\* Every step of a channel is a call of the mutex or of a semaphore, a step of
\* the scheduler, or one that both leave alone.
LEMMA ChannelStepIsSync ==
  ASSUME ChanInv, [ChannelNext]_channelVars
  PROVE  [SyncNext]_allVars
<1>1. mutex \in Mutexes /\ space \in Sems /\ messages \in Sems
  BY ChannelAssumption
<1>2. CASE SendBegin \/ RecvBegin \/ Post
  <2>1. \E s \in Sems : SemWait(s) \/ SemPost(s)
    BY <1>1, <1>2 DEF SendBegin, RecvBegin, Post
  <2> QED
    BY <2>1 DEF SyncNext, SyncStep
<1>3. CASE ChannelLock \/ ChannelUnlock
  <2>1. \E m \in Mutexes : MutexLock(m) \/ MutexUnlock(m)
    BY <1>1, <1>3 DEF ChannelLock, ChannelUnlock
  <2> QED
    BY <2>1 DEF SyncNext, SyncStep
<1>4. CASE Access \/ Advance \/ UNCHANGED channelVars
  BY <1>4 DEF Access, Advance, channelVars
<1>5. CASE OtherStep
  <2>1. ASSUME op[cur] = "none", Exit PROVE called[cur] = {}
    <3>1. cur \in Thread /\ called \in [Thread -> SUBSET {mutex}]
      BY ChannelAssumption DEF ChanInv, SyncInv, SyncTypeOK, TypeOK
    <3>2. at[cur] = "begin" /\ mutex \notin called[cur]
      BY <2>1, <3>1 DEF ChanInv, CallsSound
    <3> QED
      BY <3>1, <3>2
  <2>2. UNCHANGED syncVars
    BY <1>5 DEF OtherStep
  <2> QED
    BY <1>5, <2>1, <2>2 DEF OtherStep, UserStep, SyncNext, PlainStep, NonExitStep
<1> QED
  BY <1>2, <1>3, <1>4, <1>5 DEF ChannelNext, CallStep

\* What the threads do outside of channel calls, the system, and nothing.
LEMMA OtherKeeps ==
  ASSUME ChanInv, OtherStep \/ UNCHANGED channelVars
  PROVE  ChanInv'
<1>1. UNCHANGED <<syncVars, chanVars>>
  BY DEF OtherStep, channelVars, allVars
<1>2. /\ count' = count /\ called' = called /\ \A t, y : Waits(t, y)' <=> Waits(t, y)
      /\ UNCHANGED <<op, at, msg, buffer, head, tail, filled, taken>>
  BY <1>1 DEF syncVars, mutexVars, semVars, chanVars, ringVars, Waits
<1>3. [SyncNext]_allVars
  BY ChannelStepIsSync DEF ChannelNext
<1>4. SyncInv'
  BY <1>3, SyncNextKeepsInv DEF ChanInv
<1>5. ChanTypeOK' /\ CallsSound' /\ RingSound'
  BY <1>2 DEF ChanInv, ChanTypeOK, CallsSound, RingSound
<1>6. SlotsAccounted'
  BY <1>2 DEF ChanInv, SlotsAccounted, Claims
<1> QED
  BY <1>4, <1>5, <1>6 DEF ChanInv

LEMMA ChannelInitInv == ChannelInit => ChanInv /\ Fifo!Init
<1> SUFFICES ASSUME ChannelInit PROVE ChanInv /\ Fifo!Init
  OBVIOUS
<1>1. SyncInv /\ Capacity \in Nat \ {0} /\ space \in Sems /\ messages \in Sems
      /\ space # messages
  BY SyncInitInv, ChannelAssumption DEF ChannelInit
<1>2. /\ op = [t \in Thread |-> "none"] /\ at = [t \in Thread |-> "begin"]
      /\ msg = [t \in Thread |-> NoMessage]
      /\ buffer = [i \in Position |-> NoMessage]
      /\ head = 0 /\ tail = 0 /\ filled = 0 /\ taken = NoMessage
      /\ count = SemInit /\ called = [t \in Thread |-> {}]
      /\ \A x \in Mutexes \cup Sems : waiters[x] = <<>>
  BY DEF ChannelInit, SyncInit, Position
<1>3. 0 \in Position /\ NoMessage \in Sent
  BY <1>1 DEF Position, Sent
<1>4. ChanTypeOK
  BY <1>2, <1>3 DEF ChanTypeOK
<1>5. \A t : ~Waits(t, space) /\ ~Waits(t, messages) /\ ~Waits(t, mutex)
  BY <1>1, <1>2, EmptyRange, ChannelAssumption DEF Waits
<1>6. CallsSound
  BY <1>2, <1>5 DEF CallsSound
<1>7. RingSound
  <2>1. (0 + 0) % Capacity = 0
    BY <1>1, <1>3, ModSplit
  <2> QED
    BY <1>2, <2>1 DEF RingSound
<1>8. SlotsAccounted
  <2>1. ASSUME NEW kind \in {"send", "recv"}, NEW steps
        PROVE  Claims(kind, steps) = 0
    <3>1. Claimers(kind, steps) = {}
      BY <1>2 DEF Claimers
    <3> QED
      BY <3>1, ClaimersFinite, FS_EmptySet
  <2>2. count[space] = Capacity /\ count[messages] = 0
    BY <1>1, <1>2, ChannelAssumption
  <2> QED
    BY <1>1, <1>2, <2>1, <2>2, Accounts
<1>9. Fifo!Init
  <2>1. Contents = <<>>
    <3>1. ChanInv
      BY <1>1, <1>4, <1>6, <1>7, <1>8 DEF ChanInv
    <3>2. Contents \in Seq(Sent) /\ Len(Contents) = 0
      BY <1>2, <3>1, ContentsAre
    <3> QED
      BY <3>2, EmptySeq
  <2> QED
    BY <1>2, <2>1 DEF Fifo!Init
<1> QED
  BY <1>1, <1>4, <1>6, <1>7, <1>8, <1>9 DEF ChanInv

LEMMA ChannelNextKeeps ==
  ASSUME ChanInv, [ChannelNext]_channelVars
  PROVE  ChanInv' /\ [Fifo!Next]_<<Contents, taken>>
<1>1. CASE UNCHANGED <<buffer, head, filled, taken>>
  <2>1. UNCHANGED <<Contents, taken>>
    BY <1>1 DEF Contents
  <2>2. CASE SendBegin
    BY <2>1, <2>2, SendBeginKeeps
  <2>3. CASE RecvBegin
    BY <2>1, <2>3, RecvBeginKeeps
  <2>4. CASE ChannelLock
    BY <2>1, <2>4, ChannelLockKeeps
  <2>5. CASE ChannelUnlock
    BY <2>1, <2>5, ChannelUnlockKeeps
  <2>6. CASE Post
    BY <2>1, <2>6, PostKeeps
  <2>7. CASE OtherStep \/ UNCHANGED channelVars
    BY <2>1, <2>7, OtherKeeps
  <2>8. CASE Access
    BY <2>8, AccessKeeps
  <2>9. CASE Advance
    BY <2>9, AdvanceKeeps
  <2> QED
    BY <2>2, <2>3, <2>4, <2>5, <2>6, <2>7, <2>8, <2>9 DEF ChannelNext, CallStep
<1>2. CASE Access
  BY <1>2, AccessKeeps
<1>3. CASE Advance
  BY <1>3, AdvanceKeeps
<1>4. CASE ~Access /\ ~Advance
  <2>1. UNCHANGED ringVars
    BY <1>4 DEF ChannelNext, CallStep, SendBegin, RecvBegin, ChannelLock, ChannelUnlock,
                Post, OtherStep, channelVars, chanVars
  <2> QED
    BY <1>1, <2>1 DEF ringVars
<1> QED
  BY <1>2, <1>3, <1>4

THEOREM ChannelInvariant == ChannelSpec => []ChanInv
<1>1. ChanInv /\ [ChannelNext]_channelVars => ChanInv'
  BY ChannelNextKeeps
<1> QED
  BY <1>1, ChannelInitInv, PTL DEF ChannelSpec

\* uthread_channel_send and _recv touch the mutex, the semaphores and the
\* scheduler through their calls only, and no client of a channel exits inside
\* one: a system of channels is one of mutexes and semaphores.
THEOREM ChannelsUseSync == ChannelSpec => SyncSpec
<1>1. ChanInv /\ [ChannelNext]_channelVars => [SyncNext]_allVars
  BY ChannelStepIsSync
<1>2. ChannelInit => SyncInit
  BY DEF ChannelInit
<1> QED
  BY <1>1, <1>2, ChannelInvariant, PTL DEF ChannelSpec, SyncSpec

\* So at most one thread is at the ring, and no unit, wake-up or waiter of the
\* channel is lost.
THEOREM ChannelKeepsSync ==
  ChannelSpec => [](MutualExclusion /\ LockHeld /\ WaitListed /\ SemConserved)
<1>1. SyncInv => MutualExclusion /\ LockHeld /\ WaitListed /\ SemConserved
  BY DEF SyncInv
<1> QED
  BY <1>1, ChannelsUseSync, SyncInvariant, PTL

\* uthread_channel_send and _recv: each slot and each message is at every
\* moment a unit of its semaphore or in the hands of one thread, for any
\* capacity and any number of threads.
THEOREM SlotsSound == ChannelSpec => []SlotsAccounted
<1>1. ChanInv => SlotsAccounted
  BY DEF ChanInv
<1> QED
  BY <1>1, ChannelInvariant, PTL

\* The channel implements a bounded FIFO queue: no message is lost, doubled,
\* overwritten before it is read or delivered out of turn, wherever alarms
\* fall between the calls that send and recv are made of.
THEOREM ChannelIsFifo == ChannelSpec => FifoImplemented
<1>1. ChanInv /\ [ChannelNext]_channelVars => [Fifo!Next]_<<Contents, taken>>
  BY ChannelNextKeeps
<1>2. ChannelInit => Fifo!Init
  BY ChannelInitInv
<1> QED
  BY <1>1, <1>2, ChannelInvariant, PTL DEF ChannelSpec, FifoImplemented, Fifo!Spec

=============================================================================
