-------------------------------- MODULE Sync --------------------------------
(***************************************************************************)
(* Mutexes and semaphores of src/uthread.c in single-core mode, on top of  *)
(* the scheduler.  Each call runs with SIGALRM masked until it returns or  *)
(* blocks; a caller that blocks enters uthread_yield.                      *)
(*                                                                         *)
(* The clients are those the API is made for: a thread unlocks only what   *)
(* it has locked, does not lock a mutex twice and does not exit with one.  *)
(***************************************************************************)
EXTENDS Scheduler

CONSTANTS
  Mutexes,
  Sems,
  SemInit,    \* initial_count of uthread_sem_init
  MaxUnits    \* bound on the units of one semaphore

ASSUME SyncAssumption ==
  /\ Mutexes \cap Sems = {}
  /\ SemInit \in [Sems -> Nat]
  /\ MaxUnits \in Nat

VARIABLES
  locked,   \* m->locked
  waiters,  \* wait_head .. wait_tail of each mutex and semaphore
  count,    \* s->count
  called,   \* ghost: the mutexes a thread has called lock on and not unlock
  net       \* ghost: the initial units and the posts, less the waits called

mutexVars == <<locked, called>>
semVars == <<count, net>>
syncVars == <<mutexVars, semVars, waiters>>
allVars == <<vars, syncVars>>

\* uthread_mutex_init, uthread_sem_init
SyncInit ==
  /\ Init
  /\ locked = [m \in Mutexes |-> FALSE]
  /\ waiters = [x \in Mutexes \cup Sems |-> <<>>]
  /\ count = SemInit
  /\ called = [t \in Thread |-> {}]
  /\ net = SemInit

-----------------------------------------------------------------------------
\* Variant: the wait queue is a stack.
WaitListPush(q, t) == <<t>> \o q

WaitListAdd(q, t) == Append(q, t)

\* Variant: the blocked caller stays RUNNING.
BlockOnUnmarked(x) ==
  /\ waiters' = [waiters EXCEPT ![x] = WaitListAdd(@, cur)]
  /\ YieldFrom(state, asleep, watch, due)
  /\ UNCHANGED <<prio, policy, nextId, epollOk>>

\* The tail of uthread_mutex_lock and uthread_sem_wait: BLOCKED, to the tail
\* of the wait list, uthread_yield.
BlockOn(x) ==
  /\ waiters' = [waiters EXCEPT ![x] = WaitListAdd(@, cur)]
  /\ YieldFrom([state EXCEPT ![cur] = "BLOCKED"], asleep, watch, due)
  /\ UNCHANGED <<prio, policy, nextId, epollOk>>

\* The head of the wait list becomes READY and goes to the ready queue.
WakeFirst(x) ==
  /\ waiters' = [waiters EXCEPT ![x] = Tail(@)]
  /\ state' = [state EXCEPT ![Head(waiters[x])] = "READY"]
  /\ ready' = Append(ready, Head(waiters[x]))
  /\ UNCHANGED <<cur, idle, prio, policy, nextId, asleep, watch, due, epollOk,
                 exited>>

\* uthread_mutex_lock
MutexLock(m) ==
  /\ UserMode
  /\ m \notin called[cur]
  /\ called' = [called EXCEPT ![cur] = @ \cup {m}]
  /\ \/ /\ ~locked[m]
        /\ locked' = [locked EXCEPT ![m] = TRUE]
        /\ UNCHANGED <<vars, waiters>>
     \/ /\ locked[m]
        /\ BlockOn(m)
        /\ UNCHANGED locked
  /\ UNCHANGED semVars

\* Variant: the mutex is freed although a waiter is let in.
HandOffUnlocks(m) ==
  \/ /\ waiters[m] # <<>>
     /\ WakeFirst(m)
     /\ locked' = [locked EXCEPT ![m] = FALSE]
  \/ /\ waiters[m] = <<>>
     /\ locked' = [locked EXCEPT ![m] = FALSE]
     /\ UNCHANGED <<vars, waiters>>

\* Variant: the mutex stays locked when nobody waits.
HandOffSticks(m) ==
  \/ /\ waiters[m] # <<>>
     /\ WakeFirst(m)
     /\ UNCHANGED locked
  \/ /\ waiters[m] = <<>>
     /\ UNCHANGED <<vars, waiters, locked>>

\* The mutex passes to the first waiter and stays locked; it is freed only
\* when nobody waits.
HandOff(m) ==
  \/ /\ waiters[m] # <<>>
     /\ WakeFirst(m)
     /\ UNCHANGED locked
  \/ /\ waiters[m] = <<>>
     /\ locked' = [locked EXCEPT ![m] = FALSE]
     /\ UNCHANGED <<vars, waiters>>

\* uthread_mutex_unlock
MutexUnlock(m) ==
  /\ UserMode
  /\ m \in called[cur]
  /\ called' = [called EXCEPT ![cur] = @ \ {m}]
  /\ HandOff(m)
  /\ UNCHANGED semVars

\* uthread_sem_wait
SemWait(s) ==
  /\ UserMode
  /\ net' = [net EXCEPT ![s] = @ - 1]
  /\ \/ /\ count[s] > 0
        /\ count' = [count EXCEPT ![s] = @ - 1]
        /\ UNCHANGED <<vars, waiters>>
     \/ /\ count[s] <= 0
        /\ BlockOn(s)
        /\ UNCHANGED count
  /\ UNCHANGED mutexVars

\* Variant: a post that wakes a waiter keeps its unit as well.
PassUnitTwice(s) ==
  /\ count' = [count EXCEPT ![s] = @ + 1]
  /\ \/ waiters[s] # <<>> /\ WakeFirst(s)
     \/ waiters[s] = <<>> /\ UNCHANGED <<vars, waiters>>

\* Variant: a post wakes nobody.
PassUnitToCount(s) ==
  /\ count' = [count EXCEPT ![s] = @ + 1]
  /\ UNCHANGED <<vars, waiters>>

\* The unit goes to the first waiter, or to the count when nobody waits.
PassUnit(s) ==
  \/ /\ waiters[s] # <<>>
     /\ WakeFirst(s)
     /\ UNCHANGED count
  \/ /\ waiters[s] = <<>>
     /\ count' = [count EXCEPT ![s] = @ + 1]
     /\ UNCHANGED <<vars, waiters>>

\* uthread_sem_post
SemPost(s) ==
  /\ UserMode
  /\ net[s] < MaxUnits
  /\ net' = [net EXCEPT ![s] = @ + 1]
  /\ PassUnit(s)
  /\ UNCHANGED mutexVars

SyncStep ==
  \/ \E m \in Mutexes : MutexLock(m) \/ MutexUnlock(m)
  \/ \E s \in Sems : SemWait(s) \/ SemPost(s)

\* Steps of the scheduler that involve no mutex or semaphore.
PlainStep ==
  /\ \/ NonExitStep
     \/ Exit /\ called[cur] = {}
     \/ SystemStep
     \/ Terminated
  /\ UNCHANGED syncVars

SyncNext == SyncStep \/ PlainStep

SyncSpec == SyncInit /\ [][SyncNext]_allVars

-----------------------------------------------------------------------------
(***************************************************************************)
(* Correctness.                                                            *)
(***************************************************************************)

SyncTypeOK ==
  /\ TypeOK
  /\ locked \in [Mutexes -> BOOLEAN]
  /\ waiters \in [Mutexes \cup Sems -> Seq(Thread)]
  /\ count \in [Sems -> Int]
  /\ called \in [Thread -> SUBSET Mutexes]
  /\ net \in [Sems -> Int]

Waits(t, x) == t \in Range(waiters[x])

\* t is past its call of uthread_mutex_lock(m), or will be as soon as it is
\* given the processor.
InCS(t, m) == m \in called[t] /\ ~(state[t] = "BLOCKED" /\ Waits(t, m))

\* Every BLOCKED thread is on exactly one wait list, once, and every thread on
\* a wait list is BLOCKED.  With ReadyListed and ParkedSound: a thread is on at
\* most one of the lists that share its next pointer, and no wake-up of one
\* kind (alarm, poll, unlock, post) can run a thread that waits for another.
WaitListed ==
  /\ \A x \in Mutexes \cup Sems : IsInjective(waiters[x])
  /\ \A t \in Thread : \A x, y \in Mutexes \cup Sems :
       Waits(t, x) /\ Waits(t, y) => x = y
  /\ \A t \in Thread :
       state[t] = "BLOCKED" <=> \E x \in Mutexes \cup Sems : Waits(t, x)

\* design.md: absolute mutual exclusion, across preemption, hand-off and
\* nested alarms.
MutualExclusion ==
  \A m \in Mutexes : \A t, u \in Thread : InCS(t, m) /\ InCS(u, m) => t = u

\* The flag is set exactly while some thread is inside or has been handed the
\* mutex: hand-off never frees it in between, and unlock never leaves it set
\* with nobody to unlock it.  And no wake-up is lost: a free mutex has no
\* waiter.
LockHeld ==
  \A m \in Mutexes :
    /\ locked[m] <=> \E t \in Thread : InCS(t, m)
    /\ ~locked[m] => waiters[m] = <<>>

\* Units are neither lost nor made: the initial and the posted ones are in the
\* count or have gone to the waits that were called, but for those still
\* waiting.
SemConserved == \A s \in Sems : count[s] - Len(waiters[s]) = net[s]

\* Nobody waits while a unit is there, and the count stays non-negative.
SemNoIdleUnit ==
  \A s \in Sems : count[s] >= 0 /\ (count[s] > 0 => waiters[s] = <<>>)

\* Under round robin every thread that waits for a mutex gets it: hand-off in
\* FIFO order leaves no room for a later caller to overtake.
LockGranted ==
  \A t \in Thread : \A m \in Mutexes : []<>(~Waits(t, m) \/ exited)

=============================================================================
