------------------------------- MODULE MNSync -------------------------------
(***************************************************************************)
(* The mutex of src/uthread.c under several virtual processors.  In M:N    *)
(* mode block_signals masks nothing that matters and the functions take no *)
(* spinlock, so the tests and assignments of two callers interleave.  The  *)
(* operations on the wait list and on the ready queue, which would race in *)
(* the same way, are kept whole.                                           *)
(***************************************************************************)
EXTENDS WorkSteal

VARIABLES
  locked,   \* m->locked
  waiters,  \* wait_head .. wait_tail
  called    \* ghost: the threads that called lock and have not called unlock

mutexVars == <<locked, waiters, called>>

MutexInit == Init /\ locked = FALSE /\ waiters = <<>> /\ called = {}

Step(v, from, to) == pc[v] = from /\ Goto(v, to)
LoopVars == <<saved, nextId, local, cur, hand, untried, running, returned>>

\* uthread_mutex_lock: if (!m->locked)
LockTest(v) ==
  /\ Step(v, "user", IF locked THEN "block" ELSE "set")
  /\ cur[v] \notin called
  /\ called' = called \cup {cur[v]}
  /\ UNCHANGED <<LoopVars, state, ready, locked, waiters>>

\* m->locked = 1
LockSet(v) ==
  /\ Step(v, "set", "user")
  /\ locked' = TRUE
  /\ UNCHANGED <<LoopVars, state, ready, waiters, called>>

\* BLOCKED, to the wait list; mn_yield does not queue it.
LockBlock(v) ==
  /\ Step(v, "block", "switch")
  /\ state' = [state EXCEPT ![cur[v]] = "BLOCKED"]
  /\ waiters' = Append(waiters, cur[v])
  /\ UNCHANGED <<LoopVars, ready, locked, called>>

\* uthread_mutex_unlock: if (m->wait_head)
UnlockTest(v) ==
  /\ Step(v, "user", IF waiters # <<>> THEN "wake" ELSE "clear")
  /\ cur[v] \in called
  /\ called' = called \ {cur[v]}
  /\ UNCHANGED <<LoopVars, state, ready, locked, waiters>>

UnlockWake(v) ==
  /\ waiters # <<>> /\ Step(v, "wake", "user")
  /\ waiters' = Tail(waiters)
  /\ state' = [state EXCEPT ![Head(waiters)] = "READY"]
  /\ ready' = Append(ready, Head(waiters))
  /\ UNCHANGED <<LoopVars, locked, called>>

UnlockClear(v) ==
  /\ Step(v, "clear", "user")
  /\ locked' = FALSE
  /\ UNCHANGED <<LoopVars, state, ready, waiters, called>>

MutexStep(v) ==
  \/ LockTest(v) \/ LockSet(v) \/ LockBlock(v)
  \/ UnlockTest(v) \/ UnlockWake(v) \/ UnlockClear(v)

MutexNext ==
  \/ \E v \in VP : MutexStep(v)
  \/ Next /\ UNCHANGED mutexVars

MutexSpec == MutexInit /\ [][MutexNext]_<<vars, mutexVars>>

\* The thread on v has returned from uthread_mutex_lock.
Inside(v) == pc[v] = "user" /\ cur[v] \in called

\* design.md: "Absolute mutual exclusion is guaranteed".
MutualExclusion == \A v, w \in VP : Inside(v) /\ Inside(w) => v = w

=============================================================================
