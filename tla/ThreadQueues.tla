---------------------------- MODULE ThreadQueues ----------------------------
(***************************************************************************)
(* What the lists of src/uthread.c promise: a ready queue and a wait queue *)
(* in FIFO order, a stack of sleepers, and the set of the threads there    *)
(* are.  A thread is in one queue at a time.                               *)
(***************************************************************************)
EXTENDS SequencesExt, Naturals

CONSTANTS Thread, First   \* First: the thread of main

VARIABLES ready, waiting, sleeping, threads

Init ==
  /\ ready = <<>> /\ waiting = <<>> /\ sleeping = <<>>
  /\ threads = {First}

Free(t) == t \notin Range(ready) \cup Range(waiting) \cup Range(sleeping)

Create(t) ==
  /\ t \notin threads /\ Free(t)
  /\ threads' = threads \cup {t}
  /\ ready' = Append(ready, t)
  /\ UNCHANGED <<waiting, sleeping>>

Reclaim(t) ==
  /\ t \in threads /\ Free(t)
  /\ threads' = threads \ {t}
  /\ UNCHANGED <<ready, waiting, sleeping>>

Queue(t) ==
  /\ t \in threads /\ Free(t)
  /\ ready' = Append(ready, t)
  /\ UNCHANGED <<waiting, sleeping, threads>>

Take(i) ==
  /\ ready' = RemoveAt(ready, i)
  /\ UNCHANGED <<waiting, sleeping, threads>>

Block(t) ==
  /\ t \in threads /\ Free(t)
  /\ waiting' = Append(waiting, t)
  /\ UNCHANGED <<ready, sleeping, threads>>

Unblock ==
  /\ waiting # <<>>
  /\ waiting' = Tail(waiting)
  /\ ready' = Append(ready, Head(waiting))
  /\ UNCHANGED <<sleeping, threads>>

Sleep(t) ==
  /\ t \in threads /\ Free(t)
  /\ sleeping' = <<t>> \o sleeping
  /\ UNCHANGED <<ready, waiting, threads>>

Wake(i) ==
  /\ sleeping' = RemoveAt(sleeping, i)
  /\ ready' = Append(ready, sleeping[i])
  /\ UNCHANGED <<waiting, threads>>

Next ==
  \/ \E t \in Thread : Create(t) \/ Reclaim(t) \/ Queue(t) \/ Block(t) \/ Sleep(t)
  \/ \E i \in DOMAIN ready : Take(i)
  \/ \E i \in DOMAIN sleeping : Wake(i)
  \/ Unblock

Spec == Init /\ [][Next]_<<ready, waiting, sleeping, threads>>

=============================================================================
