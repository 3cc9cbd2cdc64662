--------------------------- MODULE IntrusiveList ----------------------------
(***************************************************************************)
(* The linked lists of src/uthread.c, pointer by pointer: the ready list,  *)
(* the wait list of a mutex or semaphore and the sleep list, which share   *)
(* the next field of a TCB, and the global list, doubly linked.  A turn of *)
(* a loop over a list is a step.  Everything runs with SIGALRM masked on   *)
(* one processor, so nothing else happens before a loop has ended.         *)
(***************************************************************************)
EXTENDS Integers, FiniteSets, Functions

CONSTANTS Thread, First, Null   \* TCBs, that of main, and NULL

ASSUME ListAssumption == IsFiniteSet(Thread) /\ First \in Thread /\ Null \notin Thread

VARIABLES
  state,                               \* tcb->state; "NONE": no TCB
  current,                             \* current_thread
  next,                                \* tcb->next
  readyHead, readyTail, readyCount,
  waitHead, waitTail,
  sleepHead,                           \* sleep_list_head
  globalHead, globalNext, globalPrev,  \* global_thread_list
  walk                                 \* the loop that runs: prev, cur, target

readyVars == <<readyHead, readyTail, readyCount>>
waitVars == <<waitHead, waitTail>>
globalVars == <<globalHead, globalNext, globalPrev>>
listVars == <<state, current, next, readyVars, waitVars, sleepHead, globalVars, walk>>

NoWalk == [loop |-> "none", prev |-> Null, cur |-> Null, target |-> Null]

\* uthread_init
Init ==
  /\ state = [t \in Thread |-> IF t = First THEN "RUNNING" ELSE "NONE"]
  /\ current = First
  /\ next = [t \in Thread |-> Null]
  /\ readyHead = Null /\ readyTail = Null /\ readyCount = 0
  /\ waitHead = Null /\ waitTail = Null
  /\ sleepHead = Null
  /\ globalHead = First
  /\ globalNext = [t \in Thread |-> Null] /\ globalPrev = [t \in Thread |-> Null]
  /\ walk = NoWalk

-----------------------------------------------------------------------------
(* Assignments that several functions share. *)

SetState(t, s) == state' = [state EXCEPT ![t] = s]

\* t becomes the element after tail, with nxt as the next fields so far.
Linked(nxt, tail, t) ==
  [u \in Thread |-> IF u = tail THEN t ELSE IF u = t THEN Null ELSE nxt[u]]

\* enqueue
Enqueue(nxt, t) ==
  /\ next' = Linked(nxt, readyTail, t)
  /\ readyHead' = IF readyTail = Null THEN t ELSE readyHead
  /\ readyTail' = t
  /\ readyCount' = readyCount + 1

\* Variant: the old first element does not point back.
GlobalAddOneWay(t) ==
  /\ globalNext' = [globalNext EXCEPT ![t] = globalHead]
  /\ globalPrev' = [globalPrev EXCEPT ![t] = Null]
  /\ globalHead' = t

\* global_list_add
GlobalAdd(t) ==
  /\ globalNext' = [globalNext EXCEPT ![t] = globalHead]
  /\ globalPrev' = [u \in Thread |-> IF u = t THEN Null
                                     ELSE IF u = globalHead THEN t ELSE globalPrev[u]]
  /\ globalHead' = t

\* global_list_remove
GlobalRemove(t) ==
  /\ globalHead' = IF globalPrev[t] = Null THEN globalNext[t] ELSE globalHead
  /\ globalNext' = [u \in Thread |-> IF u = t THEN Null
                      ELSE IF u = globalPrev[t] THEN globalNext[t] ELSE globalNext[u]]
  /\ globalPrev' = [u \in Thread |-> IF u = t THEN Null
                      ELSE IF u = globalNext[t] THEN globalPrev[t] ELSE globalPrev[u]]

Running == walk.loop = "none" /\ state[current] = "RUNNING"
Dispatching == walk.loop = "none" /\ state[current] # "RUNNING"

-----------------------------------------------------------------------------
(* What the running thread does. *)

\* uthread_create
Create(t) ==
  /\ Running /\ state[t] = "NONE"
  /\ SetState(t, "READY")
  /\ GlobalAdd(t)
  /\ Enqueue(next, t)
  /\ UNCHANGED <<current, waitVars, sleepHead, walk>>

\* uthread_yield queues its caller.
Requeue ==
  /\ Running
  /\ SetState(current, "READY")
  /\ Enqueue(next, current)
  /\ UNCHANGED <<current, waitVars, sleepHead, globalVars, walk>>

\* The tail of uthread_mutex_lock and uthread_sem_wait
Block ==
  /\ Running
  /\ SetState(current, "BLOCKED")
  /\ next' = Linked(next, waitTail, current)
  /\ waitHead' = IF waitTail = Null THEN current ELSE waitHead
  /\ waitTail' = current
  /\ UNCHANGED <<current, readyVars, sleepHead, globalVars, walk>>

\* Variant: wait_tail is not reset with the last waiter.
UnblockStaleTail ==
  /\ Running /\ waitHead # Null
  /\ waitHead' = next[waitHead]
  /\ SetState(waitHead, "READY")
  /\ Enqueue(next, waitHead)
  /\ UNCHANGED <<current, waitTail, sleepHead, globalVars, walk>>

\* uthread_mutex_unlock and uthread_sem_post with a waiter
Unblock ==
  /\ Running /\ waitHead # Null
  /\ waitHead' = next[waitHead]
  /\ waitTail' = IF next[waitHead] = Null THEN Null ELSE waitTail
  /\ SetState(waitHead, "READY")
  /\ Enqueue(next, waitHead)
  /\ UNCHANGED <<current, sleepHead, globalVars, walk>>

\* uthread_sleep
Sleep ==
  /\ Running
  /\ SetState(current, "IO_BLOCKED")
  /\ next' = [next EXCEPT ![current] = sleepHead]
  /\ sleepHead' = current
  /\ UNCHANGED <<current, readyVars, waitVars, globalVars, walk>>

\* uthread_exit
Exit ==
  /\ Running
  /\ SetState(current, "FINISHED")
  /\ UNCHANGED <<current, next, readyVars, waitVars, sleepHead, globalVars, walk>>

-----------------------------------------------------------------------------
(* The scheduler. *)

\* round_robin_next: dequeue
Dequeue ==
  /\ Dispatching /\ readyHead # Null
  /\ current' = readyHead
  /\ SetState(readyHead, "RUNNING")
  /\ readyHead' = next[readyHead]
  /\ readyTail' = IF next[readyHead] = Null THEN Null ELSE readyTail
  /\ next' = [next EXCEPT ![readyHead] = Null]
  /\ readyCount' = readyCount - 1
  /\ UNCHANGED <<waitVars, sleepHead, globalVars, walk>>

Begin(loop, first, target) ==
  /\ walk.loop = "none"
  /\ walk' = [loop |-> loop, prev |-> Null, cur |-> first, target |-> target]
  /\ UNCHANGED <<state, current, next, readyVars, waitVars, sleepHead, globalVars>>

At(loop) == walk.loop = loop /\ walk.cur # Null

\* priority_next has chosen t and calls remove_from_ready_queue.
RemoveBegin(t) == Dispatching /\ state[t] = "READY" /\ Begin("remove", readyHead, t)

RemoveStep ==
  /\ At("remove") /\ walk.cur # walk.target
  /\ walk' = [walk EXCEPT !.prev = walk.cur, !.cur = next[walk.cur]]
  /\ UNCHANGED <<state, current, next, readyVars, waitVars, sleepHead, globalVars>>

\* Variant: ready_count is not decremented.
RemoveFoundUncounted ==
  /\ At("remove") /\ walk.cur = walk.target
  /\ next' = [u \in Thread |-> IF u = walk.cur THEN Null
                ELSE IF u = walk.prev THEN next[walk.cur] ELSE next[u]]
  /\ readyHead' = IF walk.prev = Null THEN next[walk.cur] ELSE readyHead
  /\ readyTail' = IF walk.cur = readyTail THEN walk.prev ELSE readyTail
  /\ current' = walk.cur
  /\ SetState(walk.cur, "RUNNING")
  /\ walk' = NoWalk
  /\ UNCHANGED <<readyCount, waitVars, sleepHead, globalVars>>

\* The target is unlinked and dispatched.
RemoveFound ==
  /\ At("remove") /\ walk.cur = walk.target
  /\ next' = [u \in Thread |-> IF u = walk.cur THEN Null
                ELSE IF u = walk.prev THEN next[walk.cur] ELSE next[u]]
  /\ readyHead' = IF walk.prev = Null THEN next[walk.cur] ELSE readyHead
  /\ readyTail' = IF walk.cur = readyTail THEN walk.prev ELSE readyTail
  /\ readyCount' = readyCount - 1
  /\ current' = walk.cur
  /\ SetState(walk.cur, "RUNNING")
  /\ walk' = NoWalk
  /\ UNCHANGED <<waitVars, sleepHead, globalVars>>

\* check_sleep_list, from a yield, an exit or an idle loop
SleepersBegin == Begin("sleepers", sleepHead, Null)

SleepersStep ==
  /\ At("sleepers")
  /\ LET c == walk.cur IN
     \/ /\ sleepHead' = IF walk.prev = Null THEN next[c] ELSE sleepHead
        /\ Enqueue([u \in Thread |-> IF u = c THEN Null
                      ELSE IF u = walk.prev THEN next[c] ELSE next[u]], c)
        /\ SetState(c, "READY")
        /\ walk' = [walk EXCEPT !.cur = next[c]]
     \/ /\ walk' = [walk EXCEPT !.prev = c, !.cur = next[c]]
        /\ UNCHANGED <<state, next, readyVars, sleepHead>>
  /\ UNCHANGED <<current, waitVars, globalVars>>

\* gc_finished_threads, from a yield or a create
GcBegin == Begin("gc", globalHead, Null)

GcStep ==
  /\ At("gc")
  /\ walk' = [walk EXCEPT !.cur = globalNext[walk.cur]]
  /\ \/ /\ state[walk.cur] = "FINISHED" /\ walk.cur # current
        /\ GlobalRemove(walk.cur)
        /\ SetState(walk.cur, "NONE")
     \/ /\ state[walk.cur] # "FINISHED" \/ walk.cur = current
        /\ UNCHANGED <<state, globalVars>>
  /\ UNCHANGED <<current, next, readyVars, waitVars, sleepHead>>

WalkEnd ==
  /\ walk.loop # "none" /\ walk.cur = Null
  /\ walk' = NoWalk
  /\ UNCHANGED <<state, current, next, readyVars, waitVars, sleepHead, globalVars>>

ListNext ==
  \/ Requeue \/ Block \/ Unblock \/ Sleep \/ Exit
  \/ Dequeue \/ RemoveStep \/ RemoveFound
  \/ SleepersBegin \/ SleepersStep \/ GcBegin \/ GcStep \/ WalkEnd
  \/ \E t \in Thread : Create(t) \/ RemoveBegin(t)

ListSpec == Init /\ [][ListNext]_listVars

-----------------------------------------------------------------------------
(***************************************************************************)
(* Correctness.                                                            *)
(***************************************************************************)

\* The sequence of the TCBs from head along the links.
Follow(head, link) ==
  LET at[i \in 1 .. Cardinality(Thread)] ==
        IF i = 1 THEN head
        ELSE IF at[i - 1] = Null THEN Null ELSE link[at[i - 1]]
  IN  [i \in 1 .. Cardinality({j \in DOMAIN at : at[j] # Null}) |-> at[i]]

Ready == Follow(readyHead, next)

Queues == INSTANCE ThreadQueues WITH
  ready <- Ready,
  waiting <- Follow(waitHead, next),
  sleeping <- Follow(sleepHead, next),
  threads <- Range(Follow(globalHead, globalNext))

\* Every operation on the pointers is the one meant on queues: nothing is lost,
\* doubled or taken over by another list although all share one next field, and
\* although loops unlink and relink the elements they stand on.
QueuesImplemented == Queues!Spec

\* ready_count and the tails, which later calls rely on, agree with the links.
ReadyCounted ==
  /\ readyCount = Cardinality(DOMAIN Ready)
  /\ readyTail = IF readyCount = 0 THEN Null ELSE Ready[readyCount]

\* The two directions of the global list agree, and it holds every TCB: none
\* is leaked by a removal and none is kept after it was freed.
GlobalLinked ==
  /\ \A t \in Range(Follow(globalHead, globalNext)) :
       /\ globalPrev[t] = Null <=> t = globalHead
       /\ globalPrev[t] # Null => globalNext[globalPrev[t]] = t
  /\ Range(Follow(globalHead, globalNext)) = {t \in Thread : state[t] # "NONE"}

=============================================================================
