----------------------------- MODULE WorkSteal -----------------------------
(***************************************************************************)
(* The M:N runtime of src/uthread.c: virtual processors (one pthread each) *)
(* with local run queues, the global ready queue, stealing, the detection  *)
(* of termination, and uthread_mn_run around it.  There is no timer and no *)
(* signal mask in this mode; the processors interleave between any two     *)
(* critical sections of a spinlock.                                        *)
(*                                                                         *)
(* A critical section is one action: what it reads and writes is guarded   *)
(* by its lock.  Marking a thread and leaving its stack are not in any     *)
(* critical section and are actions of their own.                          *)
(***************************************************************************)
EXTENDS Integers, FiniteSets, SequencesExt

CONSTANTS
  NumVPs,        \* num_vps
  MaxThreads,    \* bound on next_thread_id: the ids are 0..MaxThreads - 1
  CreateInRun,   \* whether threads create threads, or only main before mn_run
  Parking        \* whether threads call uthread_sleep, _read or _write

VP == 0 .. NumVPs - 1
Thread == 0 .. MaxThreads - 1
NoThread == -1

ASSUME WorkStealAssumption ==
  /\ NumVPs \in Nat \ {0}
  /\ MaxThreads \in Nat
  /\ CreateInRun \in BOOLEAN
  /\ Parking \in BOOLEAN

VARIABLES
  state,     \* tcb->state; "NONE": not on global_thread_list
  saved,     \* tcb->context is the state in which the thread is to go on
  nextId,    \* next_thread_id
  ready,     \* ready_head .. ready_tail
  local,     \* vps[v].local_head .. local_tail
  cur,       \* current_thread of the pthread of each processor
  pc,        \* where each processor is
  hand,      \* the TCB that the code of each processor is about to use
  untried,   \* the victims try_steal has not looked at yet
  running,   \* vps[v].running
  returned   \* uthread_mn_run has returned

vars == <<state, saved, nextId, ready, local, cur, pc, hand, untried, running,
          returned>>

ThreadStates == {"NONE", "READY", "RUNNING", "IO_BLOCKED", "FINISHED"}

\* In the scheduler's code, and on the stack of the thread cur[v].
LoopPC == {"top", "global", "steal", "scan", "dispatch"}
StackPC == {"user", "add", "push", "return", "requeue", "switch", "leave"}

OnStack(v) == pc[v] \in StackPC

\* uthread_init_mn.  Main then creates threads, and calls uthread_mn_run.
Init ==
  /\ state = [t \in Thread |-> "NONE"]
  /\ saved = [t \in Thread |-> FALSE]
  /\ nextId = 0
  /\ ready = <<>>
  /\ local = [v \in VP |-> <<>>]
  /\ cur = [v \in VP |-> NoThread]
  /\ pc = [v \in VP |-> "main"]
  /\ hand = [v \in VP |-> NoThread]
  /\ untried = [v \in VP |-> {}]
  /\ running = [v \in VP |-> TRUE]
  /\ returned = FALSE

Goto(v, label) == pc' = [pc EXCEPT ![v] = label]

-----------------------------------------------------------------------------
(***************************************************************************)
(* Main.                                                                   *)
(***************************************************************************)

\* uthread_create before uthread_mn_run; nothing runs beside it.  A failure of
\* mmap leaves an id unused.
MainCreate ==
  /\ pc[0] = "main"
  /\ nextId < MaxThreads
  /\ nextId' = nextId + 1
  /\ \/ /\ state' = [state EXCEPT ![nextId] = "READY"]
        /\ saved' = [saved EXCEPT ![nextId] = TRUE]
        /\ ready' = Append(ready, nextId)
     \/ UNCHANGED <<state, saved, ready>>
  /\ UNCHANGED <<local, cur, pc, hand, untried, running, returned>>

\* uthread_mn_run: pthread_create for each other processor, then vp_loop.
MnRun ==
  /\ pc[0] = "main"
  /\ pc' = [v \in VP |-> "top"]
  /\ UNCHANGED <<state, saved, nextId, ready, local, cur, hand, untried,
                 running, returned>>

\* Main's loop is over: it stops and joins the others in turn.
StopVP(v) ==
  /\ pc[0] = "done" /\ running[v] /\ v # 0
  /\ \A w \in 1 .. v - 1 : pc[w] = "done" /\ ~running[w]
  /\ running' = [running EXCEPT ![v] = FALSE]
  /\ UNCHANGED <<state, saved, nextId, ready, local, cur, pc, hand, untried,
                 returned>>

\* gc_finished_threads, called on the pthread of v
Reap(v) ==
  [t \in Thread |->
     IF state[t] = "FINISHED" /\ t # cur[v] THEN "NONE" ELSE state[t]]

\* The last join, and the garbage collection after it.
MnReturn ==
  /\ \A v \in VP : pc[v] = "done" /\ (v = 0 \/ ~running[v])
  /\ ~returned
  /\ state' = Reap(0)
  /\ returned' = TRUE
  /\ UNCHANGED <<saved, nextId, ready, local, cur, pc, hand, untried, running>>

-----------------------------------------------------------------------------
(***************************************************************************)
(* vp_loop.                                                                *)
(***************************************************************************)

\* vp_dequeue of the own queue, or the end of the loop.
TakeLocal(v) ==
  /\ pc[v] = "top"
  /\ \/ /\ ~running[v]
        /\ Goto(v, "done")
        /\ UNCHANGED <<local, hand>>
     \/ /\ running[v] /\ local[v] # <<>>
        /\ hand' = [hand EXCEPT ![v] = Head(local[v])]
        /\ local' = [local EXCEPT ![v] = Tail(@)]
        /\ Goto(v, "dispatch")
     \/ /\ running[v] /\ local[v] = <<>>
        /\ Goto(v, "global")
        /\ UNCHANGED <<local, hand>>
  /\ UNCHANGED <<state, saved, nextId, ready, cur, untried, running, returned>>

\* dequeue of the global ready queue under ready_lock
TakeGlobal(v) ==
  /\ pc[v] = "global"
  /\ \/ /\ ready # <<>>
        /\ hand' = [hand EXCEPT ![v] = Head(ready)]
        /\ ready' = Tail(ready)
        /\ Goto(v, "dispatch")
        /\ UNCHANGED untried
     \/ /\ ready = <<>>
        /\ untried' = [untried EXCEPT ![v] = VP \ {v}]
        /\ Goto(v, IF NumVPs = 1 THEN "scan" ELSE "steal")
        /\ UNCHANGED <<ready, hand>>
  /\ UNCHANGED <<state, saved, nextId, local, cur, running, returned>>

\* Variant: half of the victim's queue, rounded up.
StealCountUp(q) == (Len(q) + 1) \div 2

\* Nothing from a queue of one: its thread may still be on its old stack.
StealCount(q) == IF Len(q) <= 1 THEN 0 ELSE Len(q) \div 2

\* Variant: the result of try_steal is not tested for NULL.
AfterVictimUnchecked(v, w, n) ==
  IF n > 0 \/ untried[v] = {w} THEN "dispatch" ELSE "steal"

\* Where v goes on when it has got n threads from w.
AfterVictim(v, w, n) ==
  IF n > 0 THEN "dispatch" ELSE IF untried[v] = {w} THEN "scan" ELSE "steal"

(***************************************************************************)
(* One victim of try_steal.  The code moves the stolen threads in three    *)
(* critical sections (take, link, vp_dequeue); they are one action here,   *)
(* since in this program there never is anything to take: see              *)
(* NothingToSteal.                                                         *)
(***************************************************************************)
TrySteal(v, w) ==
  /\ pc[v] = "steal"
  /\ w \in untried[v]
  /\ LET n      == StealCount(local[w])
         stolen == SubSeq(local[w], 1, n)
     IN  /\ local' = [local EXCEPT ![w] = SubSeq(@, n + 1, Len(@)),
                                   ![v] = @ \o SubSeq(stolen, 2, n)]
         /\ hand' = [hand EXCEPT ![v] = IF n > 0 THEN stolen[1] ELSE NoThread]
         /\ untried' = [untried EXCEPT ![v] = @ \ {w}]
         /\ Goto(v, AfterVictim(v, w, n))
  /\ UNCHANGED <<state, saved, nextId, ready, cur, running, returned>>

\* Variant: only queued and running threads count as alive.
AliveReady == \E t \in Thread : state[t] = "READY"

\* Variant: a thread counts as alive until it is reclaimed.
AliveListed == \E t \in Thread : state[t] # "NONE"

\* The scan of global_thread_list.  FINISHED is final and the lock keeps new
\* threads out, so the scan agrees with one instant of its duration.
Alive == \E t \in Thread : state[t] \notin {"NONE", "FINISHED"}

\* The last look round: go on after usleep(50), or end the loop.
Scan(v) ==
  /\ pc[v] = "scan"
  /\ Goto(v, IF Alive THEN "top" ELSE "done")
  /\ UNCHANGED <<state, saved, nextId, ready, local, cur, hand, untried,
                 running, returned>>

\* current_thread = next, RUNNING, swapcontext to it.
Dispatch(v) ==
  /\ pc[v] = "dispatch"
  /\ cur' = [cur EXCEPT ![v] = hand[v]]
  /\ hand' = [hand EXCEPT ![v] = NoThread]
  /\ state' = [state EXCEPT ![hand[v]] = "RUNNING"]
  /\ saved' = [saved EXCEPT ![hand[v]] = FALSE]
  /\ Goto(v, "user")
  /\ UNCHANGED <<nextId, ready, local, untried, running, returned>>

LoopStep(v) ==
  \/ TakeLocal(v) \/ TakeGlobal(v) \/ Scan(v) \/ Dispatch(v)
  \/ \E w \in VP : TrySteal(v, w)

-----------------------------------------------------------------------------
(***************************************************************************)
(* The thread on processor v.                                              *)
(***************************************************************************)

\* uthread_create: the collection, then the id; calloc or mmap may fail.
CreateBegin(v) ==
  /\ CreateInRun
  /\ pc[v] = "user"
  /\ state' = Reap(v)
  /\ \/ UNCHANGED <<nextId, hand, saved, pc>>
     \/ /\ nextId < MaxThreads
        /\ nextId' = nextId + 1
        /\ UNCHANGED <<hand, saved, pc>>
     \/ /\ nextId < MaxThreads
        /\ nextId' = nextId + 1
        /\ hand' = [hand EXCEPT ![v] = nextId]
        /\ saved' = [saved EXCEPT ![nextId] = TRUE]
        /\ Goto(v, "add")
  /\ UNCHANGED <<ready, local, cur, untried, running, returned>>

\* global_list_add under global_list_lock
CreateAdd(v) ==
  /\ pc[v] = "add"
  /\ state' = [state EXCEPT ![hand[v]] = "READY"]
  /\ Goto(v, "push")
  /\ UNCHANGED <<saved, nextId, ready, local, cur, hand, untried, running,
                 returned>>

\* enqueue under ready_lock.  From now on others may run the thread.
CreatePush(v) ==
  /\ pc[v] = "push"
  /\ ready' = Append(ready, hand[v])
  /\ Goto(v, "return")
  /\ UNCHANGED <<state, saved, nextId, local, cur, hand, untried, running,
                 returned>>

\* return tcb->thread_id
CreateReturn(v) ==
  /\ pc[v] = "return"
  /\ hand' = [hand EXCEPT ![v] = NoThread]
  /\ Goto(v, "user")
  /\ UNCHANGED <<state, saved, nextId, ready, local, cur, untried, running,
                 returned>>

\* mn_yield, up to vp_enqueue
YieldMark(v) ==
  /\ pc[v] = "user"
  /\ state' = [state EXCEPT ![cur[v]] = "READY"]
  /\ Goto(v, "requeue")
  /\ UNCHANGED <<saved, nextId, ready, local, cur, hand, untried, running,
                 returned>>

\* vp_enqueue.  Others may take the thread from now on, if they look.
YieldQueue(v) ==
  /\ pc[v] = "requeue"
  /\ local' = [local EXCEPT ![v] = Append(@, cur[v])]
  /\ Goto(v, "switch")
  /\ UNCHANGED <<state, saved, nextId, ready, cur, hand, untried, running,
                 returned>>

\* Variant: mn_yield queues its caller whatever state it is in.
ParkQueued(v) ==
  /\ Parking
  /\ pc[v] = "user"
  /\ state' = [state EXCEPT ![cur[v]] = "IO_BLOCKED"]
  /\ Goto(v, "requeue")
  /\ UNCHANGED <<saved, nextId, ready, local, cur, hand, untried, running,
                 returned>>

\* uthread_sleep, or the masked part of uthread_read and uthread_write: the
\* thread is IO_BLOCKED, so mn_yield does not queue it.
Park(v) ==
  /\ Parking
  /\ pc[v] = "user"
  /\ state' = [state EXCEPT ![cur[v]] = "IO_BLOCKED"]
  /\ Goto(v, "switch")
  /\ UNCHANGED <<saved, nextId, ready, local, cur, hand, untried, running,
                 returned>>

\* swapcontext to vp_loop
Switch(v) ==
  /\ pc[v] = "switch"
  /\ saved' = [saved EXCEPT ![cur[v]] = TRUE]
  /\ Goto(v, "top")
  /\ UNCHANGED <<state, nextId, ready, local, cur, hand, untried, running,
                 returned>>

\* mn_exit, up to setcontext
ExitMark(v) ==
  /\ pc[v] = "user"
  /\ state' = [state EXCEPT ![cur[v]] = "FINISHED"]
  /\ Goto(v, "leave")
  /\ UNCHANGED <<saved, nextId, ready, local, cur, hand, untried, running,
                 returned>>

\* setcontext to vp_loop
Leave(v) ==
  /\ pc[v] = "leave"
  /\ Goto(v, "top")
  /\ UNCHANGED <<state, saved, nextId, ready, local, cur, hand, untried,
                 running, returned>>

CallStep(v) ==
  \/ CreateAdd(v) \/ CreatePush(v) \/ CreateReturn(v)
  \/ YieldQueue(v) \/ Switch(v) \/ Leave(v)

UserStep(v) == CreateBegin(v) \/ YieldMark(v) \/ Park(v) \/ ExitMark(v)

MainStep == MainCreate \/ MnRun \/ MnReturn \/ \E v \in VP : StopVP(v)

Returned == returned /\ UNCHANGED vars

Next ==
  \/ MainStep
  \/ \E v \in VP : LoopStep(v) \/ CallStep(v) \/ UserStep(v)
  \/ Returned

Spec == Init /\ [][Next]_vars

\* Each processor goes on inside the library, and main's calls are made.
Progress ==
  /\ WF_vars(MnRun \/ MnReturn \/ \E v \in VP : StopVP(v))
  /\ \A v \in VP : WF_vars(LoopStep(v) \/ CallStep(v))

\* Threads that compute for a while and exit, whatever they do in between and
\* wherever they run.
ExitingSpec ==
  Spec /\ Progress
       /\ \A t \in Thread : SF_vars(\E v \in VP : cur[v] = t /\ ExitMark(v))

-----------------------------------------------------------------------------
(***************************************************************************)
(* Correctness.                                                            *)
(***************************************************************************)

\* The rest of vp_loop relies on it: a thread is dispatched only if one was
\* found, and only a dispatched thread makes calls.
TypeOK ==
  /\ state \in [Thread -> ThreadStates]
  /\ saved \in [Thread -> BOOLEAN]
  /\ nextId \in 0 .. MaxThreads
  /\ ready \in Seq(Thread)
  /\ local \in [VP -> Seq(Thread)]
  /\ cur \in [VP -> Thread \cup {NoThread}]
  /\ pc \in [VP -> {"main", "done"} \cup LoopPC \cup StackPC]
  /\ hand \in [VP -> Thread \cup {NoThread}]
  /\ untried \in [VP -> SUBSET VP]
  /\ running \in [VP -> BOOLEAN]
  /\ returned \in BOOLEAN
  /\ \A v \in VP :
       /\ hand[v] # NoThread <=> pc[v] \in {"dispatch", "add", "push", "return"}
       /\ OnStack(v) => cur[v] # NoThread

\* The places from which t can be taken: queues and processors' hands.
Places(t) ==
  Cardinality({v \in VP : t \in Range(local[v])})
    + Cardinality({v \in VP : hand[v] = t /\ pc[v] # "return"})
    + Cardinality({q \in {ready} : t \in Range(q)})

\* t is being made by, or about to be queued by, some processor.
Adding(t) == \E v \in VP : pc[v] = "add" /\ hand[v] = t
Requeuing(t) == \E v \in VP : pc[v] = "requeue" /\ cur[v] = t

\* The READY threads are exactly those that some processor can still get at:
\* on one queue once, or in the hands of one processor, or on their way to the
\* queue.  No thread is lost between queues and none is handed out twice.
ReadyOnce ==
  /\ IsInjective(ready)
  /\ \A v \in VP : IsInjective(local[v])
  /\ \A t \in Thread :
       /\ Places(t) <= 1
       /\ Requeuing(t) => Places(t) = 0
       /\ state[t] = "READY" <=>
            (Places(t) = 1 /\ ~Adding(t)) \/ Requeuing(t)

\* No two processors stand on one stack.
OneProcessor ==
  \A v, w \in VP :
    OnStack(v) /\ OnStack(w) /\ cur[v] = cur[w] => v = w

\* A thread is resumed only from a context that has been saved: mn_yield
\* queues it before swapcontext, and still nobody takes it too early.
ContextSaved == \A v \in VP : pc[v] = "dispatch" => saved[hand[v]]

\* A local queue holds at most the one thread that yielded last: new and woken
\* threads go to the global queue, and the own queue is served first.  So
\* try_steal never finds a queue of two.
NothingToSteal == \A v \in VP : Len(local[v]) <= 1

\* A processor stops only when every thread has finished, although it looks
\* at the queues and at the thread list at different times.
StopsWhenDone ==
  \A v \in VP : pc[v] = "done" => ~Alive /\ \A w \in VP : hand[w] = NoThread

\* The stack under a processor's feet is not reclaimed.
StackKept == \A v \in VP : OnStack(v) => state[cur[v]] # "NONE"

\* "When a VP's queue is empty, it steals half from a victim" (467): a processor
\* that has nothing to run and looks at a victim with a queued thread takes one.
IdleSteals ==
  [][\A v, w \in VP :
       w \in untried[v] \ untried'[v] /\ local[w] # <<>> => hand'[v] # NoThread]_vars

\* If threads exit, uthread_mn_run returns; only threads that sleep or wait for
\* a descriptor keep it from that, and they keep no other thread from its end,
\* although each processor serves the thread that yielded last before the
\* threads that wait on the global queue.
Stuck ==
  /\ \E t \in Thread : state[t] = "IO_BLOCKED"
  /\ \A t \in Thread : state[t] \notin {"READY", "RUNNING"}

RunReturns == <>returned \/ <>[]Stuck

=============================================================================
