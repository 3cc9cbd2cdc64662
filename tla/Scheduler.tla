----------------------------- MODULE Scheduler -----------------------------
(***************************************************************************)
(* The single-core (1:N) scheduler of src/uthread.c: thread life cycle,    *)
(* ready queue, pluggable policy, preemption timer, sleep list, epoll      *)
(* registrations, garbage collection and the idle loop.                    *)
(*                                                                         *)
(* SIGALRM is masked for the whole of every API call except the idle loop  *)
(* of uthread_yield and uthread_exit, which opens the mask once per turn.  *)
(* So an API call is one atomic action, and an alarm is an action that may *)
(* happen wherever the mask is open: in user code and in the idle loop.    *)
(*                                                                         *)
(* The definitions marked "variant" are single-fault versions of the       *)
(* definition that follows them; no specification uses them.               *)
(***************************************************************************)
EXTENDS Integers, SequencesExt

CONSTANTS
  MaxThreads,   \* bound on next_thread_id: the ids are 0..MaxThreads
  Priorities,   \* the priorities that callers pass
  Policies,     \* the scheduler_fn values that callers install
  MaxNest       \* bound on the idle loops stacked on one thread's stack

Main == 0
Thread == 0 .. MaxThreads
AllPolicies == {"round_robin", "priority", "custom"}

ASSUME SchedulerAssumption ==
  /\ MaxThreads \in Nat
  /\ MaxNest \in Nat \ {0}
  /\ Priorities \subseteq Int
  /\ Policies \subseteq AllPolicies

VARIABLES
  state,    \* tcb->state; "NONE": the id has no TCB on global_thread_list
  cur,      \* current_thread
  ready,    \* ready_head .. ready_tail
  idle,     \* how many idle loops are active on each thread's stack
  prio,     \* tcb->priority
  policy,   \* current_scheduler
  nextId,   \* next_thread_id, equal to creation_counter in this mode
  asleep,   \* sleep_list_head ..
  watch,    \* the TCBs registered with epoll_fd
  due,      \* parked threads whose deadline passed or whose fd has an event
  epollOk,  \* epoll_fd >= 0
  exited    \* the process called exit(0)

vars == <<state, cur, ready, idle, prio, policy, nextId, asleep, watch, due,
          epollOk, exited>>

States == {"NONE", "READY", "RUNNING", "BLOCKED", "IO_BLOCKED", "FINISHED"}

Init ==
  /\ state = [t \in Thread |-> IF t = Main THEN "RUNNING" ELSE "NONE"]
  /\ cur = Main
  /\ ready = <<>>
  /\ idle = [t \in Thread |-> 0]
  /\ prio = [t \in Thread |-> 0]
  /\ policy = "round_robin"
  /\ nextId = 1
  /\ asleep = {} /\ watch = {} /\ due = {}
  /\ epollOk \in BOOLEAN
  /\ exited = FALSE

-----------------------------------------------------------------------------
(***************************************************************************)
(* Helpers of the scheduler.  st, sl, wt and du stand for state, asleep,   *)
(* watch and due as the caller has already changed them.                   *)
(***************************************************************************)

\* Variant: a thread leaves the idle loop by itself.
UserModeAlways == ~exited

\* The current thread is in its own code, not in the idle loop.
UserMode == ~exited /\ idle[cur] = 0

Live(st) == {t \in Thread : st[t] \notin {"NONE", "FINISHED"}}

\* Variant: the running thread's stack is freed too.
ReapCurrentToo(st) ==
  [t \in Thread |-> IF st[t] = "FINISHED" THEN "NONE" ELSE st[t]]

\* gc_finished_threads
Reap(st) ==
  [t \in Thread |-> IF st[t] = "FINISHED" /\ t # cur THEN "NONE" ELSE st[t]]

\* Variant: every thread that waits for a descriptor is woken.
IoDueAny(st, wt, du) == {t \in wt : st[t] = "IO_BLOCKED"}

\* Variant: only the sleep list is polled.
IoDueNever(st, wt, du) == {}

\* check_io_events: only a thread that still waits for its fd is woken.
IoDue(st, wt, du) == {t \in du \cap wt : st[t] = "IO_BLOCKED"}

\* check_sleep_list
SleepDue(sl, du) == sl \cap du

AfterPoll(st, sl, wt, du) ==
  [t \in Thread |->
     IF t \in IoDue(st, wt, du) \cup SleepDue(sl, du) THEN "READY" ELSE st[t]]

\* Events come first, then sleepers; the order within each is left open.
WakeOrders(st, sl, wt, du) ==
  {io \o ex : io \in SetToSeqs(IoDue(st, wt, du)),
              ex \in SetToSeqs(SleepDue(sl, du))}

\* Variant: a woken sleeper stays on the sleep list.
PollListsKeep(st, sl, wt, du) ==
  /\ asleep' = sl
  /\ watch' = wt \ IoDue(st, wt, du)
  /\ due' = {}

\* An event reported for a thread that no longer waits is consumed.
PollLists(st, sl, wt, du) ==
  /\ asleep' = sl \ SleepDue(sl, du)
  /\ watch' = wt \ IoDue(st, wt, du)
  /\ due' = {}

\* Variant: the comparison of priorities is inverted.
BeforeInverted(t, u) ==
  \/ prio[t] > prio[u]
  \/ prio[t] = prio[u] /\ t < u

\* creation_order is the thread id in this mode.
Before(t, u) ==
  \/ prio[t] < prio[u]
  \/ prio[t] = prio[u] /\ t < u

\* Variant: last in, first out.
RoundRobinNewest(q) == {Len(q)}

\* A policy yields a set of positions of the ready queue; 0 is NULL.
RoundRobinNext(q) == IF q = <<>> THEN {0} ELSE {1}

PriorityNext(st, q) ==
  LET candidates == {i \in DOMAIN q : st[q[i]] = "READY"}
  IN  IF candidates = {} THEN {0}
      ELSE {i \in candidates : \A j \in candidates : ~Before(q[j], q[i])}

\* "custom" wraps round_robin_next and may decline by returning NULL.
ScheduleNext(st, q) ==
  CASE policy = "round_robin" -> RoundRobinNext(q)
    [] policy = "priority"    -> PriorityNext(st, q)
    [] OTHER                  -> {0} \cup RoundRobinNext(q)

\* Variant: the next thread is not marked.
SwitchToUnmarked(st, q, i) ==
  /\ cur' = q[i]
  /\ state' = st
  /\ ready' = RemoveAt(q, i)

\* current_thread = next, RUNNING, swapcontext.
SwitchTo(st, q, i) ==
  /\ cur' = q[i]
  /\ state' = [st EXCEPT ![q[i]] = "RUNNING"]
  /\ ready' = RemoveAt(q, i)

CanIdle(st) == Live(st) # {} /\ epollOk

(***************************************************************************)
(* From schedule_next to swapcontext.  A NULL choice lets a READY caller   *)
(* go on; any other caller enters the idle loop when some thread is live,  *)
(* and otherwise ends the process, which leaves the states atExit.         *)
(***************************************************************************)
Dispatch(st, q, atExit) ==
  \E i \in ScheduleNext(st, q) :
    \/ /\ i # 0
       /\ SwitchTo(st, q, i)
       /\ UNCHANGED <<idle, exited>>
    \/ /\ i = 0 /\ st[cur] = "READY"
       /\ \E k \in DOMAIN q : q[k] = cur /\ SwitchTo(st, q, k)
       /\ UNCHANGED <<idle, exited>>
    \/ /\ i = 0 /\ st[cur] # "READY" /\ CanIdle(st)
       /\ idle' = [idle EXCEPT ![cur] = @ + 1]
       /\ state' = st /\ ready' = q
       /\ UNCHANGED <<cur, exited>>
    \/ /\ i = 0 /\ st[cur] # "READY" /\ ~CanIdle(st)
       /\ exited' = TRUE
       /\ state' = atExit /\ ready' = q
       /\ UNCHANGED <<cur, idle>>

\* Variant: the caller is queued whatever its state.
RequeuesAlways(st) == TRUE

\* Variant: the caller is never queued.
RequeuesNever(st) == FALSE

Requeues(st) == st[cur] = "RUNNING"

\* uthread_yield in 1:N mode, called with st, sl, wt and du.
YieldFrom(st, sl, wt, du) ==
  LET reaped == Reap(st)
      polled == AfterPoll(reaped, sl, wt, du)
      queued == [t \in Thread |-> IF t = cur /\ Requeues(polled)
                                  THEN "READY" ELSE polled[t]]
      self   == IF Requeues(polled) THEN <<cur>> ELSE <<>>
  IN  /\ PollLists(reaped, sl, wt, du)
      /\ \E woken \in WakeOrders(reaped, sl, wt, du) :
           Dispatch(queued, ready \o woken \o self, queued)

-----------------------------------------------------------------------------
(***************************************************************************)
(* API calls of the running thread.                                        *)
(***************************************************************************)

\* uthread_create_with_priority
Create(p) ==
  /\ UserMode
  /\ nextId <= MaxThreads
  /\ state' = [Reap(state) EXCEPT ![nextId] = "READY"]
  /\ ready' = Append(ready, nextId)
  /\ prio' = [prio EXCEPT ![nextId] = p]
  /\ nextId' = nextId + 1
  /\ UNCHANGED <<cur, idle, policy, asleep, watch, due, epollOk, exited>>

\* calloc fails before the id is taken, mmap or mprotect after it.
CreateFails ==
  /\ UserMode
  /\ state' = Reap(state)
  /\ \/ UNCHANGED nextId
     \/ nextId <= MaxThreads /\ nextId' = nextId + 1
  /\ UNCHANGED <<cur, ready, idle, prio, policy, asleep, watch, due, epollOk,
                 exited>>

\* uthread_yield called by user code
Yield ==
  /\ UserMode
  /\ YieldFrom(state, asleep, watch, due)
  /\ UNCHANGED <<prio, policy, nextId, epollOk>>

\* uthread_exit: unlike yield it reclaims nothing before it dispatches.
Exit ==
  /\ UserMode
  /\ LET fin    == [state EXCEPT ![cur] = "FINISHED"]
         polled == AfterPoll(fin, asleep, watch, due)
     IN  /\ PollLists(fin, asleep, watch, due)
         /\ \E woken \in WakeOrders(fin, asleep, watch, due) :
              Dispatch(polled, ready \o woken, Reap(polled))
  /\ UNCHANGED <<prio, policy, nextId, epollOk>>

\* uthread_sleep; the deadline may have passed by the time of the poll.
Sleep ==
  /\ UserMode
  /\ \E late \in SUBSET {cur} :
       YieldFrom([state EXCEPT ![cur] = "IO_BLOCKED"],
                 asleep \cup {cur}, watch, due \cup late)
  /\ UNCHANGED <<prio, policy, nextId, epollOk>>

\* The masked part of uthread_read and uthread_write.  epoll_ctl may refuse
\* the fd (registered = FALSE), and an accepted fd may already have an event.
IoWait(registered) ==
  /\ UserMode
  /\ registered => epollOk
  /\ LET added == IF registered THEN {cur} ELSE {}
     IN  \E early \in SUBSET added :
           YieldFrom([state EXCEPT ![cur] = "IO_BLOCKED"],
                     asleep, watch \cup added, due \cup early)
  /\ UNCHANGED <<prio, policy, nextId, epollOk>>

\* uthread_set_scheduler
SetScheduler(p) ==
  /\ UserMode
  /\ policy' = p
  /\ UNCHANGED <<state, cur, ready, idle, prio, nextId, asleep, watch, due,
                 epollOk, exited>>

NonExitStep ==
  \/ \E p \in Priorities : Create(p)
  \/ CreateFails
  \/ Yield
  \/ Sleep
  \/ \E registered \in BOOLEAN : IoWait(registered)
  \/ \E p \in Policies : SetScheduler(p)

UserStep == NonExitStep \/ Exit

-----------------------------------------------------------------------------
(***************************************************************************)
(* Steps that no thread asks for.                                          *)
(***************************************************************************)

\* alrm_handler on the stack of the running thread.
Alarm ==
  /\ ~exited
  /\ idle[cur] < MaxNest
  /\ YieldFrom(state, asleep, watch, due)
  /\ UNCHANGED <<prio, policy, nextId, epollOk>>

\* One turn of the innermost idle loop.  When it finds a thread the loop ends
\* and prev is left as it is, in whatever state it has by now.
IdlePoll ==
  /\ ~exited
  /\ idle[cur] > 0
  /\ PollLists(state, asleep, watch, due)
  /\ LET polled == AfterPoll(state, asleep, watch, due)
     IN  \E woken \in WakeOrders(state, asleep, watch, due) :
         \E i \in ScheduleNext(polled, ready \o woken) :
           \/ /\ i # 0
              /\ SwitchTo(polled, ready \o woken, i)
              /\ idle' = [idle EXCEPT ![cur] = @ - 1]
           \/ /\ i = 0
              /\ state' = polled /\ ready' = ready \o woken
              /\ UNCHANGED <<cur, idle>>
  /\ UNCHANGED <<prio, policy, nextId, epollOk, exited>>

\* The clock passes the deadline of a sleeper, or its fd gets an event.
Expire(t) ==
  /\ ~exited
  /\ t \in (asleep \cup watch) \ due
  /\ due' = due \cup {t}
  /\ UNCHANGED <<state, cur, ready, idle, prio, policy, nextId, asleep, watch,
                 epollOk, exited>>

SystemStep ==
  \/ Alarm
  \/ IdlePoll
  \/ \E t \in Thread : Expire(t)

\* The process is gone.
Terminated == exited /\ UNCHANGED vars

Next == UserStep \/ SystemStep \/ Terminated

Spec == Init /\ [][Next]_vars

(***************************************************************************)
(* The timer is periodic (ITIMER_REAL, 10 ms) and the idle loop opens the  *)
(* mask each turn, so alarms keep arriving; the idle loop keeps turning;   *)
(* the clock passes every deadline.  No user step is assumed, nor that any *)
(* fd gets data.                                                           *)
(***************************************************************************)
Fairness ==
  /\ WF_vars(Alarm)
  /\ WF_vars(IdlePoll)
  /\ \A t \in Thread : WF_vars(t \in asleep /\ Expire(t))

FairSpec == Spec /\ Fairness

-----------------------------------------------------------------------------
(***************************************************************************)
(* Correctness.                                                            *)
(***************************************************************************)

TypeOK ==
  /\ state \in [Thread -> States]
  /\ cur \in Thread
  /\ ready \in Seq(Thread)
  /\ idle \in [Thread -> 0 .. MaxNest]
  /\ prio \in [Thread -> Int]
  /\ policy \in AllPolicies
  /\ nextId \in 1 .. MaxThreads + 1
  /\ asleep \subseteq Thread
  /\ watch \subseteq Thread
  /\ due \subseteq Thread
  /\ epollOk \in BOOLEAN
  /\ exited \in BOOLEAN

\* q lists the threads that are READY in st, each once.
Listed(st, q) ==
  /\ IsInjective(q)
  /\ \A t \in Thread : st[t] = "READY" <=> t \in Range(q)

\* The intrusive ready list holds exactly the READY threads, each once: a TCB
\* linked twice would cut the list at its single next pointer.
ReadyListed == Listed(state, ready)

\* The threads of sl and wt are IO_BLOCKED, and only they can be due.
Parked(st, sl, wt, du) ==
  /\ sl \cap wt = {}
  /\ \A t \in sl \cup wt : st[t] = "IO_BLOCKED"
  /\ du \subseteq sl \cup wt

\* The sleep list shares the next pointer with the ready list, and epoll keeps
\* a raw TCB pointer: a thread on either is IO_BLOCKED (so neither ready nor
\* reclaimed), is on one of them only, and nothing else can become due.
ParkedSound == Parked(state, asleep, watch, due)

\* However alarms nest and whichever stack a wake-up is consumed on, code of a
\* user thread runs only with that thread marked RUNNING, so that the next
\* yield queues it again.
UserRuns == UserMode => state[cur] = "RUNNING"

\* gc_finished_threads never unmaps the stack the processor stands on, not
\* even from an alarm that lands in the idle loop of uthread_exit.
CurrentKept == state[cur] # "NONE"

\* A thread id is not in use before next_thread_id has passed it.
Fresh == \A t \in Thread : t >= nextId => state[t] = "NONE"

\* RUNNING is the state of the one thread that executes.  It fails once an
\* alarm has landed in an idle loop: see RunningUnlessNested of AsyncIO.
RunningIsCurrent == \A t \in Thread : state[t] = "RUNNING" => t = cur

LifeCycle ==
  {<<"NONE", "READY">>, <<"READY", "RUNNING">>, <<"RUNNING", "READY">>,
   <<"RUNNING", "BLOCKED">>, <<"BLOCKED", "READY">>,
   <<"RUNNING", "IO_BLOCKED">>, <<"IO_BLOCKED", "READY">>,
   <<"IO_BLOCKED", "RUNNING">>, <<"RUNNING", "FINISHED">>,
   <<"FINISHED", "NONE">>}

\* One call moves a thread at most along one edge of its life cycle (a parked
\* thread may be woken and dispatched by the same poll); a finished thread is
\* never queued again, and nothing but a thread's own call stops it.
FollowsLifeCycle ==
  [][\A t \in Thread :
       state'[t] # state[t] =>
         /\ <<state[t], state'[t]>> \in LifeCycle
         /\ state[t] = "RUNNING" => t = cur]_vars

\* Under the priority policy a switch leaves no better thread on the ready
\* queue, those that the same call woke or queued included: none of a smaller
\* priority value, and none of the same value that is older.
BestDispatched ==
  [][policy = "priority" /\ cur' # cur =>
       \A t \in Range(ready') :
         /\ prio[cur'] <= prio[t]
         /\ prio[cur'] = prio[t] => cur' < t]_vars

\* Under round robin a queued thread runs in the end, whatever the others do:
\* the alarm takes the processor from a thread that never yields.
ReadyRuns ==
  \A t \in Thread : state[t] = "READY" ~> state[t] = "RUNNING" \/ exited

\* A parked thread that is due gets back to its own code.
DueReturns ==
  \A t \in Thread : t \in due ~> (cur = t /\ UserMode) \/ exited

=============================================================================
