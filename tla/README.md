# Verification of the uthread library

TLA+ models of `src/src/uthread.c`, a user-space thread library for Linux: what
it promises, model-checked with TLC on small instances and, where it matters
most, proved with TLAPS for every value of the constants. Line numbers below are
those of `src/src/uthread.c` unless a file is named.

## 1. The system

The library runs in one of two modes.

* **1:N** (`uthread_init`). All threads share one processor. A 10 ms timer
  (`SIGALRM`) forces a `uthread_yield`. Every call on shared state masks
  `SIGALRM`, so that state needs no lock.
* **M:N** (`uthread_init_mn`, `uthread_mn_run`). Each virtual processor is a
  pthread with its own run queue, no timer, and work stealing. The queues have
  spinlocks.

### Inventory

| Part | State | Operations | Works with | What makes it correct |
|---|---|---|---|---|
| Single-core scheduler (764-882) | `current_thread`, ready list, `state`, `priority` and `creation_order` of each TCB, `current_scheduler`, global thread list | `uthread_init`, `_create`, `_yield`, `_exit`, `_set_scheduler`, alarm handler, idle loop, `gc_finished_threads` | everything | each thread on one list at a time and once; no READY thread lost; running stack never freed; exit only when done; no starvation under round robin |
| Sleep (1012-1026, 432-455) | `sleep_list_head`, `sleep_until_ns` | `uthread_sleep`, `check_sleep_list` | scheduler polls it | due sleepers leave the list and run again |
| Async I/O (1028-1072, 416-430) | `epoll_fd`, `io_fd`, `errno` | `uthread_read`, `uthread_write`, `check_io_events` | scheduler polls it, kernel | a waiter is registered, woken once and gets its data |
| Mutex (888-927) | `locked`, wait list | init, lock, unlock | blocks through `uthread_yield` | mutual exclusion, FIFO hand-off, no lost wake-up |
| Semaphore (933-972) | `count`, wait list | init, wait, post | as mutex | units conserved, nobody waits beside a free unit |
| Channel (978-1006) | buffer, `head`, `tail`, two semaphores, a mutex | init, send, recv | mutex and semaphore | bounded FIFO |
| M:N runtime (487-633, 1120-1179) | `vps[]`: local queue, lock, `current`, `running` | `vp_enqueue`, `vp_dequeue`, `try_steal`, `mn_yield`, `mn_exit`, `vp_loop` | replaces yield and exit | a thread runs on one processor at a time; termination only when all are finished |
| Trace recorder (140-193, 1078-1114) | `trace_buffer`, `trace_count`, `trace_enabled` | emit, enable, disable, dump | called everywhere | slots are written once; a dump reads whole events, even beside emitters |
| Intrusive lists (230-289) | `next`, `global_next`, `global_prev` | enqueue, dequeue, remove | all lists | pointer code implements queues |
| Stacks (299-351) | one mapping per thread | alloc, free, SIGSEGV handler | creation, gc | failure leaves the scheduler unchanged |
| Peterson demonstration (`demos/petersons/petersons.c`) | `flag`, `turn`, `counter`, `finished` | lock, unlock, worker, main | a client in 1:N mode | exclusion, bounded waiting, exact count |

### What is hard about it

* The **idle loop** (800-815, 851-866). When nothing is ready but some thread is
  live, `uthread_yield` and `uthread_exit` loop: poll, ask the policy, sleep
  100 us. The loop *unmasks* the alarm each turn. The handler then runs another
  `uthread_yield` on the same stack, which may start an idle loop of its own or
  consume the wake-up the outer loop waits for. The outer loop never looks at
  the state its thread has by then.
* **One `next` pointer** per TCB serves the ready list, all wait lists and the
  sleep list. A thread on two lists, or twice on one, cuts a list. Loops unlink
  the elements they stand on and relink them elsewhere through the same pointer.
* **Hand-off**: unlock and post pass the mutex or the unit to the first waiter
  and make it READY; the woken thread does not look again.
* **Channels** make five calls each, with the alarm open between any two.
* **I/O** tests `errno`, which the threads share, with the alarm open; the
  result of `epoll_ctl` is ignored; after the wake-up `read` is tried only once.
* **Reclaiming** runs in every yield and create, alarms in the idle loop of a
  finished thread included.
* Creation, stacks and epoll can **fail**.
* In M:N mode masking does nothing: the mutex and semaphore code is shared with
  1:N mode and has no lock of its own.
* Two steps of M:N mode announce a thread before it is ready for that:
  `mn_yield` queues its caller before `swapcontext` saves it, and `mn_exit` marks
  it FINISHED while it still stands on its stack. `uthread_create` reads the new
  TCB after others may have run and freed it.
* A virtual processor decides to **stop** from four looks at four structures at
  four times.
* The **trace buffer** is claimed with `fetch_add` and, when it is full, given
  back with `fetch_sub`, while others claim.

`PROJECT.json` lists each hazard with its line and the properties about it.

## 2. Modules

| Module | Content |
|---|---|
| `Scheduler` | the 1:N scheduler with sleep and the blocking part of I/O |
| `Sync` | mutex and semaphore, composed with all of `Scheduler` |
| `Channel` | the channel, composed with `Sync` and so with `Scheduler` |
| `BoundedFifo` | what a channel promises: a bounded FIFO queue |
| `AsyncIO` | `uthread_read` and `uthread_write` call by call, on `Scheduler`, with descriptors, `errno` and epoll |
| `Petersons` | the Peterson demonstration, a program on `Scheduler` |
| `WorkSteal` | the M:N runtime: virtual processors, queues, stealing, termination |
| `MNSync` | the mutex code as several virtual processors run it, on `WorkSteal` |
| `IntrusiveList` | the linked lists, pointer by pointer |
| `ThreadQueues` | what those lists promise: queues, a stack and a set |
| `Trace` | the trace recorder |
| `MCScheduler`, `MCSync`, `MCChannel`, `MCAsyncIO`, `MCPetersons`, `MCIntrusiveList` | values of constants for TLC; `WorkSteal`, `MNSync` and `Trace` need none |
| `QueueLemmas` | facts about sequences without repetition, with proofs |
| `SchedulerProofs`, `SyncProofs`, `AsyncIOProofs`, `PetersonsProofs`, `TraceProofs`, `WorkStealProofs`, `IntrusiveListProofs` | the inductive invariant of each module and the theorems; `SyncProofs`, which has the channel too, and `AsyncIOProofs` build on `SchedulerProofs` |

A definition commented as a *variant* is a faulty version of the one after it.
No specification uses it: the properties are checked to fail when it takes the
place of the original.

### Scheduler

| Variable | In the code |
|---|---|
| `state[t]` | `tcb->state`; `"NONE"` while the id has no TCB on the global list |
| `cur` | `current_thread` |
| `ready` | the list `ready_head .. ready_tail` as a sequence of ids |
| `idle[t]` | how many idle loops are active on the stack of `t` |
| `prio`, `policy`, `nextId` | `priority`, `current_scheduler`, `next_thread_id` |
| `asleep` | the threads on the sleep list |
| `watch` | the threads registered with epoll |
| `due` | those of the two whose deadline has passed or whose event has come |
| `epollOk`, `exited` | `epoll_fd >= 0`; the process has called `exit(0)` |

`SIGALRM` is masked from the first statement of an API call to its last, so each
call is one action: `Create`, `CreateFails`, `Yield`, `Exit`, `Sleep`, `IoWait`,
`SetScheduler`. The one place in between where the mask is open is the idle
loop. `Dispatch` therefore ends a call that finds nothing to run by adding one
to `idle[cur]`; from there on the stack's steps are `IdlePoll` (one turn: poll,
ask the policy, switch away or stay) and `Alarm` (`uthread_yield` on top of it).
A thread executes its own code when `idle[cur] = 0` (`UserMode`). When a thread
is switched away from and later back, it returns to the innermost frame of its
stack that is left: its own code, or an idle loop that an alarm had interrupted.
That is all of `idle` that the code's behaviour depends on.

`YieldFrom(st, sl, wt, du)` is `uthread_yield`, as called with states `st`,
sleep list `sl`, registrations `wt` and due threads `du`; blocking calls change
these first. It reclaims (`Reap`), polls (`AfterPoll`, `PollLists`), queues the
caller if it is RUNNING (`Requeues`) and dispatches, in the order of the code.

Abstractions, all of which only add behaviours:

* A deadline is the event `Expire(t)`, at any moment after the call; a deadline
  of 0 ms or an event that is already there is covered by the choice of `late`
  and `early` in `Sleep` and `IoWait`. The threads one poll wakes come in any
  order within each kind (the code walks the sleep list from its head and takes
  epoll's order); events come before sleepers, as in the code. A poll takes all
  events; the code takes up to 64.
* `IoWait(registered)` is the masked part of `uthread_read` and `uthread_write`.
  Whether `epoll_ctl` accepts the descriptor is open here; `AsyncIO` says when.
* A policy is `round_robin_next` (also for NULL), `priority_next`, or a user
  function that wraps `round_robin_next` and sometimes declines ("custom"). The
  last is what reaches lines 786-791.
* `creation_order` equals the thread id in this mode; ids are not reused.
* Stacks, contexts and traces are left out. `main` returning, which ends the
  process, is left out: the models describe programs that end by
  `uthread_exit`, as the tests do, or do not end.

### Sync

`locked`, `waiters` and `count` are the fields of the two structures. A call that
blocks appends to the wait list and goes through `YieldFrom` with the caller
BLOCKED (`BlockOn`); `HandOff` and `PassUnit` are what unlock and post do with the first
waiter. `called[t]` is the client's side of the contract: the mutexes on which
`t` has called lock and not unlock. The clients unlock only what they have
locked, do not lock twice and do not exit with a mutex; in between they do
everything `Scheduler` allows. `net` counts a semaphore's initial units and
posts less the waits that were called.

### Channel

`uthread_channel_send` and `_recv` do not mask the alarm themselves; each of the
five calls they make does. So one action stands for each call (`SendBegin` and
`RecvBegin` with the `sem_wait`, `ChannelLock`, `ChannelUnlock`, `Post`) and one
for each access to the ring between them (`Access`, `Advance`); an alarm may come
before any. `op`, `at` and `msg` are where each thread is and what it holds;
`buffer`, `head` and `tail` are the fields. The number of slots between head and
tail and the message that came out last are not in the code's state; the ghosts
`filled` and `taken` record them, and `FifoImplemented` maps them to
`BoundedFifo`: `Contents` is its queue, `taken` its last delivery. A message goes
in when `tail` passes it and comes out when `head` does.

The clients of the model are a program that uses one channel: outside of a
channel call (`OtherStep`) its threads do everything `Scheduler` allows, create,
yield, sleep, wait for I/O and exit. So a sender or receiver that blocks may idle
beside a sleeper, and a nested alarm may leave its idle loop for it.
`ChannelAssumption` asks for a capacity of at least 1. With capacity 0 both
semaphores start at 0, and below 0 `space_available` starts below 0: every call
blocks in its first step, for ever, so that the division by `capacity` (993) is
never reached.

### AsyncIO

A descriptor has `units[f]`: what there is to read, or room to write; the two
functions differ in nothing else. `uthread_read` is the sequence `Try` (the first
attempt, with the alarm open), `Test` (of `errno`, with the alarm open),
`Register` (the masked part: IO_BLOCKED, `epoll_ctl`, `uthread_yield`) and `Retry`.
`errno` is one variable, as the user threads share a kernel thread; a refused
`epoll_ctl` and an `usleep` that the alarm interrupts overwrite it. epoll accepts a descriptor
once (`EEXIST`), which the code does not test: `refused`. `Arrive` is the other
end of the descriptor. epoll looks at a descriptor again before it reports it, so
taking the last unit withdraws the event from a watcher (`TakeUnit`).
`crossed` and `nested` are ghosts: another thread may have run during the call;
an alarm has landed in an idle loop.

### Petersons

The whole program: `main` creates two workers and exits, a worker counts under
`lock` and `unlock`, the last one reports and calls `exit`. Each access to a
shared variable is a step in source order, and an alarm may fall between any two;
`Read` may be followed by the yield that some iterations make. This is the
program as the Makefile's flags compile it, without optimisation. gcc -O3 reads
`flag[other]` before it writes `turn`, which nothing in the source forbids;
`LockHoisted` is that order, and breaks exclusion and the count.
Workers are 1 and 2 where the code has 0 and 1.

### WorkSteal

| Variable | In the code |
|---|---|
| `state`, `ready`, `nextId` | as in `Scheduler`; ids begin at 0 in this mode |
| `saved[t]` | `context` of `t` is where the thread has to go on |
| `local[v]`, `running[v]` | `vps[v].local_head ..`, `vps[v].running` |
| `cur[v]` | the thread-local `current_thread` of the processor's pthread |
| `pc[v]` | where processor `v` is, in `vp_loop` or in a call of its thread |
| `hand[v]` | the TCB the code of `v` has a pointer to and is about to use |
| `untried[v]` | the victims `try_steal` has still to look at |
| `returned` | `uthread_mn_run` has returned |

A critical section of a spinlock is one action (`TakeLocal`, `TakeGlobal`,
`TrySteal`, `CreateAdd`, `CreatePush`, `YieldQueue`); what it touches is touched
only under its lock. What the code does outside any lock (`Dispatch`,
`YieldMark`, `ExitMark`, `Switch`, `Leave`, `CreateReturn`) are actions of their
own. `Scan` reads thread states one after the other under `global_list_lock`;
one instant stands for it, because FINISHED is final and no thread can be added
meanwhile: the scan finds nobody alive exactly if nobody is alive when it ends,
and if it finds somebody, that was so when it looked. Processor 0 is main's: it
creates threads (`MainCreate`), enters `vp_loop` (`MnRun`), and after its own
loop stops and joins the others (`StopVP`, `MnReturn`).

`try_steal` begins at an arbitrary processor and goes round; the model visits the
victims in any order. It moves threads in three critical sections which
`TrySteal` joins, since no thread is ever moved: new threads go to the global
queue and only `mn_yield` fills a local one, whose processor empties it before it
does anything else. `NeverSteals` proves that (`NothingToSteal`), and the run
`mn_idle` shows it against what the texts say of stealing. Reuse of a freed TCB's
address is not modelled.

`MNSync` adds `uthread_mutex_lock` and `_unlock` as they run here: the test of
`locked` or `wait_head` and the assignment that rests on it are two steps. What
they do to the wait list and the ready queue would race in the same way, and is
kept whole: the tests alone suffice to break the mutex.

### IntrusiveList and ThreadQueues

`next`, `globalNext` and `globalPrev` are the fields of the TCBs; heads, tails and
`readyCount` are the variables of the code. There is one wait list, of one mutex
or semaphore. What one call does to the lists without a loop is an action
(`Create`, `Requeue`, `Block`, `Unblock`, `Sleep`, `Exit`, `Dequeue`); each of
the three loops over a list that unlink as they go (`remove_from_ready_queue`,
`check_sleep_list`, `gc_finished_threads`) is a begin, a step per element, and an
end, with the loop's `prev`, `cur` and `target` in `walk`. Nothing interferes with
a loop: the alarm is masked and there is one processor. `vp_enqueue` and
`vp_dequeue` are the same pointer code as `enqueue` and `dequeue`, on the queue of
a processor. `Follow` reads a list from its head; through it the module
implements `ThreadQueues`, in which a thread is in one queue at a time.

### Trace

An emitter is a processor inside `trace_emit`; `Emit` (the test of
`trace_enabled`), `Claim` (`fetch_add`), `GiveBack` (`fetch_sub`), `WriteThread`
and `WriteStamp` (the fields, two by two) are its steps. `count` is `trace_count`;
`thread` and `stamp` are the fields of the slots. An event is told apart only by
who emitted it and when; type names, phases and the JSON text are left out. The
dump reads the count once and then one slot per step; it may begin at any moment,
and emitters and even a later session go on meanwhile. The one assumption on the
client is that it enables while nobody is inside `trace_emit`, as the tests do
(`AtRest`). Otherwise `uthread_trace_enable` could set the count to 0 under a
claim that is then given back, and the count would go below 0; the code promises
nothing for that.

## 3. Runs

Passing runs:

| Run | Shows |
|---|---|
| `sync_all` | Three threads (main and two) with a mutex and a semaphore, in all of the scheduler's behaviour: every policy and change of policy, priorities on both sides of main's, failing creation, failing epoll, alarms nested twice. `ReadyListed`, `ParkedSound`, `WaitListed`: no thread is lost from or doubled on the lists that share `next`. `UserRuns`, `CurrentKept`: user code runs only RUNNING, on a stack that is not freed. `MutualExclusion`, `LockHeld`, `SemConserved`, `SemNoIdleUnit`: exclusion, hand-off and units. `FollowsLifeCycle`: only a thread's own call stops it, finished threads stay finished. `BestDispatched`: `priority_next` takes the best thread, including those the same call woke. |
| `channel_fifo` | Three threads on a channel of two slots and two messages, that also sleep, do I/O and exit, alarms nested twice. `FifoImplemented`: it implements `BoundedFifo`. `SlotsAccounted`: each slot is a unit of one of the semaphores, or claimed by one thread. |
| `channel_calls` | The same program, with one message. `LockGranted`: FIFO hand-off, every waiter gets the mutex. `CallsComplete`: every call returns, unless the caller's own wake-up was lost to a nested alarm (`Lost`), or the buffer stays full, or empty, for ever (`Hangs`). A thread that is lost takes with it the slot or message it was handed: `Stranded`. |
| `async_io` | Three threads, one descriptor, alarms nested twice, round robin. `WaiterWoken`: no wake-up is lost between the first attempt and the wait, but for a thread that epoll refused. `FailsOnlyCrossed`: a call returns without data only if another thread has run in between. `ReadyRuns`: every queued thread runs. `RunningUnlessNested`, `ReturnsUnlessNested`: unless an alarm lands in an idle loop, exactly the current thread is RUNNING and every due thread returns to its own code. |
| `lists` | Four TCBs. `QueuesImplemented`: the pointer code implements `ThreadQueues`. `ReadyCounted`, `GlobalLinked`: count, tail and back pointers agree with the links. |
| `trace` | Three processors, two slots, two events each, two sessions, dumps at any time. `SlotsApart`: no slot has two writers. `CountSettles`: claims that are given back never cost an event for which there is room. `DumpsWhole`: a dump beside emitters reads each slot whole and in the order of the claims, unless that very slot is being written or the session that the dump meets has not claimed it yet. |
| `petersons` | Three iterations per worker. `WorkersExclude`, `CountsAll`, `BoundedWaiting`, and the report is reached (`Reports`). |
| `mn_all` | Three processors and three threads that create, yield, sleep and exit. `ReadyOnce`: no thread lost between queues or handed out twice. `OneProcessor`, `ContextSaved`: none on two processors, none resumed before it is saved. `StopsWhenDone`: no processor stops too early. `RunReturns`: `uthread_mn_run` returns if the threads exit, or goes on for ever because of a parked thread alone, all others having finished (`Stuck`). |

Findings, each a run in which TLC finds the property violated:

| Run | The code against its text |
|---|---|
| `nested_return` | The sleep test says that sleepers wake up and that the scheduler does not deadlock; a due sleeper may never return (`DueReturns`). A nested alarm consumes its wake-up, and the outer idle loop goes on, or switches away from a thread that is RUNNING and on no queue. `async_io` shows that nesting is the only cause. |
| `mn_reclaimed` | FINISHED is said to mean "Execution complete, memory can be reclaimed"; in M:N mode a creation on another processor reclaims the stack `mn_exit` still runs on (`StackKept`). |
| `mn_mutex` | design.md promises absolute mutual exclusion; two processors both find the mutex free. |
| `mn_idle` | README.md:46, line 467 and test_worksteal.c:9-10 say that idle processors steal queued threads; a processor with nothing to run looks at a victim with a queued thread and leaves it there (`IdleSteals`), as 524 asks for two, which no local queue ever holds (`NeverSteals`). |

### Other departures from the texts

These are in the models, and need no run of their own.

* The idle loops unblock `SIGALRM` inside the scheduler (808, 859), where
  design.md:26 says that signals are only unblocked on return to user code: that
  is `Alarm` with `idle[cur] > 0`.
* design.md:17 says that `creation_order` prevents starvation among equal
  priorities. `priority_next` (396) always takes the oldest of them, so that a
  younger one waits as long as an older one keeps yielding: `BestDispatched` is
  what the code does.
* `mn_yield` puts its caller at the end of the local queue, which `vp_loop` serves
  first (597): a thread that yields runs again at once, and does not hand control
  to the next one as CODEBASE_TOUR.md:150 says of `uthread_yield`.
* Nobody polls in M:N mode (605), where README.md:44 promises that
  `uthread_sleep`, `_read` and `_write` keep the runtime going: a thread parked
  in `WorkSteal` has no action that wakes it.
* `uthread_create` reads its result from the TCB (757) after others may have run
  and freed it: between `CreatePush` and `CreateReturn` the new thread may be
  gone.
* In M:N mode `uthread_mutex_unlock` may queue a waiter before `mn_yield` has saved its
  context (920): `UnlockWake` between `LockBlock` and `Switch` of `MNSync`.
* The trace buffer is called a ring (README.md:45) and circular
  (CODEBASE_TOUR.md:124); a full buffer keeps its oldest events and drops the
  newest (153), so that README.md:45 does not hold for a long program: `Claim` and
  `GiveBack`. No run checks which events are kept; those of `trace` hold of the
  buffer as it is.
* If `epoll_create1` failed, `uthread_yield` and `uthread_exit` end the process
  with status 0 as soon as nothing is ready, sleepers or not (800): `CanIdle`.

### Bounds

`MaxThreads = 2` gives main and two threads: one runs, one waits on each side of
it, which is what a lost or doubled link, a hand-off with a third thread in
between, an overtaken waiter, a thread that crosses another's `read` or a second
reader on a descriptor needs. `MaxNest = 2` gives an idle loop under an idle
loop; what a nested loop can do to the one below does not depend on what is
below that. `petersons` uses `MaxNest = 1`, in which no alarm lands in an idle
loop: there no thread ever idles. `sync_all` has one mutex and one semaphore,
which is enough for a thread on two of the four lists. `nested_return` needs only
main and one thread. `MaxUnits = 2` with one
initial unit lets a count exceed one and return to zero; in the channel runs it is
the capacity, and never keeps a post from happening. Two slots with two messages tell full,
empty and wrapped buffers, and swapped messages, apart. Whether a call returns
does not depend on what it carries, so `channel_calls` has one message. The
process has epoll in both (`ChannelInit`), which halves the states and touches no
channel call. One unit on one descriptor is what two readers compete for.

Four TCBs are the least in which an element is removed between two others while a
fourth runs; the three that are not main's are interchangeable, and no property of
that run is about liveness, so they are permuted as a symmetry. Three emitters fill a
buffer of two slots and overflow it. They stop after two events each, so
that the model may halt, and deadlock is not checked there. Three iterations
let each worker be first, second and last.

For M:N mode three processors give a thief, a victim and a third that creates or
collects; three threads are one on each. `mn_idle` needs a thief and a victim. Ids are used up to `MaxThreads`. The proofs hold for every
value of these bounds.

### Fairness

`FairSpec` assumes that alarms keep coming (`ITIMER_REAL` with an interval, 695),
that the idle loop turns (810), and that the clock reaches deadlines. Nothing is
assumed of user code or of data on descriptors. `IoSpec` of `AsyncIO` assumes the
same of its versions `Tick`, `Turn` and `Late` of these actions, and not that anything
arrives or that a thread goes on with its call. The alarm is weakly fair because
it is enabled until it fires.

`ChannelSpec` adds that a thread in a channel call that gets the processor again
and again makes its next step (strong, since preemption disables it): the alarm's
period is longer than a step. No thread has to make a call, to wake up or to get
its data. `DemoSpec` says the
same of the demonstration's workers, which never stop by themselves. In
`WorkSteal`, `Progress` says that each processor goes on inside the library, and
main through the stopping and joining; `ExitingSpec` adds that a thread that runs
again and again, on whatever processors, exits at last. Nothing is assumed of
parked threads.

## 4. Proofs

All theorems assume only the named assumptions on the constants:
`SchedulerAssumption`, `SyncAssumption`, `ChannelAssumption`,
`PetersonsAssumption`, `TraceAssumption`, `WorkStealAssumption`,
`ListAssumption`. `OnlyCurrentRuns` and `StacksKept` are about the behaviours
that their statements name. Every safety property that a passing run checks is
proved.

| Module | Theorems |
|---|---|
| `SchedulerProofs` | `SchedulerInv`, `SchedulerTypes`, `ReadyQueueSound` (`ReadyListed`), `ParkedThreadsSound` (`ParkedSound`), `CurrentStackKept` (`CurrentKept`), `UserCodeRuns` (`UserRuns`), `LifeCycleFollowed` (`FollowsLifeCycle`), `PriorityServed` (`BestDispatched`), `OnlyCurrentRuns` (`RunningIsCurrent`, if no alarm lands in an idle loop) |
| `SyncProofs` | `MutexExcludes` (`MutualExclusion`), `LockSound` (`LockHeld`), `WaitListsSound` (`WaitListed`, and `ReadyListed` and `ParkedSound` under blocking), `UnitsSound` (`SemConserved`), `NobodyWaitsBesideUnit` (`SemNoIdleUnit`); `SlotsSound` (`SlotsAccounted`), `ChannelIsFifo` (`FifoImplemented`, the refinement), `ChannelsUseSync` (`ChannelSpec => SyncSpec`), `ChannelKeepsSync` (what follows for the channel's mutex and semaphores) |
| `AsyncIOProofs` | `IoKeepsScheduler` (`Inv` of the scheduler), `OneRuns` (`RunningUnlessNested`), `FailuresAreCrossed` (`FailsOnlyCrossed`) |
| `IntrusiveListProofs` | `ListInvariant`, `ReadyCountSound` (`ReadyCounted`), `GlobalListSound` (`GlobalLinked`), `ListsAreQueues` (`QueuesImplemented`, the refinement) |
| `PetersonsProofs` | `PetersonExcludes` (`WorkersExclude`), `WaitIsBounded` (`BoundedWaiting`), `CountIsExact` (`CountsAll`), `DemoTypes` |
| `TraceProofs` | `TraceTypes`, `SlotsOwned` (`SlotsApart`), `CountSound` (`CountSettles`), `DumpSound` (`DumpsWhole`) |
| `WorkStealProofs` | `WorkStealTypes` (`TypeOK`), `ProcessorsApart` (`OneProcessor`), `ResumesSaved` (`ContextSaved`), `NeverSteals` (`NothingToSteal`, which no run checks), `StopsSound` (`StopsWhenDone`), `ReadyKept` (`ReadyOnce`), `StacksKept` (`StackKept`, if main creates all threads; `mn_reclaimed` shows that it fails otherwise) |

**Scheduler.** `Inv` is the conjunction of the scheduler's invariants in `sync_all` and
`Fresh` (an id not yet given out has no thread), which is needed because a new
thread is appended to the ready list: the list stays free of repetition only if
the id is on no list yet. Each part of `Inv` is needed for another: polling may
enqueue a due thread because `ParkedSound` says it is IO_BLOCKED and
`ReadyListed` that it is then not on the ready list; a caller may be queued
because `UserRuns` says it is RUNNING; `ParkedSound` survives garbage collection
because only FINISHED threads go. The argument follows the code:
`SwitchToListed`, `DispatchOutcome`, `PollOutcome` and `ReapKeeps` say what each
helper does to any consistent argument, `YieldOutcome` puts them together for any
caller of `uthread_yield`, and each action has a lemma of its own.
`StatesFollow` says of the same helpers along which edges of the life cycle they
move threads. `BestLeft` says what a switch leaves on the queue: `SwitchBest` draws
it from the comparison of `priority_next` and from the queue being without
repetition, which keeps the chosen thread from being among those that are left.

`RunningIsCurrent` is not inductive: a thread that blocks enters its idle loop and
is woken there, and only the depth of the loop tells that it executes and may not be
RUNNING. `SoleRunner` adds that a thread in an idle loop is the current one,
one loop deep and not RUNNING. An alarm in an idle loop breaks this, which is what
`OnlyCurrentRuns` excludes and `OneRuns` records in `nested`.

**Mutex and semaphore.** `SyncInv` adds to `Inv` the other invariants of `sync_all`
and `WaitersCalled` (who waits for a mutex is in a call of lock on it). It is needed
because hand-off makes a waiter the owner: `MutualExclusion` is kept since the
waiter is inside from then on and, by `LockHeld`, nobody else is.
`YieldOutcome` is stated for any caller, so blocking on a mutex or semaphore
cites it with the caller BLOCKED.

**Channel.** `ChanInv` is `SyncInv` with three facts. `CallsSound` ties the place
of a thread in its call to the lists it may wait on and to the mutex: only the
thread between lock and unlock is at the ring. `RingSound` says that `tail` is `filled`
places after `head`, and that a thread between its access and its advance finds
the buffer as it left it. `SlotsAccounted` counts: a thread moves from one set of
claimers to another when it passes a semaphore or advances, and the counting
lemmas say what this does to the cardinalities. From it follows that a sender that
advances finds a free slot and a receiver a filled one: each of them is counted,
so `filled` lies in between. With this `Advance` maps to `Accept` or `Deliver`, and
every other step leaves `Contents` as it is; in particular a sender that writes the slot at
`tail` does not touch what lies between head and tail. `ChannelStepIsSync` shows
each step to be one of `Sync`, so that the results about mutexes and semaphores
hold in the presence of channels.

**Asynchronous I/O.** `IoStepKinds` says that every step is one of the scheduler
(`Register` is its `IoWait`) or changes `due` only, so that `Inv` carries over.
`CallsSound` says what a thread in a call may rely on as long as it has not stood in
the ready queue: between the first read and its test `errno` is its own; up to the
registration it executes or is queued; epoll knows only threads that wait to
retry, and each event has its unit. For the wake-up this is what counts: a
thread that goes from its wait straight back to its code was due, so its unit was
there, and nobody has run who could take it. `Moves` collects what any dispatching
call does to the other threads, and `YieldMoves`, `ExitMoves` and `IdleMoves`
show it of the three.

**Intrusive lists.** `Lists(q, head, link)` says that the links spell out the
sequence `q`, which has no repetition; `ListInv` says so of the four lists, with
tails, count and backward links, and that the state of a TCB says which lists it is on,
so that the three lists that share `next` are apart. Each operation has a lemma:
if the links spelled sequences before, they spell the operation's result after
(`AppendToList`, `PushOnList`, `UnlinkFromList`, `UnlinkBack`). A loop in the
middle of its walk stands on an element of its list, which is what lets it unlink
that element and go on. `FollowLists` makes the bridge to the refinement mapping:
where the links spell `q`, `Follow` computes `q`. `Follow` is a recursive function,
and the induction over the positions is stated of sets (`PositionInduction`) and
drawn from the pigeonhole principle, since the induction theorems of the library are
out of reach.

**Peterson's lock.** `LockInv` says that a worker inside keeps the other out: it has
not begun, or waits with `turn` against it. `CountInv` adds up what each worker has
added to the counter; `WaitInv` says that a waiting worker that has been passed once
is not passed again.

**Trace.** `TraceInv`: every slot below the count is held by the one emitter that
claimed it, or written whole (`ClaimsInv`). So a dump, whenever it began, finds
a slot whole unless it is held (`DumpedSlot`, `DumpedWhole`). Claims to be given back exist only while the buffer is full, so
`fetch_sub` never reopens a slot that is taken.

**M:N runtime.** The argument is ownership: `OnePlace` says that every thread is
with one processor, in one role (running, queued locally, or in its hands), or on
the global queue. `LocalSound` says that a local queue holds at most the thread
that yielded last, which is saved when the processor comes to look; with it a look
at a victim moves nothing (`TryStealIdle`), and `ContextSaved` does not depend on
the rule that one thread is never stolen. `StageSound` ties each stage of a call
to the state of its thread; `BusyAlive` draws from it that a processor in the
middle of a call keeps all others from stopping. `Fresh` and `PhasesSound` are
about ids and about main. `NoneLost` is the other half of `ReadyOnce`: a READY
thread is on the global queue or with some processor.

Only model-checked: liveness (`ReadyRuns`, `WaiterWoken`, `ReturnsUnlessNested`,
`LockGranted`, `CallsComplete`, `Reports`, `RunReturns`), which the prover does not
do under fairness. The four runs that end in a violation have counterexamples
instead of proofs.

## 5. Not modelled

* The SIGSEGV handler and guard pages (320-351): they print and exit. That
  mapping a stack can fail is part of `Create`.
* Names, phases and the JSON text of the trace, the viewer and the reports:
  formatting.
* Tests and benchmarks: clients. Their use of the library is what the clients of the
  models do.
* Nesting deeper than `MaxNest`: each alarm in an idle loop takes stack, and the
  overflow of a 64 KB stack is outside the models.
* A second `uthread_init` in one process, which leaves the sleep list as it was;
  misuse of a mutex (locking twice, unlocking another's, exiting with one).
* Semaphores and channels in M:N mode. They have the same unprotected tests as the
  mutex of `MNSync`, and rest on them.
