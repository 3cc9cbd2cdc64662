------------------------------ MODULE AsyncIO -------------------------------
(***************************************************************************)
(* uthread_read and uthread_write of src/uthread.c in single-core mode, on *)
(* top of the scheduler, with descriptors.  A descriptor holds units: what *)
(* there is to read, or the room there is to write.  The call tries, tests *)
(* errno, registers with epoll and yields, and tries once more; SIGALRM is *)
(* masked only from the registration to the yield, and the threads, which  *)
(* share a kernel thread, share its errno.                                 *)
(***************************************************************************)
EXTENDS Scheduler

CONSTANTS
  Fd,        \* the descriptors
  MaxUnits   \* bound on the units of a descriptor

VARIABLES
  units,    \* what read, or write, finds
  errno,    \* "EAGAIN", or the code of any other failure
  at,       \* where each thread is in its call
  fd,       \* the descriptor of the call
  refused,  \* ghost: epoll_ctl has not accepted the descriptor
  crossed,  \* ghost: during the call the thread has waited in the ready queue
  nested    \* ghost: an alarm has landed in an idle loop

ghostVars == <<crossed, nested>>
callVars == <<units, errno, at, fd, refused>>
ioVars == <<vars, callVars, ghostVars>>

IoInit ==
  /\ Init
  /\ units = [f \in Fd |-> 0]
  /\ errno = "other"
  /\ at = [t \in Thread |-> "none"]
  /\ fd = [t \in Thread |-> CHOOSE f \in Fd : TRUE]
  /\ refused = {} /\ crossed = {} /\ nested = FALSE

-----------------------------------------------------------------------------
GoOn(label) == at' = [at EXCEPT ![cur] = label]
InCall(label) == UserMode /\ at[cur] = label
Watching(f) == {t \in watch : fd[t] = f}

\* read takes a unit of f.  epoll_wait looks at the descriptor again before it
\* reports it, so that the event of a watcher lapses with the last unit.
TakeUnit(f) ==
  /\ units[f] > 0
  /\ units' = [units EXCEPT ![f] = @ - 1]
  /\ due' = IF units[f] = 1 THEN due \ Watching(f) ELSE due
  /\ UNCHANGED <<state, cur, ready, idle, prio, policy, nextId, asleep, watch,
                 epollOk, exited, errno>>

FindNone(f) ==
  /\ units[f] = 0
  /\ errno' = "EAGAIN"
  /\ UNCHANGED <<vars, units>>

\* set_nonblocking, and the first read
Try(f) ==
  /\ InCall("none")
  /\ fd' = [fd EXCEPT ![cur] = f]
  /\ \/ TakeUnit(f) /\ UNCHANGED at
     \/ FindNone(f) /\ GoOn("test")
  /\ UNCHANGED refused

\* errno != EAGAIN: return ret
Test ==
  /\ InCall("test")
  /\ GoOn(IF errno = "EAGAIN" THEN "register" ELSE "none")
  /\ UNCHANGED <<vars, units, errno, fd, refused>>

\* Variant: a unit that is already there is not reported.
RegisterBlind ==
  /\ InCall("register")
  /\ LET f     == fd[cur]
         added == IF epollOk /\ Watching(f) = {} THEN {cur} ELSE {}
     IN  /\ YieldFrom([state EXCEPT ![cur] = "IO_BLOCKED"], asleep, watch \cup added, due)
         /\ errno' = IF added = {} THEN "other" ELSE errno
         /\ refused' = IF added = {} THEN refused \cup {cur} ELSE refused
  /\ GoOn("retry")
  /\ UNCHANGED <<prio, policy, nextId, epollOk, units, fd>>

\* IO_BLOCKED, EPOLL_CTL_ADD and uthread_yield.  epoll takes a descriptor once;
\* a unit that is there already is reported, edge-triggered or not.
Register ==
  /\ InCall("register")
  /\ LET f     == fd[cur]
         added == IF epollOk /\ Watching(f) = {} THEN {cur} ELSE {}
         early == IF units[f] > 0 THEN added ELSE {}
     IN  /\ YieldFrom([state EXCEPT ![cur] = "IO_BLOCKED"],
                      asleep, watch \cup added, due \cup early)
         /\ errno' = IF added = {} THEN "other" ELSE errno
         /\ refused' = IF added = {} THEN refused \cup {cur} ELSE refused
  /\ GoOn("retry")
  /\ UNCHANGED <<prio, policy, nextId, epollOk, units, fd>>

\* The second read, whose result is returned whatever it is.
Retry ==
  /\ InCall("retry")
  /\ TakeUnit(fd[cur]) \/ FindNone(fd[cur])
  /\ GoOn("none")
  /\ refused' = refused \ {cur}
  /\ UNCHANGED fd

\* The other side sends, or makes room.
Arrive(f) ==
  /\ ~exited
  /\ units[f] < MaxUnits
  /\ units' = [units EXCEPT ![f] = @ + 1]
  /\ due' = due \cup Watching(f)
  /\ UNCHANGED <<state, cur, ready, idle, prio, policy, nextId, asleep, watch,
                 epollOk, exited, errno, at, fd, refused>>

\* How the ghosts follow a step.
Track ==
  crossed' = {t \in Thread : at'[t] # "none" /\ (t \in crossed \/ state'[t] = "READY")}

\* alrm_handler; in an idle loop it may interrupt usleep, which fails.
Tick ==
  /\ Alarm
  /\ errno' \in IF idle[cur] > 0 THEN {errno, "other"} ELSE {errno}
  /\ nested' = (nested \/ idle[cur] > 0)
  /\ UNCHANGED <<units, at, fd, refused>>
  /\ Track

Turn    == IdlePoll /\ UNCHANGED callVars /\ Track /\ UNCHANGED nested
Late(t) == Expire(t) /\ t \in asleep /\ UNCHANGED callVars /\ Track /\ UNCHANGED nested

\* Outside of its calls a thread does other things.
ClientStep ==
  /\ at[cur] = "none"
  /\ Yield \/ Sleep \/ Exit \/ \E p \in Priorities : Create(p)

UserMove ==
  /\ \/ Test \/ Register \/ Retry
     \/ \E f \in Fd : Try(f) \/ Arrive(f)
     \/ (ClientStep \/ Terminated) /\ UNCHANGED callVars
  /\ Track /\ UNCHANGED nested

IoNext == Tick \/ Turn \/ UserMove \/ \E t \in Thread : Late(t)

(***************************************************************************)
(* The fairness of Scheduler.  Nothing has to arrive, and no thread has to *)
(* go on with anything.                                                    *)
(***************************************************************************)
IoSpec ==
  /\ IoInit
  /\ [][IoNext]_ioVars
  /\ WF_ioVars(Tick)
  /\ WF_ioVars(Turn)
  /\ \A t \in Thread : WF_ioVars(Late(t))

-----------------------------------------------------------------------------
(***************************************************************************)
(* Correctness.                                                            *)
(***************************************************************************)

\* As long as no alarm has landed in an idle loop, RUNNING is the state of the
\* one thread that executes.
RunningUnlessNested == nested \/ RunningIsCurrent

\* A call on a working descriptor returns without a unit only if its thread has
\* stood in the ready queue meanwhile: then another may have changed errno
\* between the read and its test, or taken the unit before the second read.
\* A thread that nobody comes between never sees EAGAIN.
FailsOnlyCrossed ==
  [][at[cur] # "none" /\ at'[cur] = "none" /\ units' = units => cur \in crossed]_ioVars

\* No wake-up is lost between the first read and the wait: a thread blocked on
\* a descriptor is woken while there is a unit, unless epoll has refused it.
\* Those are the threads that wait for ever.
WaiterWoken ==
  \A t \in Thread :
    at[t] = "retry" /\ state[t] = "IO_BLOCKED" /\ units[fd[t]] > 0
      ~> state[t] # "IO_BLOCKED" \/ units[fd[t]] = 0 \/ t \in refused \/ exited

\* A sleeper whose deadline has passed, or a reader whose unit has come, gets
\* back to its own code, unless an alarm has landed in an idle loop.
ReturnsUnlessNested ==
  \A t \in Thread :
    t \in due ~> \/ cur = t /\ UserMode
                 \/ t \in watch /\ units[fd[t]] = 0
                 \/ nested \/ exited

=============================================================================
