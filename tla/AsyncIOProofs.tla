--------------------------- MODULE AsyncIOProofs ----------------------------
(***************************************************************************)
(* The calls of uthread_read and uthread_write keep the scheduler sound,   *)
(* and fail only where another thread came between, for any number of      *)
(* threads, descriptors and units.                                         *)
(***************************************************************************)
EXTENDS AsyncIO, SchedulerProofs

-----------------------------------------------------------------------------
(* What the descriptors do to the scheduler. *)

\* An event comes or lapses.
DueStep ==
  /\ due' \subseteq Thread /\ due' \subseteq asleep \cup watch
  /\ UNCHANGED <<state, cur, ready, idle, prio, policy, nextId, asleep, watch,
                 epollOk, exited>>

LEMMA DueKeepsInv == Inv /\ DueStep => Inv'
BY DEF DueStep, Inv, TypeOK, ReadyListed, Listed, ParkedSound, Parked, UserRuns,
       UserMode, CurrentKept, Fresh

LEMMA TakeIsDue ==
  ASSUME Inv, NEW f, TakeUnit(f)
  PROVE  DueStep
BY DEF TakeUnit, DueStep, Inv, TypeOK, ParkedSound, Parked

LEMMA ArriveIsDue ==
  ASSUME Inv, NEW f, Arrive(f)
  PROVE  DueStep
<1>1. due' = due \cup Watching(f) /\ Watching(f) \subseteq watch
  BY DEF Arrive, Watching
<1> QED
  BY <1>1 DEF Arrive, DueStep, Inv, TypeOK, ParkedSound, Parked

\* The registration is the masked part that Scheduler describes.
LEMMA RegisterIsIoWait ==
  ASSUME Register
  PROVE  \E registered \in BOOLEAN : IoWait(registered)
<1> DEFINE f == fd[cur]
           added == IF epollOk /\ Watching(f) = {} THEN {cur} ELSE {}
           early == IF units[f] > 0 THEN added ELSE {}
           registered == epollOk /\ Watching(f) = {}
<1>1. /\ UserMode
      /\ YieldFrom([state EXCEPT ![cur] = "IO_BLOCKED"],
                   asleep, watch \cup added, due \cup early)
      /\ UNCHANGED <<prio, policy, nextId, epollOk>>
  BY DEF Register, InCall
<1>2. registered \in BOOLEAN /\ (registered => epollOk) /\ early \in SUBSET added
  OBVIOUS
<1>3. IoWait(registered)
  BY <1>1, <1>2 DEF IoWait
<1> QED
  BY <1>2, <1>3

\* Every step is one of the scheduler, or leaves it alone but for the events.
LEMMA IoStepKinds ==
  ASSUME Inv, [IoNext]_ioVars
  PROVE  \/ DueStep
         \/ UnnestedStep /\ UNCHANGED nested
         \/ Alarm /\ nested' = (nested \/ idle[cur] > 0)
<1>1. CASE Tick
  BY <1>1 DEF Tick
<1>2. CASE Turn
  BY <1>2 DEF Turn, UnnestedStep
<1>3. CASE \E t \in Thread : Late(t)
  BY <1>3 DEF Late, UnnestedStep
<1>4. CASE UserMove
  <2>1. UNCHANGED nested
    BY <1>4 DEF UserMove
  <2>2. CASE Test
    BY <2>1, <2>2 DEF Test, UnnestedStep
  <2>3. CASE Register
    BY <2>1, <2>3, RegisterIsIoWait DEF UnnestedStep, UserStep, NonExitStep
  <2>4. CASE Retry \/ \E f \in Fd : Try(f)
    <3>1. CASE \E f : TakeUnit(f)
      BY <3>1, TakeIsDue
    <3>2. CASE \E f : FindNone(f)
      BY <2>1, <3>2 DEF FindNone, UnnestedStep
    <3> QED
      BY <2>4, <3>1, <3>2 DEF Retry, Try
  <2>5. CASE \E f \in Fd : Arrive(f)
    BY <2>5, ArriveIsDue
  <2>6. CASE ClientStep \/ Terminated
    BY <2>1, <2>6 DEF ClientStep, UnnestedStep, UserStep, NonExitStep
  <2> QED
    BY <1>4, <2>2, <2>3, <2>4, <2>5, <2>6 DEF UserMove
<1>5. CASE UNCHANGED ioVars
  BY <1>5 DEF ioVars, ghostVars, UnnestedStep
<1> QED
  BY <1>1, <1>2, <1>3, <1>4, <1>5 DEF IoNext

\* Every reachable state of the calls satisfies the scheduler's invariant.
THEOREM IoKeepsScheduler == IoSpec => []Inv
<1>1. IoInit => Inv
  BY InitInv DEF IoInit
<1>2. Inv /\ [IoNext]_ioVars => Inv'
  <2>1. UnnestedStep \/ Alarm => [Next]_vars
    BY DEF UnnestedStep, Next, SystemStep
  <2> QED
    BY <2>1, IoStepKinds, DueKeepsInv, NextKeepsInv
<1> QED
  BY <1>1, <1>2, PTL DEF IoSpec

\* As long as no alarm has landed in an idle loop, RUNNING is the state of the
\* one thread that executes: SoleRunner is the invariant that is inductive.
THEOREM OneRuns == IoSpec => []RunningUnlessNested
<1> DEFINE J == nested \/ SoleRunner
<1>1. IoInit => J
  BY ThreadFacts DEF IoInit, Init, SoleRunner, RunningIsCurrent
<1>2. Inv /\ J /\ [IoNext]_ioVars => J'
  <2> SUFFICES ASSUME Inv, J, [IoNext]_ioVars  PROVE  J'
    OBVIOUS
  <2>1. idle[cur] \in Nat
    BY SchedulerAssumption DEF Inv, TypeOK
  <2>2. CASE nested
    <3>1. UNCHANGED nested \/ nested' = (nested \/ idle[cur] > 0)
      BY Zenon DEF IoNext, Tick, Turn, Late, UserMove, ioVars, ghostVars
    <3>2. nested'
      BY <2>2, <3>1
    <3> QED
      BY <3>2
  <2>3. CASE SoleRunner
    <3>1. DueStep => SoleRunner'
      BY <2>3 DEF DueStep, SoleRunner, RunningIsCurrent
    <3>2. UnnestedStep => SoleRunner'
      BY <2>3, UnnestedKeepsSole
    <3>3. Alarm /\ nested' = (nested \/ idle[cur] > 0) => nested' \/ UnnestedStep
      <4>1. idle[cur] > 0 \/ idle[cur] = 0
        BY <2>1
      <4> QED
        BY <4>1, Zenon DEF UnnestedStep
    <3> QED
      BY <3>1, <3>2, <3>3, IoStepKinds
  <2> QED
    BY <2>2, <2>3
<1>3. J => RunningUnlessNested
  BY DEF SoleRunner, RunningUnlessNested
<1> HIDE DEF J
<1> QED
  BY <1>1, <1>2, <1>3, IoKeepsScheduler, PTL DEF IoSpec

-----------------------------------------------------------------------------
(***************************************************************************)
(* A call fails only where another thread came between.  The invariant     *)
(* says what a thread in a call may rely on while nobody has.              *)
(***************************************************************************)
IoTypeOK ==
  /\ units \in [Fd -> Nat]
  /\ at \in [Thread -> {"none", "test", "register", "retry"}]
  /\ fd \in [Thread -> Fd \cup {CHOOSE f \in Fd : TRUE}]

\* A thread between its first read and the registration executes or is queued;
\* sleepers are in no call, and epoll knows only threads that wait to retry,
\* with a unit there for each event.  A thread that was never queued meanwhile
\* still finds its errno, and after the wait its unit.
CallSound(t) ==
  /\ at[t] # "none" => fd[t] \in Fd
  /\ at[t] \in {"test", "register"} =>
       /\ idle[t] = 0
       /\ state[t] = "READY" \/ (state[t] = "RUNNING" /\ t = cur)
  /\ at[t] # "none" /\ state[t] = "READY" => t \in crossed
  /\ t \in asleep => at[t] = "none"
  /\ t \in watch => at[t] = "retry"
  /\ t \in due \cap watch => units[fd[t]] > 0
  /\ at[t] = "test" /\ t \notin crossed => errno = "EAGAIN"
  /\ t = cur /\ at[t] = "retry" /\ t \notin crossed /\ state[t] = "RUNNING" =>
       units[fd[t]] > 0

CallsSound == IoTypeOK /\ \A t \in Thread : CallSound(t)

\* What a call that dispatches does to the threads, called with st, sl, wt
\* and du: only a due thread is woken, a queued one stays queued or runs, and
\* a RUNNING caller is queued, or chosen again.
Moves(st, sl, wt, du) ==
  /\ \A t \in Thread :
       /\ st[t] = "IO_BLOCKED" /\ state'[t] # "IO_BLOCKED" => t \in du /\ t \in sl \cup wt
       /\ st[t] = "READY" => state'[t] = "READY" \/ (state'[t] = "RUNNING" /\ cur' = t)
       /\ state'[t] = "RUNNING" => st[t] \in {"READY", "RUNNING", "IO_BLOCKED"}
       /\ t # cur => idle'[t] = idle[t]
  /\ cur' # cur => st[cur'] \in {"READY", "IO_BLOCKED"}
  /\ st[cur] = "RUNNING" /\ idle[cur] = 0 =>
       /\ idle'[cur] = 0
       /\ state'[cur] = "READY" \/ (state'[cur] = "RUNNING" /\ cur' = cur)
  /\ cur' \in Thread
  /\ asleep' \subseteq sl /\ watch' \subseteq wt /\ due' = {}

LEMMA DispatchMoves ==
  ASSUME NEW st \in [Thread -> States], NEW q \in Seq(Thread), Listed(st, q),
         NEW fin, \A t \in Thread : \/ fin[t] = st[t]
                                    \/ st[t] = "FINISHED" /\ fin[t] = "NONE",
         policy \in AllPolicies, cur \in Thread, idle \in [Thread -> 0 .. MaxNest],
         Dispatch(st, q, fin)
  PROVE  /\ \A t \in Thread :
              /\ st[t] = "READY" => state'[t] = "READY" \/ (state'[t] = "RUNNING" /\ cur' = t)
              /\ state'[t] = "RUNNING" => st[t] \in {"READY", "RUNNING"}
              /\ st[t] = "IO_BLOCKED" => state'[t] = "IO_BLOCKED"
              /\ t # cur => idle'[t] = idle[t]
         /\ cur' # cur => st[cur'] = "READY"
         /\ st[cur] = "READY" => idle' = idle
         /\ cur' \in Thread
<1>1. CASE \E k \in 1 .. Len(q) : SwitchTo(st, q, k) /\ UNCHANGED <<idle, exited>>
  <2>1. /\ cur' \in Thread /\ st[cur'] = "READY" /\ state'[cur'] = "RUNNING"
        /\ \A t \in Thread : t # cur' => state'[t] = st[t]
        /\ idle' = idle
    BY <1>1, SwitchToListed
  <2> QED
    BY <2>1
<1>2. CASE /\ st[cur] # "READY" /\ CanIdle(st)
           /\ idle' = [idle EXCEPT ![cur] = @ + 1]
           /\ state' = st /\ ready' = q
           /\ UNCHANGED <<cur, exited>>
  BY <1>2
<1>3. CASE /\ st[cur] # "READY" /\ ~CanIdle(st)
           /\ exited' = TRUE
           /\ state' = fin /\ ready' = q
           /\ UNCHANGED <<cur, idle>>
  BY <1>3
<1> QED
  BY <1>1, <1>2, <1>3, DispatchCases

\* What a poll wakes.
LEMMA PollWakes ==
  ASSUME NEW st, NEW sl, NEW wt, NEW du, NEW t \in Thread,
         AfterPoll(st, sl, wt, du)[t] # st[t]
  PROVE  /\ AfterPoll(st, sl, wt, du)[t] = "READY"
         /\ t \in du /\ t \in sl \cup wt
BY DEF AfterPoll, IoDue, SleepDue

\* uthread_yield
LEMMA YieldMoves ==
  ASSUME NEW st \in [Thread -> States],
         NEW sl, NEW wt, NEW du, sl \subseteq Thread, wt \subseteq Thread,
         Listed(st, ready), Parked(st, sl, wt, du),
         ready \in Seq(Thread), policy \in AllPolicies, cur \in Thread,
         idle \in [Thread -> 0 .. MaxNest],
         YieldFrom(st, sl, wt, du)
  PROVE  Moves(st, sl, wt, du)
<1> DEFINE reaped == Reap(st)
           polled == AfterPoll(reaped, sl, wt, du)
           queued == [t \in Thread |-> IF t = cur /\ Requeues(polled)
                                       THEN "READY" ELSE polled[t]]
           self == IF Requeues(polled) THEN <<cur>> ELSE <<>>
<1>1. PICK w \in WakeOrders(reaped, sl, wt, du) :
        Dispatch(queued, ready \o w \o self, queued)
  BY DEF YieldFrom
<1>2. PollLists(reaped, sl, wt, du)
  BY DEF YieldFrom
<1>3. /\ reaped \in [Thread -> States]
      /\ reaped[cur] = st[cur]
      /\ \A t \in Thread : \/ reaped[t] = st[t]
                           \/ st[t] = "FINISHED" /\ reaped[t] = "NONE"
      /\ Listed(reaped, ready)
      /\ Parked(reaped, sl, wt, du)
  BY ReapKeeps
<1> DEFINE q == ready \o w
<1> HIDE DEF reaped
<1>4. /\ polled \in [Thread -> States]
      /\ q \in Seq(Thread)
      /\ Listed(polled, q)
      /\ \A t \in Thread : \/ polled[t] = reaped[t]
                           \/ reaped[t] = "IO_BLOCKED" /\ polled[t] = "READY"
  BY <1>1, <1>2, <1>3, PollOutcome
<1>5. \A t \in Thread : polled[t] # reaped[t] => t \in du /\ t \in sl \cup wt
  BY PollWakes
<1>6. asleep' \subseteq sl /\ watch' \subseteq wt /\ due' = {}
  BY <1>2 DEF PollLists
<1> HIDE DEF polled, q
<1>7. /\ queued \in [Thread -> States]
      /\ q \o self \in Seq(Thread) /\ Listed(queued, q \o self)
      /\ \A t \in Thread : queued[t] = IF t = cur /\ polled[cur] = "RUNNING"
                                       THEN "READY" ELSE polled[t]
  BY <1>4, CallerQueued
<1>8. Dispatch(queued, q \o self, queued)
  BY <1>1 DEF q
<1> HIDE DEF queued, self
<1>9. /\ \A t \in Thread :
           /\ queued[t] = "READY" =>
                state'[t] = "READY" \/ (state'[t] = "RUNNING" /\ cur' = t)
           /\ state'[t] = "RUNNING" => queued[t] \in {"READY", "RUNNING"}
           /\ queued[t] = "IO_BLOCKED" => state'[t] = "IO_BLOCKED"
           /\ t # cur => idle'[t] = idle[t]
      /\ cur' # cur => queued[cur'] = "READY"
      /\ queued[cur] = "READY" => idle' = idle
      /\ cur' \in Thread
  BY <1>7, <1>8, DispatchMoves
<1>10. ASSUME NEW t \in Thread
       PROVE  /\ st[t] = "IO_BLOCKED" /\ queued[t] # "IO_BLOCKED" =>
                   t \in du /\ t \in sl \cup wt
              /\ st[t] = "READY" => queued[t] = "READY"
              /\ queued[t] \in {"READY", "RUNNING"} =>
                   st[t] \in {"READY", "RUNNING", "IO_BLOCKED"}
              /\ queued[t] = "READY" /\ t # cur => st[t] \in {"READY", "IO_BLOCKED"}
  <2>1. reaped[t] = st[t] \/ (st[t] = "FINISHED" /\ reaped[t] = "NONE")
    BY <1>3
  <2>2. \/ polled[t] = reaped[t]
        \/ /\ reaped[t] = "IO_BLOCKED" /\ polled[t] = "READY"
           /\ t \in du /\ t \in sl \cup wt
    BY <1>4, <1>5
  <2>3. queued[t] = polled[t]
        \/ (t = cur /\ polled[t] = "RUNNING" /\ queued[t] = "READY")
    BY <1>7
  <2> QED
    BY <2>1, <2>2, <2>3
<1>11. st[cur] = "RUNNING" => queued[cur] = "READY"
  BY <1>3, <1>4, <1>7
<1> QED
  BY <1>6, <1>9, <1>10, <1>11 DEF Moves

\* uthread_exit
LEMMA ExitMoves ==
  ASSUME Inv, Exit
  PROVE  Moves([state EXCEPT ![cur] = "FINISHED"], asleep, watch, due)
<1> DEFINE fin == [state EXCEPT ![cur] = "FINISHED"]
           polled == AfterPoll(fin, asleep, watch, due)
<1>1. /\ UserMode /\ PollLists(fin, asleep, watch, due)
      /\ \E woken \in WakeOrders(fin, asleep, watch, due) :
           Dispatch(polled, ready \o woken, Reap(polled))
  BY DEF Exit
<1>2. PICK woken \in WakeOrders(fin, asleep, watch, due) :
        Dispatch(polled, ready \o woken, Reap(polled))
  BY <1>1
<1>3. /\ cur \in Thread /\ state \in [Thread -> States]
      /\ asleep \subseteq Thread /\ watch \subseteq Thread
      /\ state[cur] = "RUNNING"
      /\ cur \notin asleep \cup watch /\ cur \notin Range(ready)
  BY <1>1, CallerFacts
<1>4. /\ ready \in Seq(Thread) /\ policy \in AllPolicies
      /\ idle \in [Thread -> 0 .. MaxNest]
  BY DEF Inv, TypeOK
<1>5. /\ fin \in [Thread -> States] /\ fin[cur] = "FINISHED"
      /\ \A t \in Thread : t # cur => fin[t] = state[t]
  BY <1>3 DEF States
<1>6. Listed(fin, ready) /\ Parked(fin, asleep, watch, due)
  BY <1>3, <1>5 DEF Inv, ReadyListed, Listed, ParkedSound, Parked
<1> HIDE DEF fin
<1>7. /\ polled \in [Thread -> States]
      /\ ready \o woken \in Seq(Thread)
      /\ Listed(polled, ready \o woken)
      /\ \A t \in Thread : \/ polled[t] = fin[t]
                           \/ fin[t] = "IO_BLOCKED" /\ polled[t] = "READY"
  BY <1>1, <1>2, <1>3, <1>4, <1>5, <1>6, PollOutcome
<1>8. \A t \in Thread : polled[t] # fin[t] => t \in due /\ t \in asleep \cup watch
  BY PollWakes
<1> HIDE DEF polled
<1>9. \A t \in Thread : \/ Reap(polled)[t] = polled[t]
                        \/ polled[t] = "FINISHED" /\ Reap(polled)[t] = "NONE"
  BY DEF Reap
<1>10. /\ \A t \in Thread :
            /\ polled[t] = "READY" =>
                 state'[t] = "READY" \/ (state'[t] = "RUNNING" /\ cur' = t)
            /\ state'[t] = "RUNNING" => polled[t] \in {"READY", "RUNNING"}
            /\ polled[t] = "IO_BLOCKED" => state'[t] = "IO_BLOCKED"
            /\ t # cur => idle'[t] = idle[t]
       /\ cur' # cur => polled[cur'] = "READY"
       /\ cur' \in Thread
  <2> DEFINE q == ready \o woken
             end == Reap(polled)
  <2>1. /\ q \in Seq(Thread) /\ Listed(polled, q) /\ Dispatch(polled, q, end)
        /\ \A t \in Thread : end[t] = polled[t] \/ (polled[t] = "FINISHED" /\ end[t] = "NONE")
    BY <1>2, <1>7, <1>9
  <2>2. /\ polled \in [Thread -> States] /\ cur \in Thread
        /\ policy \in AllPolicies /\ idle \in [Thread -> 0 .. MaxNest]
    BY <1>3, <1>4, <1>7
  <2> HIDE DEF q, end
  <2> QED
    BY <2>1, <2>2, DispatchMoves
<1>11. asleep' \subseteq asleep /\ watch' \subseteq watch /\ due' = {}
  BY <1>1 DEF PollLists
<1> QED
  BY <1>5, <1>7, <1>8, <1>10, <1>11 DEF Moves, fin

\* A turn of the idle loop
LEMMA IdleMoves ==
  ASSUME Inv, IdlePoll
  PROVE  Moves(state, asleep, watch, due)
<1> DEFINE polled == AfterPoll(state, asleep, watch, due)
<1>1. /\ idle[cur] > 0
      /\ PollLists(state, asleep, watch, due)
      /\ \E woken \in WakeOrders(state, asleep, watch, due) :
         \E i \in ScheduleNext(polled, ready \o woken) :
           \/ /\ i # 0
              /\ SwitchTo(polled, ready \o woken, i)
              /\ idle' = [idle EXCEPT ![cur] = @ - 1]
           \/ /\ i = 0
              /\ state' = polled /\ ready' = ready \o woken
              /\ UNCHANGED <<cur, idle>>
  BY DEF IdlePoll
<1>2. PICK woken \in WakeOrders(state, asleep, watch, due) :
        \E i \in ScheduleNext(polled, ready \o woken) :
          \/ /\ i # 0
             /\ SwitchTo(polled, ready \o woken, i)
             /\ idle' = [idle EXCEPT ![cur] = @ - 1]
          \/ /\ i = 0
             /\ state' = polled /\ ready' = ready \o woken
             /\ UNCHANGED <<cur, idle>>
  BY <1>1
<1>3. /\ cur \in Thread /\ state \in [Thread -> States]
      /\ asleep \subseteq Thread /\ watch \subseteq Thread
      /\ ready \in Seq(Thread) /\ policy \in AllPolicies
      /\ idle \in [Thread -> 0 .. MaxNest]
      /\ Listed(state, ready) /\ Parked(state, asleep, watch, due)
  BY DEF Inv, TypeOK, ReadyListed, ParkedSound
<1>4. /\ polled \in [Thread -> States]
      /\ ready \o woken \in Seq(Thread)
      /\ Listed(polled, ready \o woken)
      /\ \A t \in Thread : \/ polled[t] = state[t]
                           \/ state[t] = "IO_BLOCKED" /\ polled[t] = "READY"
  BY <1>1, <1>3, PollOutcome
<1>5. \A t \in Thread : polled[t] # state[t] => t \in due /\ t \in asleep \cup watch
  BY PollWakes
<1>6. asleep' \subseteq asleep /\ watch' \subseteq watch /\ due' = {}
  BY <1>1 DEF PollLists
<1> HIDE DEF polled
<1>7. PICK i \in ScheduleNext(polled, ready \o woken) :
        \/ /\ i # 0
           /\ SwitchTo(polled, ready \o woken, i)
           /\ idle' = [idle EXCEPT ![cur] = @ - 1]
        \/ /\ i = 0
           /\ state' = polled
           /\ UNCHANGED <<cur, idle>>
  BY <1>2
<1>8. /\ \A t \in Thread : t # cur => idle'[t] = idle[t]
      /\ \/ state' = polled /\ cur' = cur
         \/ /\ cur' \in Thread /\ polled[cur'] = "READY" /\ state'[cur'] = "RUNNING"
            /\ \A t \in Thread : t # cur' => state'[t] = polled[t]
  <2>1. CASE i # 0
    <3>1. i \in 1 .. Len(ready \o woken)
      BY <1>3, <1>4, <2>1, ScheduleNextInQueue
    <3> QED
      BY <1>3, <1>4, <1>7, <2>1, <3>1, SwitchToListed
  <2>2. CASE i = 0
    BY <1>7, <2>2
  <2> QED
    BY <2>1, <2>2
<1> QED
  BY <1>1, <1>3, <1>4, <1>5, <1>6, <1>8 DEF Moves

-----------------------------------------------------------------------------
(* What the steps do to the calls. *)

\* A thread that is not the caller of a dispatching step, or is interrupted.
LEMMA MovedCall ==
  ASSUME Inv, ~exited, NEW t \in Thread, CallSound(t),
         NEW st, NEW sl, NEW wt, NEW du, Moves(st, sl, wt, du),
         st[t] = state[t], t \in sl => t \in asleep, t \in wt => t \in watch,
         t \in du => t \in due,
         at'[t] = at[t], fd'[t] = fd[t], units' = units,
         errno' = errno \/ at[cur] = "register" \/ idle[cur] # 0,
         Track
  PROVE  CallSound(t)'
<1>1. /\ at[t] # "none" => fd[t] \in Fd
      /\ at[t] \in {"test", "register"} =>
           /\ idle[t] = 0
           /\ state[t] = "READY" \/ (state[t] = "RUNNING" /\ t = cur)
      /\ at[t] # "none" /\ state[t] = "READY" => t \in crossed
      /\ t \in asleep => at[t] = "none"
      /\ t \in watch => at[t] = "retry"
      /\ t \in due \cap watch => units[fd[t]] > 0
      /\ at[t] = "test" /\ t \notin crossed => errno = "EAGAIN"
      /\ t = cur /\ at[t] = "retry" /\ t \notin crossed /\ state[t] = "RUNNING" =>
           units[fd[t]] > 0
  BY DEF CallSound
<1>2. t \in crossed' <=> at[t] # "none" /\ (t \in crossed \/ state'[t] = "READY")
  BY DEF Track
<1>3. /\ state[t] = "IO_BLOCKED" /\ state'[t] # "IO_BLOCKED" =>
           t \in due /\ t \in asleep \cup watch
      /\ state[t] = "READY" => state'[t] = "READY" \/ (state'[t] = "RUNNING" /\ cur' = t)
      /\ state'[t] = "RUNNING" => state[t] \in {"READY", "RUNNING", "IO_BLOCKED"}
      /\ t # cur => idle'[t] = idle[t]
      /\ cur' # cur /\ cur' = t => state[t] \in {"READY", "IO_BLOCKED"}
      /\ t = cur /\ state[cur] = "RUNNING" /\ idle[cur] = 0 =>
           /\ idle'[cur] = 0
           /\ state'[cur] = "READY" \/ (state'[cur] = "RUNNING" /\ cur' = cur)
      /\ t \in asleep' => t \in asleep
      /\ t \in watch' => t \in watch
      /\ t \notin due'
  BY DEF Moves
<1>4. t = cur /\ idle[t] = 0 => state[t] = "RUNNING"
  BY DEF Inv, UserRuns, UserMode
<1>5. ASSUME at[t] \in {"test", "register"}
      PROVE  /\ idle'[t] = 0
             /\ state'[t] = "READY" \/ (state'[t] = "RUNNING" /\ t = cur')
  BY <1>1, <1>3, <1>4, <1>5
<1>6. ASSUME at[t] = "test", t \notin crossed'  PROVE  errno' = "EAGAIN"
  BY <1>1, <1>2, <1>6
<1>7. ASSUME t = cur', at[t] = "retry", t \notin crossed', state'[t] = "RUNNING"
      PROVE  units[fd[t]] > 0
  <2>1. state[t] # "READY" /\ t \notin crossed
    BY <1>1, <1>2, <1>7
  <2>2. CASE state[t] = "RUNNING"
    BY <1>1, <1>3, <1>7, <2>1, <2>2
  <2>3. CASE state[t] = "IO_BLOCKED"
    BY <1>1, <1>3, <1>7, <2>3
  <2> QED
    BY <1>3, <1>7, <2>1, <2>2, <2>3
<1> QED
  BY <1>1, <1>2, <1>3, <1>5, <1>6, <1>7 DEF CallSound

\* A step that dispatches nothing, seen from a thread that is not making it.
LEMMA StillCall ==
  ASSUME NEW t \in Thread, CallSound(t), Track,
         UNCHANGED <<state, cur, idle, asleep, watch>>,
         at'[t] = at[t], fd'[t] = fd[t],
         t \in due' \cap watch => units'[fd[t]] > 0,
         errno' = errno \/ errno' = "EAGAIN",
         t = cur /\ at[t] = "retry" /\ units[fd[t]] > 0 => units'[fd[t]] > 0
  PROVE  CallSound(t)'
<1>1. t \in crossed' <=> at[t] # "none" /\ (t \in crossed \/ state'[t] = "READY")
  BY DEF Track
<1> QED
  BY <1>1 DEF CallSound

\* The threads that are not making a dispatching step.
LEMMA OtherCalls ==
  ASSUME Inv, CallsSound, ~exited,
         NEW st, NEW sl, NEW wt, NEW du, Moves(st, sl, wt, du),
         \A t \in Thread : t # cur =>
           /\ st[t] = state[t] /\ at'[t] = at[t]
           /\ (t \in sl => t \in asleep) /\ (t \in wt => t \in watch)
           /\ (t \in du => t \in due),
         fd' = fd, units' = units, errno' = errno \/ at[cur] = "register",
         Track
  PROVE  \A t \in Thread : t # cur => CallSound(t)'
<1> SUFFICES ASSUME NEW t \in Thread, t # cur  PROVE  CallSound(t)'
  OBVIOUS
<1>1. /\ st[t] = state[t] /\ at'[t] = at[t] /\ fd'[t] = fd[t]
      /\ t \in sl => t \in asleep
      /\ t \in wt => t \in watch
      /\ t \in du => t \in due
  OBVIOUS
<1>2. CallSound(t)
  BY DEF CallsSound
<1> QED
  BY <1>1, <1>2, MovedCall

\* Waiting for the descriptor: what the thread finds if nobody else runs.
LEMMA RegisterCalls ==
  ASSUME Inv, CallsSound, Register, Track
  PROVE  CallsSound'
<1> DEFINE f == fd[cur]
           added == IF epollOk /\ Watching(f) = {} THEN {cur} ELSE {}
           early == IF units[f] > 0 THEN added ELSE {}
           st == [state EXCEPT ![cur] = "IO_BLOCKED"]
           sl == asleep
           wt == watch \cup added
           du == due \cup early
<1>1. /\ UserMode /\ at[cur] = "register"
      /\ YieldFrom(st, sl, wt, du)
      /\ at' = [at EXCEPT ![cur] = "retry"]
      /\ UNCHANGED <<units, fd>>
  BY DEF Register, InCall, GoOn
<1>2. /\ cur \in Thread /\ ~exited
      /\ asleep \subseteq Thread /\ watch \subseteq Thread
      /\ cur \notin asleep \cup watch
  BY <1>1, CallerFacts
<1>3. /\ st \in [Thread -> States] /\ st[cur] = "IO_BLOCKED"
      /\ \A t \in Thread : t # cur => st[t] = state[t]
      /\ Listed(st, ready)
      /\ Parked(st, asleep, watch, due)
  BY <1>1, BlockedCaller
<1>4. /\ added \subseteq {cur} /\ early \subseteq added
      /\ cur \in early => units[f] > 0
  OBVIOUS
<1> HIDE DEF st, added, early
<1>5. /\ Parked(st, sl, wt, du)
      /\ sl \subseteq Thread /\ wt \subseteq Thread
  BY <1>2, <1>3, <1>4 DEF Parked
<1>6. Moves(st, sl, wt, du)
  <2>1. /\ ready \in Seq(Thread) /\ policy \in AllPolicies
        /\ idle \in [Thread -> 0 .. MaxNest]
    BY DEF Inv, TypeOK
  <2> HIDE DEF sl, wt, du
  <2> QED
    BY <1>1, <1>2, <1>3, <1>5, <2>1, YieldMoves
<1>7. \A t \in Thread : t # cur => CallSound(t)'
  <2>1. IoTypeOK
    BY DEF CallsSound
  <2>2. \A t \in Thread : t # cur =>
          /\ st[t] = state[t] /\ at'[t] = at[t]
          /\ (t \in sl => t \in asleep) /\ (t \in wt => t \in watch)
          /\ (t \in du => t \in due)
    BY <1>1, <1>3, <1>4, <2>1 DEF IoTypeOK
  <2>3. fd' = fd /\ units' = units
    BY <1>1
  <2> HIDE DEF sl, wt, du
  <2> QED
    BY <1>1, <1>2, <1>6, <2>2, <2>3, OtherCalls
<1>8. ASSUME NEW c \in Thread, c = cur  PROVE  CallSound(c)'
  <2>1. fd'[cur] \in Fd /\ at'[cur] = "retry" /\ cur \in Thread
    BY <1>1, <1>2 DEF CallsSound, CallSound, IoTypeOK
  <2>2. cur \in crossed' <=> cur \in crossed \/ state'[cur] = "READY"
    BY <2>1 DEF Track
  <2>3. cur \notin asleep' /\ due' = {}
    BY <1>2, <1>6 DEF Moves
  <2>4. cur' = cur /\ state'[cur] = "RUNNING" => units'[fd'[cur]] > 0
    <3>1. ASSUME state'[cur] = "RUNNING"  PROVE  cur \in du
      BY <1>2, <1>3, <1>6, <3>1 DEF Moves
    <3>2. cur \notin due
      BY <1>2 DEF Inv, ParkedSound, Parked
    <3> QED
      BY <1>1, <1>4, <3>1, <3>2
  <2> QED
    BY <2>1, <2>2, <2>3, <2>4, <1>8 DEF CallSound
<1> QED
  BY <1>1, <1>7, <1>8 DEF CallsSound, IoTypeOK

\* The caller leaves, or does something else than a call.
LEMMA ClientCalls ==
  ASSUME Inv, CallsSound, UserMode, at[cur] = "none", Track,
         NEW st, NEW sl, NEW du, Moves(st, sl, watch, du),
         \A t \in Thread : t # cur =>
           /\ st[t] = state[t]
           /\ (t \in sl => t \in asleep) /\ (t \in du => t \in due),
         UNCHANGED callVars
  PROVE  CallsSound'
<1>1. /\ at' = at /\ fd' = fd /\ units' = units /\ errno' = errno
  BY DEF callVars
<1>2. ~exited /\ cur \notin watch
  BY CallerFacts DEF UserMode
<1>3. \A t \in Thread : t # cur => CallSound(t)'
  BY <1>1, <1>2, OtherCalls
<1>4. ASSUME NEW c \in Thread, c = cur  PROVE  CallSound(c)'
  <2>1. c \notin watch' /\ c \notin due' /\ at'[c] = "none"
    BY <1>1, <1>2, <1>4 DEF Moves
  <2> QED
    BY <2>1 DEF CallSound
<1> QED
  BY <1>1, <1>3, <1>4 DEF CallsSound, IoTypeOK

\* The steps of a thread that is in no call
LEMMA ClientStepCalls ==
  ASSUME Inv, CallsSound, ClientStep, UNCHANGED callVars, Track
  PROVE  CallsSound'
<1>1. at[cur] = "none" /\ UserMode
  BY DEF ClientStep, Yield, Sleep, Exit, Create
<1>2. /\ cur \in Thread /\ state \in [Thread -> States]
      /\ asleep \subseteq Thread /\ watch \subseteq Thread
      /\ cur \notin asleep \cup watch
  BY <1>1, CallerFacts
<1>3. /\ ready \in Seq(Thread) /\ policy \in AllPolicies
      /\ idle \in [Thread -> 0 .. MaxNest]
      /\ Listed(state, ready) /\ Parked(state, asleep, watch, due)
  BY DEF Inv, TypeOK, ReadyListed, ParkedSound
<1>4. CASE Yield
  <2>1. YieldFrom(state, asleep, watch, due)
    BY <1>4 DEF Yield
  <2>2. Moves(state, asleep, watch, due)
    BY <1>2, <1>3, <2>1, YieldMoves
  <2> QED
    BY <1>1, <2>2, ClientCalls
<1>5. CASE Sleep
  <2> DEFINE st == [state EXCEPT ![cur] = "IO_BLOCKED"]
  <2>1. PICK late \in SUBSET {cur} :
          YieldFrom(st, asleep \cup {cur}, watch, due \cup late)
    BY <1>5 DEF Sleep
  <2> DEFINE sl == asleep \cup {cur}
             du == due \cup late
  <2>2. /\ st \in [Thread -> States] /\ st[cur] = "IO_BLOCKED"
        /\ \A t \in Thread : t # cur => st[t] = state[t]
        /\ Listed(st, ready)
        /\ Parked(st, asleep, watch, due)
    BY <1>1, BlockedCaller
  <2> HIDE DEF st
  <2>3. Parked(st, sl, watch, du) /\ sl \subseteq Thread
    BY <1>2, <2>2 DEF Parked
  <2>4. YieldFrom(st, sl, watch, du)
    BY <2>1
  <2>5. \A t \in Thread : t # cur =>
          /\ st[t] = state[t]
          /\ (t \in sl => t \in asleep) /\ (t \in du => t \in due)
    BY <2>2
  <2> HIDE DEF sl, du
  <2>6. Moves(st, sl, watch, du)
    BY <1>2, <1>3, <2>2, <2>3, <2>4, YieldMoves
  <2> QED
    BY <1>1, <2>5, <2>6, ClientCalls
<1>6. CASE Exit
  <2> DEFINE st == [state EXCEPT ![cur] = "FINISHED"]
  <2>1. Moves(st, asleep, watch, due)
    BY <1>6, ExitMoves
  <2>2. \A t \in Thread : t # cur => st[t] = state[t]
    BY <1>2
  <2> HIDE DEF st
  <2> QED
    BY <1>1, <2>1, <2>2, ClientCalls
<1>7. CASE \E p \in Priorities : Create(p)
  <2>1. PICK p \in Priorities : Create(p)
    BY <1>7
  <2>2. /\ state' = [Reap(state) EXCEPT ![nextId] = "READY"]
        /\ UNCHANGED <<cur, idle, asleep, watch, due>>
        /\ nextId \in Thread
        /\ UNCHANGED <<units, errno, at, fd>>
    BY <2>1 DEF Create, Inv, TypeOK, Thread, callVars
  <2>3. \A t \in Thread : \/ Reap(state)[t] = state[t]
                          \/ state[t] = "FINISHED" /\ Reap(state)[t] = "NONE"
    BY <1>2, ReapKeeps
  <2>4. state[nextId] = "NONE" /\ state[cur] = "RUNNING"
    BY <1>1, <2>2, CallerFacts DEF Inv, Fresh, Thread
  <2>5. \A t \in Thread :
          \/ state'[t] = state[t]
          \/ state[t] = "FINISHED" /\ state'[t] = "NONE"
          \/ state[t] = "NONE" /\ state'[t] = "READY"
    BY <1>2, <2>2, <2>3, <2>4, ReapKeeps
  <2>6. ASSUME NEW t \in Thread  PROVE  CallSound(t)'
    <3>1. t \in crossed' <=> at'[t] # "none" /\ (t \in crossed \/ state'[t] = "READY")
      BY DEF Track
    <3>2. CallSound(t)
      BY DEF CallsSound
    <3> QED
      BY <2>2, <2>4, <2>5, <3>1, <3>2 DEF CallSound
  <2> QED
    BY <2>2, <2>6 DEF CallsSound, IoTypeOK
<1> QED
  BY <1>4, <1>5, <1>6, <1>7 DEF ClientStep

\* An alarm, or a turn of the idle loop.
LEMMA SystemCalls ==
  ASSUME Inv, CallsSound, Tick \/ Turn
  PROVE  CallsSound'
<1>1. /\ ~exited /\ Track
      /\ UNCHANGED <<units, at, fd>>
      /\ errno' = errno \/ idle[cur] # 0
  BY DEF Tick, Turn, Alarm, IdlePoll, callVars
<1>2. Moves(state, asleep, watch, due)
  <2>1. CASE Tick
    <3>1. YieldFrom(state, asleep, watch, due)
      BY <2>1 DEF Tick, Alarm
    <3>2. /\ ready \in Seq(Thread) /\ policy \in AllPolicies
          /\ idle \in [Thread -> 0 .. MaxNest]
          /\ cur \in Thread /\ state \in [Thread -> States]
          /\ asleep \subseteq Thread /\ watch \subseteq Thread
          /\ Listed(state, ready) /\ Parked(state, asleep, watch, due)
      BY DEF Inv, TypeOK, ReadyListed, ParkedSound
    <3> QED
      BY <3>1, <3>2, YieldMoves
  <2>2. CASE Turn
    BY <2>2, IdleMoves DEF Turn
  <2> QED
    BY <2>1, <2>2
<1>3. ASSUME NEW t \in Thread  PROVE  CallSound(t)'
  <2>1. CallSound(t)
    BY DEF CallsSound
  <2>2. /\ at'[t] = at[t] /\ fd'[t] = fd[t] /\ units' = units
        /\ errno' = errno \/ at[cur] = "register" \/ idle[cur] # 0
    BY <1>1
  <2> QED
    BY <1>1, <1>2, <2>1, <2>2, MovedCall
<1> QED
  BY <1>1, <1>3 DEF CallsSound, IoTypeOK

\* A read, within Try or Retry.
LEMMA ReadCalls ==
  ASSUME Inv, CallsSound, UserMode, Track, NEW f \in Fd, TakeUnit(f) \/ FindNone(f),
         at' = [at EXCEPT ![cur] = "none"] \/ (at' = at /\ at[cur] = "none")
           \/ (FindNone(f) /\ at' = [at EXCEPT ![cur] = "test"]),
         fd' = fd \/ (fd' = [fd EXCEPT ![cur] = f] /\ at[cur] = "none")
  PROVE  CallsSound'
<1>1. /\ cur \in Thread /\ cur \notin watch
  BY CallerFacts
<1>2. /\ IoTypeOK /\ \A t \in Thread : CallSound(t)
  BY DEF CallsSound
<1>3. /\ UNCHANGED <<state, cur, idle, asleep, watch>>
      /\ errno' = errno \/ (errno' = "EAGAIN" /\ FindNone(f))
      /\ due' \subseteq due
  BY DEF TakeUnit, FindNone, vars
<1>4. /\ units' \in [Fd -> Nat]
      /\ \A g \in Fd : units[g] > 0 =>
           \/ units'[g] > 0
           \/ g = f /\ units[f] = 1 /\ due' = due \ Watching(f)
  <2>1. CASE TakeUnit(f)
    <3>1. /\ units[f] > 0 /\ units' = [units EXCEPT ![f] = units[f] - 1]
          /\ units[f] = 1 => due' = due \ Watching(f)
      BY <2>1 DEF TakeUnit
    <3>2. units \in [Fd -> Nat]
      BY <1>2 DEF IoTypeOK
    <3>3. \A g \in Fd : g # f => units'[g] = units[g]
      BY <3>1, <3>2
    <3>4. units'[f] = units[f] - 1 /\ units[f] \in Nat
      BY <3>1, <3>2
    <3> QED
      BY <3>1, <3>2, <3>3, <3>4
  <2>2. CASE FindNone(f)
    BY <1>2, <2>2 DEF FindNone, IoTypeOK
  <2> QED
    BY <2>1, <2>2
<1>5. ASSUME NEW t \in Thread, t # cur  PROVE  CallSound(t)'
  <2>1. at'[t] = at[t] /\ fd'[t] = fd[t]
    BY <1>2, <1>5 DEF IoTypeOK
  <2>2. CallSound(t)
    BY <1>2
  <2>3. ASSUME t \in due' \cap watch  PROVE  units'[fd[t]] > 0
    <3>1. t \in due /\ t \in watch /\ at[t] = "retry"
      BY <1>3, <2>2, <2>3 DEF CallSound
    <3>2. fd[t] \in Fd /\ units[fd[t]] > 0
      BY <2>2, <3>1 DEF CallSound
    <3>3. t \in Watching(fd[t])
      BY <3>1 DEF Watching
    <3> QED
      BY <1>4, <2>3, <3>2, <3>3
  <2> QED
    BY <1>3, <1>5, <2>1, <2>2, <2>3, StillCall
<1>6. ASSUME NEW t \in Thread, t = cur  PROVE  CallSound(t)'
  <2>1. /\ at'[cur] = "none" \/ (at'[cur] = "test" /\ FindNone(f))
    BY <1>1, <1>2 DEF IoTypeOK
  <2>2. FindNone(f) => units[f] = 0 /\ errno' = "EAGAIN"
    BY DEF FindNone
  <2>3. /\ state[cur] = "RUNNING" /\ idle[cur] = 0 /\ cur \notin asleep \cup watch
    BY CallerFacts DEF UserMode
  <2>4. at[cur] # "none" => fd[cur] \in Fd
    BY <1>1, <1>2 DEF CallSound
  <2>5. at'[cur] # "none" => fd'[cur] \in Fd
    BY <1>1, <1>2, <2>4 DEF IoTypeOK
  <2> QED
    BY <1>3, <1>6, <2>1, <2>2, <2>3, <2>5 DEF CallSound
<1>7. IoTypeOK'
  BY <1>2, <1>4 DEF IoTypeOK
<1> QED
  BY <1>5, <1>6, <1>7 DEF CallsSound

\* The call's test of errno
LEMMA TestCalls ==
  ASSUME Inv, CallsSound, Test, Track
  PROVE  CallsSound'
<1>1. /\ UserMode /\ at[cur] = "test"
      /\ at' = [at EXCEPT ![cur] = IF errno = "EAGAIN" THEN "register" ELSE "none"]
      /\ UNCHANGED <<state, cur, idle, asleep, watch, due, units, errno, fd>>
  BY DEF Test, InCall, GoOn, vars
<1>2. cur \in Thread /\ IoTypeOK /\ \A t \in Thread : CallSound(t)
  BY <1>1, CallerFacts DEF CallsSound
<1>3. /\ at'[cur] \in {"register", "none"}
      /\ \A t \in Thread : t # cur => at'[t] = at[t]
      /\ at' \in [Thread -> {"none", "test", "register", "retry"}]
  BY <1>1, <1>2 DEF IoTypeOK
<1>4. ASSUME NEW t \in Thread, t # cur  PROVE  CallSound(t)'
  <2>1. CallSound(t) /\ at'[t] = at[t]
    BY <1>2, <1>3, <1>4
  <2>2. t \in due' \cap watch => units'[fd[t]] > 0
    BY <1>1, <2>1 DEF CallSound
  <2> QED
    BY <1>1, <1>4, <2>1, <2>2, StillCall
<1>5. ASSUME NEW t \in Thread, t = cur  PROVE  CallSound(t)'
  <2>1. fd[cur] \in Fd
    BY <1>1, <1>2 DEF CallSound
  <2>2. /\ state[cur] = "RUNNING" /\ idle[cur] = 0 /\ cur \notin asleep \cup watch
    BY <1>1, CallerFacts DEF UserMode
  <2> QED
    BY <1>1, <1>3, <1>5, <2>1, <2>2 DEF CallSound
<1> QED
  BY <1>1, <1>2, <1>3, <1>4, <1>5 DEF CallsSound, IoTypeOK

\* The outside world: a unit, or a deadline
LEMMA OutsideCalls ==
  ASSUME Inv, CallsSound, Track,
         \/ \E f \in Fd : Arrive(f)
         \/ \E t \in asleep : Expire(t) /\ UNCHANGED callVars
  PROVE  CallsSound'
<1>1. /\ UNCHANGED <<state, cur, idle, asleep, watch, errno, at, fd>>
  BY DEF Arrive, Expire, callVars
<1>2. IoTypeOK /\ \A t \in Thread : CallSound(t)
  BY DEF CallsSound
<1>3. CASE \E f \in Fd : Arrive(f)
  <2>1. PICK f \in Fd : Arrive(f)
    BY <1>3
  <2>2. units' = [units EXCEPT ![f] = units[f] + 1] /\ due' = due \cup Watching(f)
    BY <2>1 DEF Arrive
  <2>3. /\ units' \in [Fd -> Nat] /\ units'[f] > 0
        /\ \A g \in Fd : g # f => units'[g] = units[g]
    BY <1>2, <2>2 DEF IoTypeOK
  <2>4. ASSUME NEW t \in Thread  PROVE  CallSound(t)'
    <3>1. CallSound(t)
      BY <1>2
    <3>2. t \in due' \cap watch => units'[fd[t]] > 0
      <4>1. t \in Watching(f) => fd[t] = f
        BY DEF Watching
      <4> QED
        BY <2>2, <2>3, <3>1, <4>1 DEF CallSound
    <3>3. t = cur /\ at[t] = "retry" /\ units[fd[t]] > 0 => units'[fd[t]] > 0
      BY <2>3, <3>1 DEF CallSound
    <3> QED
      BY <1>1, <3>1, <3>2, <3>3, StillCall
  <2> QED
    BY <1>1, <1>2, <2>3, <2>4 DEF CallsSound, IoTypeOK
<1>4. CASE \E u \in asleep : Expire(u) /\ UNCHANGED callVars
  <2>1. PICK u \in asleep : Expire(u) /\ UNCHANGED callVars
    BY <1>4
  <2>2. due' = due \cup {u} /\ u \notin watch /\ units' = units
    BY <2>1 DEF Expire, callVars, Inv, ParkedSound, Parked
  <2>3. ASSUME NEW t \in Thread  PROVE  CallSound(t)'
    <3>1. CallSound(t)
      BY <1>2
    <3>2. t \in due' \cap watch => units'[fd[t]] > 0
      BY <2>2, <3>1 DEF CallSound
    <3> QED
      BY <1>1, <2>2, <3>1, <3>2, StillCall
  <2> QED
    BY <1>1, <1>2, <2>2, <2>3 DEF CallsSound, IoTypeOK
<1> QED
  BY <1>3, <1>4

\* Every step keeps what the calls rely on.
LEMMA StepCalls ==
  ASSUME Inv, CallsSound, [IoNext]_ioVars
  PROVE  CallsSound'
<1>1. CASE Tick \/ Turn
  BY <1>1, SystemCalls
<1>2. CASE \E t \in Thread : Late(t)
  BY <1>2, OutsideCalls DEF Late
<1>3. CASE UserMove
  <2>1. Track
    BY <1>3 DEF UserMove
  <2>2. CASE Test
    BY <2>1, <2>2, TestCalls
  <2>3. CASE Register
    BY <2>1, <2>3, RegisterCalls
  <2>4. CASE Retry
    <3>1. /\ UserMode /\ at[cur] = "retry" /\ fd' = fd
          /\ TakeUnit(fd[cur]) \/ FindNone(fd[cur])
          /\ at' = [at EXCEPT ![cur] = "none"]
      BY <2>4 DEF Retry, InCall, GoOn
    <3>2. fd[cur] \in Fd
      BY <3>1, CallerFacts DEF CallsSound, CallSound
    <3> QED
      BY <2>1, <3>1, <3>2, ReadCalls
  <2>5. CASE \E f \in Fd : Try(f)
    <3>1. PICK f \in Fd : Try(f)
      BY <2>5
    <3>2. /\ UserMode /\ at[cur] = "none" /\ fd' = [fd EXCEPT ![cur] = f]
          /\ \/ TakeUnit(f) /\ at' = at
             \/ FindNone(f) /\ at' = [at EXCEPT ![cur] = "test"]
      BY <3>1 DEF Try, InCall, GoOn
    <3> QED
      BY <2>1, <3>2, ReadCalls
  <2>6. CASE \E f \in Fd : Arrive(f)
    BY <2>1, <2>6, OutsideCalls
  <2>7. CASE ClientStep /\ UNCHANGED callVars
    BY <2>1, <2>7, ClientStepCalls
  <2>8. CASE Terminated /\ UNCHANGED callVars
    <3>1. UNCHANGED <<state, cur, idle, asleep, watch, due, units, errno, at, fd>>
      BY <2>8 DEF Terminated, vars, callVars
    <3>2. ASSUME NEW t \in Thread  PROVE  CallSound(t)'
      <4>1. CallSound(t)
        BY DEF CallsSound
      <4>2. t \in due' \cap watch => units'[fd[t]] > 0
        BY <3>1, <4>1 DEF CallSound
      <4> QED
        BY <2>1, <3>1, <4>1, <4>2, StillCall
    <3> QED
      BY <3>1, <3>2 DEF CallsSound, IoTypeOK
  <2> QED
    BY <1>3, <2>2, <2>3, <2>4, <2>5, <2>6, <2>7, <2>8 DEF UserMove
<1>4. CASE UNCHANGED ioVars
  BY <1>4 DEF ioVars, vars, callVars, ghostVars, CallsSound, IoTypeOK, CallSound
<1> QED
  BY <1>1, <1>2, <1>3, <1>4 DEF IoNext

\* A call on a working descriptor returns without a unit only if its thread
\* has stood in the ready queue meanwhile: errno is then another's, or the unit
\* was taken between the wake-up and the second read.
THEOREM FailuresAreCrossed == IoSpec => FailsOnlyCrossed
<1> DEFINE Crossed == at[cur] # "none" /\ at'[cur] = "none" /\ units' = units
                        => cur \in crossed
<1>1. IoInit => CallsSound
  <2> SUFFICES ASSUME IoInit  PROVE  CallsSound
    OBVIOUS
  <2>1. /\ units = [f \in Fd |-> 0] /\ at = [t \in Thread |-> "none"]
        /\ fd = [t \in Thread |-> CHOOSE f \in Fd : TRUE]
        /\ watch = {}
    BY DEF IoInit, Init
  <2> QED
    BY <2>1 DEF CallsSound, IoTypeOK, CallSound
<1>2. Inv /\ CallsSound /\ [IoNext]_ioVars => CallsSound'
  BY StepCalls
<1>3. Inv /\ CallsSound /\ [IoNext]_ioVars => [Crossed]_ioVars
  <2> SUFFICES ASSUME Inv, CallsSound, IoNext,
                      at[cur] # "none", at'[cur] = "none", units' = units
               PROVE  cur \in crossed
    OBVIOUS
  <2>1. /\ cur \in Thread /\ IoTypeOK /\ CallSound(cur)
    BY DEF Inv, TypeOK, CallsSound
  <2>2. Test \/ Retry
    <3>1. at' # at
      OBVIOUS
    <3>2. ~(Tick \/ Turn \/ \E t \in Thread : Late(t))
      BY <3>1 DEF Tick, Turn, Late, callVars
    <3>3. ~(ClientStep \/ Terminated) \/ ~UNCHANGED callVars
      BY <3>1 DEF callVars
    <3>4. ~\E f \in Fd : Arrive(f)
      BY <3>1 DEF Arrive
    <3>5. ~\E f \in Fd : Try(f)
      BY DEF Try, InCall
    <3>6. ~Register
      BY <2>1 DEF Register, GoOn, IoTypeOK
    <3> QED
      BY <3>2, <3>3, <3>4, <3>5, <3>6 DEF IoNext, UserMove
  <2>3. UserMode /\ (at[cur] = "test" \/ at[cur] = "retry")
    BY <2>2 DEF Test, Retry, InCall
  <2>4. CASE Test
    <3>1. at[cur] = "test" /\ errno # "EAGAIN"
      BY <2>1, <2>4 DEF Test, InCall, GoOn, IoTypeOK
    <3> QED
      BY <2>1, <3>1 DEF CallSound
  <2>5. CASE Retry
    <3>1. /\ UserMode /\ at[cur] = "retry"
          /\ TakeUnit(fd[cur]) \/ FindNone(fd[cur])
      BY <2>5 DEF Retry, InCall
    <3>2. fd[cur] \in Fd /\ state[cur] = "RUNNING"
      BY <2>1, <3>1, CallerFacts DEF CallSound
    <3>3. ~TakeUnit(fd[cur])
      <4>1. units[fd[cur]] - 1 # units[fd[cur]]
        BY <2>1, <3>2 DEF IoTypeOK
      <4> QED
        BY <2>1, <3>2, <4>1 DEF TakeUnit, IoTypeOK
    <3>4. units[fd[cur]] = 0
      BY <3>1, <3>3 DEF FindNone
    <3> QED
      BY <2>1, <3>1, <3>2, <3>4 DEF CallSound
  <2> QED
    BY <2>2, <2>4, <2>5
<1>4. IoSpec => [][Crossed]_ioVars
  <2> HIDE DEF Crossed
  <2> QED
    BY <1>1, <1>2, <1>3, IoKeepsScheduler, PTL DEF IoSpec
<1> QED
  BY <1>4 DEF FailsOnlyCrossed

=============================================================================
