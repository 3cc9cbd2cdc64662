-------------------------- MODULE SchedulerProofs --------------------------
(***************************************************************************)
(* The scheduler keeps its queues and states consistent for every number   *)
(* of threads, every policy and every depth of nested alarms.              *)
(*                                                                         *)
(* The lemmas about Dispatch and YieldFrom take their arguments as the     *)
(* calls pass them (st, sl, wt, du), so they serve every call that ends    *)
(* in uthread_yield, those of other modules included.                      *)
(***************************************************************************)
EXTENDS Scheduler, QueueLemmas

\* The invariant that is inductive.  Fresh is what makes a new thread's id
\* absent from every list; the rest are the properties of Scheduler.
Inv ==
  /\ TypeOK
  /\ ReadyListed
  /\ ParkedSound
  /\ UserRuns
  /\ CurrentKept
  /\ Fresh

\* What a step of the scheduler may do to the states: one edge of the life
\* cycle, none that blocks or unblocks on a mutex or semaphore, and no thread
\* is stopped but by its own call.
StatesFollow ==
  \A t \in Thread : state'[t] # state[t] =>
    /\ <<state[t], state'[t]>> \in LifeCycle
    /\ state[t] # "BLOCKED" /\ state'[t] # "BLOCKED"
    /\ state[t] = "RUNNING" => t = cur

\* What BestDispatched says of one step.
BestLeft ==
  policy = "priority" /\ cur' # cur =>
    \A t \in Range(ready') :
      /\ prio[cur'] <= prio[t]
      /\ prio[cur'] = prio[t] => cur' < t

\* Where Inv holds, what a step leaves alone keeps it.
LEMMA InvUnchanged == Inv /\ UNCHANGED vars => Inv'
BY DEF Inv, vars, TypeOK, ReadyListed, Listed, ParkedSound, Parked, UserRuns,
       UserMode, CurrentKept, Fresh

LEMMA ThreadFacts ==
  /\ Main \in Thread
  /\ IsFiniteSet(Thread)
  /\ \A S : S \subseteq Thread => IsFiniteSet(S)
<1>1. MaxThreads \in Nat
  BY SchedulerAssumption
<1>2. Main \in Thread
  BY <1>1 DEF Main, Thread
<1>3. IsFiniteSet(Thread)
  BY <1>1, FS_Interval DEF Thread
<1> QED
  BY <1>2, <1>3, FS_Subset

\* A policy returns NULL or a position of the queue it was given.
LEMMA ScheduleNextInQueue ==
  ASSUME NEW st, NEW q \in Seq(Thread), policy \in AllPolicies,
         NEW i \in ScheduleNext(st, q)
  PROVE  i = 0 \/ i \in 1 .. Len(q)
<1>1. q # <<>> => 1 \in 1 .. Len(q)
  BY EmptySeq
<1>2. i \in RoundRobinNext(q) => i = 0 \/ i \in 1 .. Len(q)
  BY <1>1 DEF RoundRobinNext
<1>3. i \in PriorityNext(st, q) => i = 0 \/ i \in 1 .. Len(q)
  BY DEF PriorityNext
<1>4. CASE policy = "round_robin"
  BY <1>2, <1>4 DEF ScheduleNext
<1>5. CASE policy = "priority"
  BY <1>3, <1>5 DEF ScheduleNext
<1>6. CASE policy = "custom"
  BY <1>2, <1>6 DEF ScheduleNext
<1> QED
  BY <1>4, <1>5, <1>6 DEF AllPolicies

\* SwitchTo takes the chosen thread off the queue and makes it the RUNNING one.
LEMMA SwitchToListed ==
  ASSUME NEW st \in [Thread -> States], NEW q \in Seq(Thread), Listed(st, q),
         NEW k \in 1 .. Len(q), SwitchTo(st, q, k)
  PROVE  /\ state' \in [Thread -> States]
         /\ ready' \in Seq(Thread)
         /\ cur' \in Thread
         /\ st[cur'] = "READY"
         /\ state'[cur'] = "RUNNING"
         /\ \A t \in Thread : t # cur' => state'[t] = st[t]
         /\ Listed(state', ready')
<1>1. cur' = q[k] /\ state' = [st EXCEPT ![q[k]] = "RUNNING"]
  BY DEF SwitchTo
<1>2. q[k] \in Thread /\ q[k] \in Range(q)
  BY ElementOfSeq, InRange
<1>3. /\ ready' \in Seq(Thread)
      /\ IsInjective(ready')
      /\ Range(ready') = Range(q) \ {q[k]}
  BY InjectiveRemoveAt DEF SwitchTo, Listed
<1>4. st[q[k]] = "READY"
  BY <1>2 DEF Listed
<1>5. state' \in [Thread -> States]
  BY <1>1, <1>2 DEF States
<1>6. \A t \in Thread : state'[t] = "READY" <=> t \in Range(ready')
  BY <1>1, <1>2, <1>3 DEF Listed
<1> QED
  BY <1>1, <1>2, <1>3, <1>4, <1>5, <1>6 DEF Listed

\* Dispatch switches, starts an idle loop or ends the process.
LEMMA DispatchCases ==
  ASSUME NEW st, NEW q \in Seq(Thread), NEW fin, policy \in AllPolicies,
         Dispatch(st, q, fin)
  PROVE  \/ \E k \in 1 .. Len(q) : SwitchTo(st, q, k) /\ UNCHANGED <<idle, exited>>
         \/ /\ st[cur] # "READY" /\ CanIdle(st)
            /\ idle' = [idle EXCEPT ![cur] = @ + 1]
            /\ state' = st /\ ready' = q
            /\ UNCHANGED <<cur, exited>>
         \/ /\ st[cur] # "READY" /\ ~CanIdle(st)
            /\ exited' = TRUE
            /\ state' = fin /\ ready' = q
            /\ UNCHANGED <<cur, idle>>
<1>1. PICK i \in ScheduleNext(st, q) :
        \/ /\ i # 0
           /\ SwitchTo(st, q, i)
           /\ UNCHANGED <<idle, exited>>
        \/ /\ i = 0 /\ st[cur] = "READY"
           /\ \E k \in DOMAIN q : q[k] = cur /\ SwitchTo(st, q, k)
           /\ UNCHANGED <<idle, exited>>
        \/ /\ i = 0 /\ st[cur] # "READY" /\ CanIdle(st)
           /\ idle' = [idle EXCEPT ![cur] = @ + 1]
           /\ state' = st /\ ready' = q
           /\ UNCHANGED <<cur, exited>>
        \/ /\ i = 0 /\ st[cur] # "READY" /\ ~CanIdle(st)
           /\ exited' = TRUE
           /\ state' = fin /\ ready' = q
           /\ UNCHANGED <<cur, idle>>
  BY DEF Dispatch
<1>2. i = 0 \/ i \in 1 .. Len(q)
  BY ScheduleNextInQueue
<1>3. DOMAIN q = 1 .. Len(q)
  OBVIOUS
<1> QED
  BY <1>1, <1>2, <1>3

\* From a consistent queue, Dispatch leads to a consistent state.  fin, the
\* states that exit(0) leaves, may only have reclaimed some threads of st.
LEMMA DispatchOutcome ==
  ASSUME NEW st \in [Thread -> States], NEW q \in Seq(Thread), Listed(st, q),
         NEW fin \in [Thread -> States], Listed(fin, q), fin[cur] = st[cur],
         \A t \in Thread : \/ fin[t] = st[t]
                           \/ st[t] = "FINISHED" /\ fin[t] = "NONE",
         policy \in AllPolicies, cur \in Thread, st[cur] # "NONE",
         ~exited, idle \in [Thread -> 0 .. MaxNest], idle[cur] < MaxNest,
         Dispatch(st, q, fin)
  PROVE  /\ state' \in [Thread -> States]
         /\ ready' \in Seq(Thread)
         /\ cur' \in Thread
         /\ idle' \in [Thread -> 0 .. MaxNest]
         /\ exited' \in BOOLEAN
         /\ Listed(state', ready')
         /\ state'[cur'] # "NONE"
         /\ ~exited' /\ idle'[cur'] = 0 => state'[cur'] = "RUNNING"
         /\ \A t \in Thread : \/ state'[t] = st[t]
                              \/ st[t] = "READY" /\ state'[t] = "RUNNING"
                              \/ state'[t] = fin[t]
<1>1. CASE \E k \in 1 .. Len(q) : SwitchTo(st, q, k) /\ UNCHANGED <<idle, exited>>
  <2>1. PICK k \in 1 .. Len(q) : SwitchTo(st, q, k) /\ UNCHANGED <<idle, exited>>
    BY <1>1
  <2>2. /\ state' \in [Thread -> States]
        /\ ready' \in Seq(Thread)
        /\ cur' \in Thread
        /\ st[cur'] = "READY"
        /\ state'[cur'] = "RUNNING"
        /\ \A t \in Thread : t # cur' => state'[t] = st[t]
        /\ Listed(state', ready')
    BY <2>1, SwitchToListed
  <2>3. /\ idle' \in [Thread -> 0 .. MaxNest]
        /\ exited' = FALSE
    BY <2>1
  <2>4. \A t \in Thread : \/ state'[t] = st[t]
                          \/ st[t] = "READY" /\ state'[t] = "RUNNING"
    BY <2>2
  <2> QED
    BY <2>2, <2>3, <2>4
<1>2. CASE /\ st[cur] # "READY" /\ CanIdle(st)
           /\ idle' = [idle EXCEPT ![cur] = @ + 1]
           /\ state' = st /\ ready' = q
           /\ UNCHANGED <<cur, exited>>
  <2>1. idle' \in [Thread -> 0 .. MaxNest] /\ idle'[cur] # 0
    BY <1>2, SchedulerAssumption
  <2>2. exited' = FALSE /\ cur' = cur
    BY <1>2
  <2> QED
    BY <1>2, <2>1, <2>2
<1>3. CASE /\ st[cur] # "READY" /\ ~CanIdle(st)
           /\ exited' = TRUE
           /\ state' = fin /\ ready' = q
           /\ UNCHANGED <<cur, idle>>
  BY <1>3
<1> QED
  BY <1>1, <1>2, <1>3, DispatchCases

\* Of a queue of READY threads the priority policy takes one such that no
\* other comes before it.
LEMMA SwitchBest ==
  ASSUME NEW st, NEW q \in Seq(Thread), Listed(st, q),
         prio \in [Thread -> Int],
         NEW i \in ScheduleNext(st, q), i # 0, SwitchTo(st, q, i)
  PROVE  BestLeft
<1> SUFFICES ASSUME policy = "priority", cur' # cur, NEW t \in Range(ready')
             PROVE  prio[cur'] <= prio[t] /\ (prio[cur'] = prio[t] => cur' < t)
  BY DEF BestLeft
<1>1. i \in PriorityNext(st, q)
  BY DEF ScheduleNext
<1>2. /\ i \in 1 .. Len(q)
      /\ \A j \in 1 .. Len(q) : st[q[j]] = "READY" => ~Before(q[j], q[i])
  BY <1>1 DEF PriorityNext
<1>3. cur' = q[i] /\ ready' = RemoveAt(q, i)
  BY DEF SwitchTo
<1>4. t \in Range(q) /\ t # q[i]
  BY <1>2, <1>3, InjectiveRemoveAt DEF Listed
<1>5. PICK j \in 1 .. Len(q) : q[j] = t
  BY <1>4, InRange
<1>6. t \in Thread /\ q[i] \in Thread
  BY <1>2, <1>5, ElementOfSeq
<1>7. st[t] = "READY"
  BY <1>4, <1>6 DEF Listed
<1>8. ~Before(t, q[i])
  BY <1>2, <1>5, <1>7
<1>9. t \in Int /\ q[i] \in Int /\ prio[t] \in Int /\ prio[q[i]] \in Int
  BY <1>6, SchedulerAssumption DEF Thread
<1> QED
  BY <1>3, <1>4, <1>8, <1>9 DEF Before

\* A caller that goes on because nothing was chosen does not switch.
LEMMA DispatchBest ==
  ASSUME NEW st, NEW q \in Seq(Thread), Listed(st, q), NEW fin,
         prio \in [Thread -> Int], Dispatch(st, q, fin)
  PROVE  BestLeft
<1>1. PICK i \in ScheduleNext(st, q) :
        \/ i # 0 /\ SwitchTo(st, q, i)
        \/ cur' = cur
  BY DEF Dispatch, SwitchTo
<1> QED
  BY <1>1, SwitchBest DEF BestLeft

\* gc_finished_threads touches neither ready nor parked threads.
LEMMA ReapKeeps ==
  ASSUME NEW st \in [Thread -> States], cur \in Thread
  PROVE  /\ Reap(st) \in [Thread -> States]
         /\ Reap(st)[cur] = st[cur]
         /\ \A t \in Thread : \/ Reap(st)[t] = st[t]
                              \/ st[t] = "FINISHED" /\ Reap(st)[t] = "NONE"
         /\ \A q : Listed(st, q) => Listed(Reap(st), q)
         /\ \A sl, wt, du : sl \subseteq Thread /\ wt \subseteq Thread
                            /\ Parked(st, sl, wt, du)
                            => Parked(Reap(st), sl, wt, du)
<1>1. Reap(st) \in [Thread -> States]
  BY DEF Reap, States
<1>2. \A t \in Thread : \/ Reap(st)[t] = st[t]
                        \/ st[t] = "FINISHED" /\ Reap(st)[t] = "NONE"
  BY DEF Reap
<1>3. Reap(st)[cur] = st[cur]
  BY DEF Reap
<1>4. \A q : Listed(st, q) => Listed(Reap(st), q)
  BY <1>2 DEF Listed
<1>5. \A sl, wt, du : sl \subseteq Thread /\ wt \subseteq Thread
                      /\ Parked(st, sl, wt, du) => Parked(Reap(st), sl, wt, du)
  BY <1>2 DEF Parked
<1> QED
  BY <1>1, <1>2, <1>3, <1>4, <1>5

\* A poll moves due threads from the lists they wait on to the ready queue.
LEMMA PollOutcome ==
  ASSUME NEW st \in [Thread -> States], NEW q \in Seq(Thread), Listed(st, q),
         NEW sl, NEW wt, NEW du, sl \subseteq Thread, wt \subseteq Thread,
         Parked(st, sl, wt, du),
         NEW w \in WakeOrders(st, sl, wt, du),
         PollLists(st, sl, wt, du)
  PROVE  /\ AfterPoll(st, sl, wt, du) \in [Thread -> States]
         /\ q \o w \in Seq(Thread)
         /\ Listed(AfterPoll(st, sl, wt, du), q \o w)
         /\ \A t \in Thread :
              \/ AfterPoll(st, sl, wt, du)[t] = st[t]
              \/ /\ st[t] = "IO_BLOCKED"
                 /\ AfterPoll(st, sl, wt, du)[t] = "READY"
         /\ asleep' \subseteq Thread /\ watch' \subseteq Thread
         /\ Parked(AfterPoll(st, sl, wt, du), asleep', watch', due')
<1> DEFINE io == IoDue(st, wt, du)
           ex == SleepDue(sl, du)
           polled == AfterPoll(st, sl, wt, du)
<1>1. /\ io \subseteq wt /\ ex \subseteq sl
      /\ io \cap ex = {}
      /\ \A t \in io \cup ex : st[t] = "IO_BLOCKED"
  BY DEF IoDue, SleepDue, Parked
<1>2. \A t \in Thread :
        polled[t] = IF t \in io \cup ex THEN "READY" ELSE st[t]
  BY DEF AfterPoll
<1>3. PICK a \in SetToSeqs(io), b \in SetToSeqs(ex) : w = a \o b
  BY DEF WakeOrders
<1>4. IsFiniteSet(io) /\ IsFiniteSet(ex)
  BY <1>1, ThreadFacts
<1>5. /\ a \in Seq(io) /\ IsInjective(a) /\ Range(a) = io
      /\ b \in Seq(ex) /\ IsInjective(b) /\ Range(b) = ex
  BY <1>3, <1>4, SetToSeqsListing
<1>6. a \in Seq(Thread) /\ b \in Seq(Thread)
  BY <1>1, <1>5, SeqMonotonic
<1>7. w \in Seq(Thread) /\ IsInjective(w) /\ Range(w) = io \cup ex
  BY <1>1, <1>3, <1>5, <1>6, InjectiveConcat, RangeConcatenation,
     ConcatProperties
<1>8. polled \in [Thread -> States]
  BY DEF AfterPoll, States
<1>9. Range(q) \cap Range(w) = {}
  <2>1. \A t \in Thread : t \in Range(q) => st[t] = "READY"
    BY DEF Listed
  <2> QED
    BY <1>1, <1>7, <2>1
<1>10. /\ q \o w \in Seq(Thread)
       /\ IsInjective(q \o w)
       /\ Range(q \o w) = Range(q) \cup io \cup ex
  BY <1>7, <1>9, ConcatProperties, InjectiveConcat, RangeConcatenation
     DEF Listed
<1>11. Listed(polled, q \o w)
  BY <1>2, <1>10 DEF Listed
<1>12. \A t \in Thread :
         \/ polled[t] = st[t]
         \/ st[t] = "IO_BLOCKED" /\ polled[t] = "READY"
  BY <1>1, <1>2
<1>13. asleep' = sl \ ex /\ watch' = wt \ io /\ due' = {}
  BY DEF PollLists
<1>14. Parked(polled, asleep', watch', due')
  BY <1>1, <1>2, <1>13 DEF Parked
<1> QED
  BY <1>8, <1>10, <1>11, <1>12, <1>13, <1>14

\* How a call that goes through uthread_yield may change the state of t.
YieldEdge(before, after, t) ==
  \/ after = before
  \/ before = "RUNNING" /\ after = "READY" /\ t = cur
  \/ before = "READY" /\ after = "RUNNING"
  \/ before = "IO_BLOCKED" /\ after \in {"READY", "RUNNING"}
  \/ before = "FINISHED" /\ after = "NONE" /\ t # cur

\* What uthread_yield queues of its own: a RUNNING caller, at the tail.
LEMMA CallerQueued ==
  ASSUME NEW polled \in [Thread -> States], NEW q \in Seq(Thread),
         Listed(polled, q), cur \in Thread
  PROVE  LET queued == [t \in Thread |-> IF t = cur /\ Requeues(polled)
                                         THEN "READY" ELSE polled[t]]
             self == IF Requeues(polled) THEN <<cur>> ELSE <<>>
         IN  /\ queued \in [Thread -> States]
             /\ q \o self \in Seq(Thread) /\ Listed(queued, q \o self)
             /\ \A t \in Thread : queued[t] = IF t = cur /\ polled[cur] = "RUNNING"
                                              THEN "READY" ELSE polled[t]
<1> DEFINE queued == [t \in Thread |-> IF t = cur /\ Requeues(polled)
                                       THEN "READY" ELSE polled[t]]
           self == IF Requeues(polled) THEN <<cur>> ELSE <<>>
<1>1. queued \in [Thread -> States]
  BY DEF States
<1>2. \A t \in Thread : queued[t] = IF t = cur /\ polled[cur] = "RUNNING"
                                   THEN "READY" ELSE polled[t]
  BY DEF Requeues
<1>3. q \o self \in Seq(Thread) /\ Listed(queued, q \o self)
  <2>1. CASE Requeues(polled)
    <3>1. self = <<cur>> /\ polled[cur] = "RUNNING"
      BY <2>1 DEF Requeues
    <3>2. q \o self = Append(q, cur)
      BY <3>1, AppendIsConcat
    <3>3. cur \notin Range(q)
      BY <3>1 DEF Listed
    <3>4. /\ Append(q, cur) \in Seq(Thread)
          /\ Range(Append(q, cur)) = Range(q) \cup {cur}
          /\ IsInjective(Append(q, cur))
      BY <3>3, InjectiveAppend DEF Listed
    <3>5. \A t \in Thread : queued[t] = IF t = cur THEN "READY" ELSE polled[t]
      BY <2>1
    <3> QED
      BY <3>2, <3>4, <3>5 DEF Listed
  <2>2. CASE ~Requeues(polled)
    <3>1. q \o self = q
      BY <2>2, ConcatEmptySeq
    <3>2. queued = polled
      BY <2>2
    <3> QED
      BY <3>1, <3>2
  <2> QED
    BY <2>1, <2>2
<1> QED
  BY <1>1, <1>2, <1>3

\* uthread_yield, from any caller that passes consistent lists.
LEMMA YieldOutcome ==
  ASSUME NEW st \in [Thread -> States],
         NEW sl, NEW wt, NEW du, sl \subseteq Thread, wt \subseteq Thread,
         Listed(st, ready), Parked(st, sl, wt, du), st[cur] # "NONE",
         ready \in Seq(Thread), policy \in AllPolicies, cur \in Thread,
         ~exited, idle \in [Thread -> 0 .. MaxNest], idle[cur] < MaxNest,
         prio \in [Thread -> Int],
         YieldFrom(st, sl, wt, du)
  PROVE  /\ state' \in [Thread -> States]
         /\ ready' \in Seq(Thread)
         /\ cur' \in Thread
         /\ idle' \in [Thread -> 0 .. MaxNest]
         /\ exited' \in BOOLEAN
         /\ asleep' \subseteq Thread /\ watch' \subseteq Thread /\ due' = {}
         /\ Listed(state', ready')
         /\ Parked(state', asleep', watch', due')
         /\ state'[cur'] # "NONE"
         /\ ~exited' /\ idle'[cur'] = 0 => state'[cur'] = "RUNNING"
         /\ \A t \in Thread : YieldEdge(st[t], state'[t], t)
         /\ BestLeft
<1> DEFINE reaped == Reap(st)
           polled == AfterPoll(reaped, sl, wt, du)
           queued == [t \in Thread |-> IF t = cur /\ Requeues(polled)
                                       THEN "READY" ELSE polled[t]]
           self == IF Requeues(polled) THEN <<cur>> ELSE <<>>
<1>1. /\ PollLists(reaped, sl, wt, du)
      /\ \E w \in WakeOrders(reaped, sl, wt, du) :
           Dispatch(queued, ready \o w \o self, queued)
  BY DEF YieldFrom
<1>2. PICK w \in WakeOrders(reaped, sl, wt, du) :
        Dispatch(queued, ready \o w \o self, queued)
  BY <1>1
<1>3. /\ reaped \in [Thread -> States]
      /\ reaped[cur] = st[cur]
      /\ \A t \in Thread : \/ reaped[t] = st[t]
                           \/ st[t] = "FINISHED" /\ reaped[t] = "NONE"
      /\ Listed(reaped, ready)
      /\ Parked(reaped, sl, wt, du)
  BY ReapKeeps
<1> DEFINE q == ready \o w
<1> HIDE DEF reaped
<1>4. /\ polled \in [Thread -> States]
      /\ q \in Seq(Thread)
      /\ Listed(polled, q)
      /\ \A t \in Thread : \/ polled[t] = reaped[t]
                           \/ reaped[t] = "IO_BLOCKED" /\ polled[t] = "READY"
      /\ asleep' \subseteq Thread /\ watch' \subseteq Thread
      /\ Parked(polled, asleep', watch', due')
  BY <1>1, <1>2, <1>3, PollOutcome
<1>5. due' = {}
  BY <1>1 DEF PollLists
<1> HIDE DEF polled, q
<1>6. /\ queued \in [Thread -> States]
      /\ q \o self \in Seq(Thread) /\ Listed(queued, q \o self)
      /\ \A t \in Thread : queued[t] = IF t = cur /\ polled[cur] = "RUNNING"
                                       THEN "READY" ELSE polled[t]
  BY <1>4, CallerQueued
<1>7. Dispatch(queued, q \o self, queued)
  BY <1>2 DEF q
<1> HIDE DEF queued, self
<1>8. /\ \A t \in Thread : t # cur => queued[t] = polled[t]
      /\ \/ queued[cur] = polled[cur]
         \/ polled[cur] = "RUNNING" /\ queued[cur] = "READY"
  BY <1>6
<1>9. queued[cur] # "NONE"
  BY <1>3, <1>4, <1>8
<1>10. /\ state' \in [Thread -> States]
       /\ ready' \in Seq(Thread)
       /\ cur' \in Thread
       /\ idle' \in [Thread -> 0 .. MaxNest]
       /\ exited' \in BOOLEAN
       /\ Listed(state', ready')
       /\ state'[cur'] # "NONE"
       /\ ~exited' /\ idle'[cur'] = 0 => state'[cur'] = "RUNNING"
       /\ \A t \in Thread : \/ state'[t] = queued[t]
                            \/ queued[t] = "READY" /\ state'[t] = "RUNNING"
  BY <1>6, <1>7, <1>9, DispatchOutcome
<1>11. Parked(state', asleep', watch', due')
  <2>1. \A t \in Thread : polled[t] = "IO_BLOCKED" => state'[t] = "IO_BLOCKED"
    BY <1>8, <1>10
  <2> QED
    BY <1>4, <2>1 DEF Parked
<1>12. ASSUME NEW t \in Thread  PROVE  YieldEdge(st[t], state'[t], t)
  <2>1. \/ reaped[t] = st[t]
        \/ st[t] = "FINISHED" /\ reaped[t] = "NONE" /\ t # cur
    BY <1>3
  <2>2. \/ polled[t] = reaped[t]
        \/ reaped[t] = "IO_BLOCKED" /\ polled[t] = "READY"
    BY <1>4
  <2>3. \/ queued[t] = polled[t]
        \/ t = cur /\ polled[t] = "RUNNING" /\ queued[t] = "READY"
    BY <1>8
  <2>4. \/ state'[t] = queued[t]
        \/ queued[t] = "READY" /\ state'[t] = "RUNNING"
    BY <1>10
  <2> QED
    BY <2>1, <2>2, <2>3, <2>4 DEF YieldEdge
<1>13. BestLeft
  BY <1>6, <1>7, DispatchBest
<1> QED
  BY <1>4, <1>5, <1>10, <1>11, <1>12, <1>13

\* The same, in terms of the invariant: st may differ from state in the thread
\* that calls, which has just been blocked.
LEMMA YieldKeepsInv ==
  ASSUME Inv, NEW st \in [Thread -> States],
         \A t \in Thread : t # cur => st[t] = state[t],
         st[cur] # "NONE",
         NEW sl, NEW wt, NEW du, sl \subseteq Thread, wt \subseteq Thread,
         Listed(st, ready), Parked(st, sl, wt, du),
         ~exited, idle[cur] < MaxNest,
         YieldFrom(st, sl, wt, du),
         UNCHANGED <<prio, policy, nextId, epollOk>>
  PROVE  Inv' /\ BestLeft /\ \A t \in Thread : YieldEdge(st[t], state'[t], t)
<1>1. /\ ready \in Seq(Thread) /\ policy \in AllPolicies /\ cur \in Thread
      /\ idle \in [Thread -> 0 .. MaxNest] /\ prio \in [Thread -> Int]
  BY DEF Inv, TypeOK
<1>2. /\ state' \in [Thread -> States]
      /\ ready' \in Seq(Thread)
      /\ cur' \in Thread
      /\ idle' \in [Thread -> 0 .. MaxNest]
      /\ exited' \in BOOLEAN
      /\ asleep' \subseteq Thread /\ watch' \subseteq Thread /\ due' = {}
      /\ Listed(state', ready')
      /\ Parked(state', asleep', watch', due')
      /\ state'[cur'] # "NONE"
      /\ ~exited' /\ idle'[cur'] = 0 => state'[cur'] = "RUNNING"
      /\ \A t \in Thread : YieldEdge(st[t], state'[t], t)
      /\ BestLeft
  BY <1>1, YieldOutcome
<1>3. TypeOK'
  BY <1>2 DEF Inv, TypeOK
<1>4. ReadyListed' /\ ParkedSound'
  BY <1>2 DEF ReadyListed, Listed, ParkedSound, Parked
<1>5. UserRuns' /\ CurrentKept'
  BY <1>2 DEF UserRuns, UserMode, CurrentKept
<1>6. Fresh'
  <2>1. ASSUME NEW t \in Thread, t >= nextId  PROVE  state'[t] = "NONE"
    <3>1. state[t] = "NONE" /\ t # cur
      BY <2>1 DEF Inv, Fresh, CurrentKept
    <3> QED
      BY <1>2, <3>1 DEF YieldEdge
  <2> QED
    BY <2>1 DEF Fresh
<1> QED
  BY <1>2, <1>3, <1>4, <1>5, <1>6 DEF Inv

\* A caller that has parked itself, or only yields, follows the life cycle.
LEMMA YieldFollows ==
  ASSUME NEW st, cur \in Thread, state[cur] = "RUNNING", st[cur] = "IO_BLOCKED",
         \A t \in Thread : t # cur => st[t] = state[t],
         \A t \in Thread : YieldEdge(st[t], state'[t], t)
  PROVE  StatesFollow
<1>1. ASSUME NEW t \in Thread, t # cur
      PROVE  \/ state'[t] = state[t]
             \/ state[t] = "READY" /\ state'[t] = "RUNNING"
             \/ state[t] = "IO_BLOCKED" /\ state'[t] \in {"READY", "RUNNING"}
             \/ state[t] = "FINISHED" /\ state'[t] = "NONE"
  BY <1>1 DEF YieldEdge
<1>2. state'[cur] \in {"IO_BLOCKED", "READY", "RUNNING"}
  BY DEF YieldEdge
<1> QED
  BY <1>1, <1>2 DEF StatesFollow, LifeCycle

LEMMA InitInv == Init => Inv
<1> SUFFICES ASSUME Init  PROVE  Inv
  OBVIOUS
<1>1. MaxThreads \in Nat /\ MaxNest \in Nat \ {0} /\ Main \in Thread
  BY SchedulerAssumption, ThreadFacts
<1>2. TypeOK
  <2>1. ready \in Seq(Thread)
    BY EmptySeq DEF Init
  <2> QED
    BY <1>1, <2>1 DEF Init, TypeOK, States, AllPolicies, Thread, Main
<1>3. ReadyListed
  BY EmptySeq, InRange DEF Init, ReadyListed, Listed, IsInjective, Range
<1>4. ParkedSound
  BY DEF Init, ParkedSound, Parked
<1>5. UserRuns /\ CurrentKept
  BY <1>1 DEF Init, UserRuns, UserMode, CurrentKept
<1>6. Fresh
  BY <1>1 DEF Init, Fresh, Thread, Main
<1> QED
  BY <1>2, <1>3, <1>4, <1>5, <1>6 DEF Inv

LEMMA CreateKeepsInv ==
  ASSUME Inv, NEW p \in Priorities, Create(p)  PROVE  Inv' /\ StatesFollow /\ BestLeft
<1> USE DEF Create
<1>1. /\ state \in [Thread -> States] /\ ready \in Seq(Thread)
      /\ cur \in Thread /\ nextId \in Thread /\ nextId # cur
      /\ nextId + 1 \in 1 .. MaxThreads + 1
      /\ state[nextId] = "NONE" /\ p \in Int
  BY SchedulerAssumption
     DEF Inv, TypeOK, Fresh, CurrentKept, Thread
<1>2. /\ Reap(state) \in [Thread -> States]
      /\ Reap(state)[cur] = state[cur]
      /\ \A t \in Thread : \/ Reap(state)[t] = state[t]
                           \/ state[t] = "FINISHED" /\ Reap(state)[t] = "NONE"
      /\ Listed(Reap(state), ready)
      /\ Parked(Reap(state), asleep, watch, due)
  BY <1>1, ReapKeeps DEF Inv, ReadyListed, ParkedSound, TypeOK
<1>3. nextId \notin Range(ready)
  BY <1>1 DEF Inv, ReadyListed, Listed
<1>4. /\ ready' \in Seq(Thread)
      /\ Range(ready') = Range(ready) \cup {nextId}
      /\ IsInjective(ready')
  BY <1>1, <1>2, <1>3, InjectiveAppend DEF Listed
<1>5. /\ state' \in [Thread -> States]
      /\ state'[nextId] = "READY"
      /\ \A t \in Thread : t # nextId => state'[t] = Reap(state)[t]
  BY <1>1, <1>2 DEF States
<1>6. TypeOK'
  BY <1>1, <1>4, <1>5 DEF Inv, TypeOK
<1>7. ReadyListed'
  BY <1>2, <1>4, <1>5 DEF ReadyListed, Listed
<1>8. ParkedSound'
  <2>1. nextId \notin asleep \cup watch
    BY <1>1 DEF Inv, ParkedSound, Parked
  <2>2. asleep \subseteq Thread /\ watch \subseteq Thread
    BY DEF Inv, TypeOK
  <2> QED
    BY <1>2, <1>5, <2>1, <2>2 DEF ParkedSound, Parked
<1>9. UserRuns' /\ CurrentKept'
  BY <1>1, <1>2, <1>5
     DEF Inv, UserRuns, UserMode, CurrentKept
<1>10. Fresh'
  <2>1. ASSUME NEW t \in Thread, t >= nextId'  PROVE  state'[t] = "NONE"
    <3>1. t >= nextId /\ t # nextId
      BY <1>1, <2>1 DEF Thread, Inv, TypeOK
    <3>2. state[t] = "NONE"
      BY <3>1 DEF Inv, Fresh
    <3> QED
      BY <1>2, <1>5, <3>1, <3>2
  <2> QED
    BY <2>1 DEF Fresh
<1>11. StatesFollow
  BY <1>1, <1>2, <1>5 DEF StatesFollow, LifeCycle
<1> QED
  BY <1>6, <1>7, <1>8, <1>9, <1>10, <1>11 DEF Inv, BestLeft

LEMMA CreateFailsKeepsInv ==
  ASSUME Inv, CreateFails  PROVE  Inv' /\ StatesFollow /\ BestLeft
<1> USE DEF CreateFails
<1>1. /\ state \in [Thread -> States] /\ cur \in Thread
      /\ asleep \subseteq Thread /\ watch \subseteq Thread
      /\ nextId' \in 1 .. MaxThreads + 1 /\ nextId' >= nextId
  BY SchedulerAssumption DEF Inv, TypeOK
<1>2. /\ state' \in [Thread -> States]
      /\ state'[cur] = state[cur]
      /\ \A t \in Thread : \/ state'[t] = state[t]
                           \/ state[t] = "FINISHED" /\ state'[t] = "NONE"
      /\ Listed(state', ready)
      /\ Parked(state', asleep, watch, due)
  BY <1>1, ReapKeeps DEF Inv, ReadyListed, ParkedSound
<1>3. TypeOK'
  BY <1>1, <1>2 DEF Inv, TypeOK
<1>4. ReadyListed' /\ ParkedSound'
  BY <1>2 DEF ReadyListed, Listed, ParkedSound, Parked
<1>5. UserRuns' /\ CurrentKept'
  BY <1>1, <1>2 DEF Inv, UserRuns, UserMode, CurrentKept
<1>6. Fresh'
  <2>1. nextId \in Int /\ nextId' \in Int /\ Thread \subseteq Int
    BY <1>1 DEF Inv, TypeOK, Thread
  <2> QED
    BY <1>1, <1>2, <2>1 DEF Inv, Fresh
<1>7. StatesFollow
  BY <1>2 DEF StatesFollow, LifeCycle
<1> QED
  BY <1>3, <1>4, <1>5, <1>6, <1>7 DEF Inv, BestLeft

\* What a thread in user mode may rely on when it calls.
LEMMA CallerFacts ==
  ASSUME Inv, UserMode
  PROVE  /\ cur \in Thread /\ state \in [Thread -> States]
         /\ asleep \subseteq Thread /\ watch \subseteq Thread
         /\ state[cur] = "RUNNING" /\ ~exited /\ idle[cur] < MaxNest
         /\ cur \notin asleep \cup watch /\ cur \notin Range(ready)
BY SchedulerAssumption
   DEF Inv, TypeOK, UserRuns, UserMode, ReadyListed, Listed, ParkedSound, Parked

\* A caller that blocks keeps the ready queue and the parked threads right.
LEMMA BlockedCaller ==
  ASSUME Inv, UserMode, NEW how \in {"BLOCKED", "IO_BLOCKED"}
  PROVE  LET st == [state EXCEPT ![cur] = how]
         IN  /\ st \in [Thread -> States]
             /\ st[cur] = how
             /\ \A t \in Thread : t # cur => st[t] = state[t]
             /\ Listed(st, ready)
             /\ Parked(st, asleep, watch, due)
<1> DEFINE st == [state EXCEPT ![cur] = how]
<1>1. /\ cur \in Thread /\ state \in [Thread -> States]
      /\ asleep \subseteq Thread /\ watch \subseteq Thread
      /\ state[cur] = "RUNNING" /\ cur \notin asleep \cup watch
      /\ cur \notin Range(ready)
  BY CallerFacts
<1>2. /\ st \in [Thread -> States] /\ st[cur] = how
      /\ \A t \in Thread : t # cur => st[t] = state[t]
  BY <1>1 DEF States
<1> HIDE DEF st
<1>3. Listed(st, ready)
  BY <1>1, <1>2 DEF Inv, ReadyListed, Listed
<1>4. Parked(st, asleep, watch, due)
  BY <1>1, <1>2 DEF Inv, ParkedSound, Parked
<1> QED
  BY <1>2, <1>3, <1>4 DEF st

LEMMA SleepKeepsInv ==
  ASSUME Inv, Sleep  PROVE  Inv' /\ StatesFollow /\ BestLeft
<1> DEFINE st == [state EXCEPT ![cur] = "IO_BLOCKED"]
<1>1. UserMode
  BY DEF Sleep
<1>2. /\ cur \in Thread
      /\ asleep \subseteq Thread /\ watch \subseteq Thread
      /\ ~exited /\ idle[cur] < MaxNest /\ cur \notin asleep \cup watch
  BY <1>1, CallerFacts
<1>3. /\ st \in [Thread -> States] /\ st[cur] = "IO_BLOCKED"
      /\ \A t \in Thread : t # cur => st[t] = state[t]
      /\ Listed(st, ready)
      /\ Parked(st, asleep, watch, due)
  BY <1>1, BlockedCaller
<1>4. PICK late \in SUBSET {cur} :
        YieldFrom(st, asleep \cup {cur}, watch, due \cup late)
  BY DEF Sleep
<1>5. UNCHANGED <<prio, policy, nextId, epollOk>>
  BY DEF Sleep
<1> HIDE DEF st
<1>6. Parked(st, asleep \cup {cur}, watch, due \cup late)
  BY <1>2, <1>3 DEF Parked
<1>7. asleep \cup {cur} \subseteq Thread
  BY <1>2
<1>8. Inv' /\ BestLeft /\ \A t \in Thread : YieldEdge(st[t], state'[t], t)
  BY <1>2, <1>3, <1>4, <1>5, <1>6, <1>7, YieldKeepsInv
<1> QED
  BY <1>1, <1>3, <1>8, YieldFollows, CallerFacts

LEMMA IoWaitKeepsInv ==
  ASSUME Inv, NEW registered \in BOOLEAN, IoWait(registered)
  PROVE  Inv' /\ StatesFollow /\ BestLeft
<1> DEFINE st == [state EXCEPT ![cur] = "IO_BLOCKED"]
           added == IF registered THEN {cur} ELSE {}
<1>1. UserMode
  BY DEF IoWait
<1>2. /\ cur \in Thread
      /\ asleep \subseteq Thread /\ watch \subseteq Thread
      /\ ~exited /\ idle[cur] < MaxNest /\ cur \notin asleep \cup watch
  BY <1>1, CallerFacts
<1>3. /\ st \in [Thread -> States] /\ st[cur] = "IO_BLOCKED"
      /\ \A t \in Thread : t # cur => st[t] = state[t]
      /\ Listed(st, ready)
      /\ Parked(st, asleep, watch, due)
  BY <1>1, BlockedCaller
<1>4. PICK early \in SUBSET added :
        YieldFrom(st, asleep, watch \cup added, due \cup early)
  BY DEF IoWait
<1>5. UNCHANGED <<prio, policy, nextId, epollOk>>
  BY DEF IoWait
<1>6. added \subseteq {cur}
  OBVIOUS
<1> HIDE DEF st, added
<1>7. Parked(st, asleep, watch \cup added, due \cup early)
  BY <1>2, <1>3, <1>6 DEF Parked
<1>8. watch \cup added \subseteq Thread
  BY <1>2, <1>6
<1>9. Inv' /\ BestLeft /\ \A t \in Thread : YieldEdge(st[t], state'[t], t)
  BY <1>2, <1>3, <1>4, <1>5, <1>7, <1>8, YieldKeepsInv
<1> QED
  BY <1>1, <1>3, <1>9, YieldFollows, CallerFacts

\* Yield and Alarm run the same code.
LEMMA PlainYieldKeepsInv ==
  ASSUME Inv, Yield \/ Alarm  PROVE  Inv' /\ StatesFollow /\ BestLeft
<1>1. /\ ~exited /\ idle[cur] < MaxNest
      /\ YieldFrom(state, asleep, watch, due)
      /\ UNCHANGED <<prio, policy, nextId, epollOk>>
  BY CallerFacts DEF Yield, Alarm, UserMode
<1>2. /\ state \in [Thread -> States]
      /\ asleep \subseteq Thread /\ watch \subseteq Thread
      /\ state[cur] # "NONE"
      /\ Listed(state, ready)
      /\ Parked(state, asleep, watch, due)
  BY DEF Inv, TypeOK, CurrentKept, ReadyListed, ParkedSound
<1>3. Inv' /\ BestLeft /\ \A t \in Thread : YieldEdge(state[t], state'[t], t)
  BY <1>1, <1>2, YieldKeepsInv
<1> QED
  BY <1>3 DEF StatesFollow, YieldEdge, LifeCycle

LEMMA ExitKeepsInv ==
  ASSUME Inv, Exit  PROVE  Inv' /\ StatesFollow /\ BestLeft
<1> DEFINE fin == [state EXCEPT ![cur] = "FINISHED"]
           polled == AfterPoll(fin, asleep, watch, due)
<1>1. UserMode
  BY DEF Exit
<1>2. /\ cur \in Thread /\ state \in [Thread -> States]
      /\ asleep \subseteq Thread /\ watch \subseteq Thread
      /\ state[cur] = "RUNNING" /\ ~exited /\ idle[cur] < MaxNest
      /\ cur \notin asleep \cup watch /\ cur \notin Range(ready)
  BY <1>1, CallerFacts
<1>3. /\ ready \in Seq(Thread) /\ policy \in AllPolicies
      /\ idle \in [Thread -> 0 .. MaxNest]
  BY DEF Inv, TypeOK
<1>4. PICK w \in WakeOrders(fin, asleep, watch, due) :
        Dispatch(polled, ready \o w, Reap(polled))
  BY DEF Exit
<1>5. /\ PollLists(fin, asleep, watch, due)
      /\ UNCHANGED <<prio, policy, nextId, epollOk>>
  BY DEF Exit
<1>6. /\ fin \in [Thread -> States] /\ fin[cur] = "FINISHED"
      /\ \A t \in Thread : t # cur => fin[t] = state[t]
  BY <1>2 DEF States
<1> HIDE DEF fin
<1>7. Listed(fin, ready)
  BY <1>2, <1>6 DEF Inv, ReadyListed, Listed
<1>8. Parked(fin, asleep, watch, due)
  BY <1>2, <1>6 DEF Inv, ParkedSound, Parked
<1> DEFINE q == ready \o w
<1>9. /\ polled \in [Thread -> States]
      /\ q \in Seq(Thread)
      /\ Listed(polled, q)
      /\ \A t \in Thread : \/ polled[t] = fin[t]
                           \/ fin[t] = "IO_BLOCKED" /\ polled[t] = "READY"
      /\ asleep' \subseteq Thread /\ watch' \subseteq Thread
      /\ Parked(polled, asleep', watch', due')
  BY <1>2, <1>3, <1>5, <1>6, <1>7, <1>8, PollOutcome
<1>10. due' = {}
  BY <1>5 DEF PollLists
<1> DEFINE left == Reap(polled)
<1>11. Dispatch(polled, q, left)
  BY <1>4
<1> HIDE DEF polled, q
<1>12. /\ left \in [Thread -> States]
       /\ left[cur] = polled[cur]
       /\ \A t \in Thread :
            \/ left[t] = polled[t]
            \/ polled[t] = "FINISHED" /\ left[t] = "NONE"
       /\ Listed(left, q)
  BY <1>2, <1>9, ReapKeeps
<1> HIDE DEF left
<1>13. polled[cur] # "NONE"
  BY <1>2, <1>6, <1>9
<1>14. /\ state' \in [Thread -> States]
       /\ ready' \in Seq(Thread)
       /\ cur' \in Thread
       /\ idle' \in [Thread -> 0 .. MaxNest]
       /\ exited' \in BOOLEAN
       /\ Listed(state', ready')
       /\ state'[cur'] # "NONE"
       /\ ~exited' /\ idle'[cur'] = 0 => state'[cur'] = "RUNNING"
       /\ \A t \in Thread : \/ state'[t] = polled[t]
                            \/ polled[t] = "READY" /\ state'[t] = "RUNNING"
                            \/ state'[t] = left[t]
  <2>1. /\ polled \in [Thread -> States] /\ q \in Seq(Thread)
        /\ Listed(polled, q)
    BY <1>9
  <2>2. /\ left \in [Thread -> States] /\ Listed(left, q)
        /\ left[cur] = polled[cur]
        /\ \A t \in Thread : \/ left[t] = polled[t]
                             \/ polled[t] = "FINISHED" /\ left[t] = "NONE"
    BY <1>12
  <2>3. /\ policy \in AllPolicies /\ cur \in Thread /\ ~exited
        /\ idle \in [Thread -> 0 .. MaxNest] /\ idle[cur] < MaxNest
    BY <1>2, <1>3
  <2> QED
    BY <1>11, <1>13, <2>1, <2>2, <2>3, DispatchOutcome
<1>15. TypeOK'
  BY <1>5, <1>9, <1>10, <1>14 DEF Inv, TypeOK
<1>16. ReadyListed'
  BY <1>14 DEF ReadyListed, Listed
<1>17. ParkedSound'
  <2>1. \A t \in Thread : polled[t] = "IO_BLOCKED" => state'[t] = "IO_BLOCKED"
    BY <1>12, <1>14
  <2> QED
    BY <1>9, <2>1 DEF ParkedSound, Parked
<1>18. UserRuns' /\ CurrentKept'
  BY <1>5, <1>14 DEF UserRuns, UserMode, CurrentKept
<1>19. Fresh'
  <2>1. ASSUME NEW t \in Thread, t >= nextId  PROVE  state'[t] = "NONE"
    <3>1. state[t] = "NONE" /\ t # cur
      BY <1>2, <2>1 DEF Inv, Fresh
    <3>2. polled[t] = "NONE"
      BY <1>6, <1>9, <3>1
    <3> QED
      BY <1>12, <1>14, <3>2
  <2> QED
    BY <1>5, <2>1 DEF Fresh
<1>20. StatesFollow
  <2>1. ASSUME NEW t \in Thread, t # cur
        PROVE  \/ state'[t] = state[t]
               \/ state[t] = "READY" /\ state'[t] = "RUNNING"
               \/ state[t] = "IO_BLOCKED" /\ state'[t] \in {"READY", "RUNNING"}
               \/ state[t] = "FINISHED" /\ state'[t] = "NONE"
    BY <1>6, <1>9, <1>12, <1>14, <2>1
  <2>2. state'[cur] = "FINISHED"
    BY <1>2, <1>6, <1>9, <1>12, <1>14
  <2> QED
    BY <1>2, <2>1, <2>2 DEF StatesFollow, LifeCycle
<1>21. BestLeft
  BY <1>2, <1>3, <1>9, <1>11, DispatchBest DEF Inv, TypeOK
<1> QED
  BY <1>15, <1>16, <1>17, <1>18, <1>19, <1>20, <1>21 DEF Inv

LEMMA IdlePollKeepsInv ==
  ASSUME Inv, IdlePoll  PROVE  Inv' /\ StatesFollow /\ BestLeft
<1> DEFINE polled == AfterPoll(state, asleep, watch, due)
<1>1. /\ ~exited /\ idle[cur] > 0
      /\ PollLists(state, asleep, watch, due)
      /\ UNCHANGED <<prio, policy, nextId, epollOk, exited>>
  BY DEF IdlePoll
<1>2. /\ state \in [Thread -> States] /\ cur \in Thread
      /\ asleep \subseteq Thread /\ watch \subseteq Thread
      /\ ready \in Seq(Thread) /\ policy \in AllPolicies
      /\ idle \in [Thread -> 0 .. MaxNest]
      /\ Listed(state, ready) /\ Parked(state, asleep, watch, due)
      /\ state[cur] # "NONE"
  BY DEF Inv, TypeOK, ReadyListed, ParkedSound, CurrentKept
<1>3. PICK w \in WakeOrders(state, asleep, watch, due) :
        \E i \in ScheduleNext(polled, ready \o w) :
           \/ /\ i # 0
              /\ SwitchTo(polled, ready \o w, i)
              /\ idle' = [idle EXCEPT ![cur] = @ - 1]
           \/ /\ i = 0
              /\ state' = polled /\ ready' = ready \o w
              /\ UNCHANGED <<cur, idle>>
  BY DEF IdlePoll
<1> DEFINE q == ready \o w
<1>4. /\ polled \in [Thread -> States]
      /\ q \in Seq(Thread)
      /\ Listed(polled, q)
      /\ \A t \in Thread : \/ polled[t] = state[t]
                           \/ state[t] = "IO_BLOCKED" /\ polled[t] = "READY"
      /\ asleep' \subseteq Thread /\ watch' \subseteq Thread
      /\ Parked(polled, asleep', watch', due')
  BY <1>1, <1>2, PollOutcome
<1>5. due' = {}
  BY <1>1 DEF PollLists
<1>6. PICK i \in ScheduleNext(polled, q) :
        \/ /\ i # 0
           /\ SwitchTo(polled, q, i)
           /\ idle' = [idle EXCEPT ![cur] = @ - 1]
        \/ /\ i = 0
           /\ state' = polled /\ ready' = q
           /\ UNCHANGED <<cur, idle>>
  BY <1>3
<1> HIDE DEF polled, q
<1>7. i = 0 \/ i \in 1 .. Len(q)
  BY <1>2, <1>4, ScheduleNextInQueue
<1>8. /\ state' \in [Thread -> States]
      /\ ready' \in Seq(Thread)
      /\ cur' \in Thread
      /\ idle' \in [Thread -> 0 .. MaxNest]
      /\ Listed(state', ready')
      /\ state'[cur'] # "NONE"
      /\ idle'[cur'] = 0 => state'[cur'] = "RUNNING"
      /\ \A t \in Thread : \/ state'[t] = polled[t]
                           \/ polled[t] = "READY" /\ state'[t] = "RUNNING"
  <2>1. CASE i # 0
    <3>1. SwitchTo(polled, q, i) /\ idle' = [idle EXCEPT ![cur] = @ - 1]
      BY <1>6, <2>1
    <3>2. idle' \in [Thread -> 0 .. MaxNest]
      BY <1>1, <1>2, <3>1, SchedulerAssumption
    <3> QED
      BY <1>4, <1>7, <2>1, <3>1, <3>2, SwitchToListed
  <2>2. CASE i = 0
    <3>1. state' = polled /\ ready' = q /\ cur' = cur /\ idle' = idle
      BY <1>6, <2>2
    <3>2. idle'[cur'] # 0 /\ polled[cur] # "NONE"
      BY <1>1, <1>2, <1>4, <3>1
    <3> QED
      BY <1>2, <1>4, <3>1, <3>2
  <2> QED
    BY <2>1, <2>2
<1>9. TypeOK'
  BY <1>1, <1>4, <1>5, <1>8 DEF Inv, TypeOK
<1>10. ReadyListed'
  BY <1>8 DEF ReadyListed, Listed
<1>11. ParkedSound'
  BY <1>4, <1>8 DEF ParkedSound, Parked
<1>12. UserRuns' /\ CurrentKept'
  BY <1>1, <1>8 DEF UserRuns, UserMode, CurrentKept
<1>13. Fresh'
  <2>1. ASSUME NEW t \in Thread, t >= nextId  PROVE  state'[t] = "NONE"
    BY <1>4, <1>8, <2>1 DEF Inv, Fresh
  <2> QED
    BY <1>1, <2>1 DEF Fresh
<1>14. StatesFollow
  BY <1>4, <1>8 DEF StatesFollow, LifeCycle
<1>15. BestLeft
  <2>1. i # 0 => SwitchTo(polled, q, i)
    BY <1>6
  <2>2. i = 0 => cur' = cur
    BY <1>6
  <2>3. prio \in [Thread -> Int]
    BY DEF Inv, TypeOK
  <2> QED
    BY <1>2, <1>4, <2>1, <2>2, <2>3, SwitchBest DEF BestLeft
<1> QED
  BY <1>9, <1>10, <1>11, <1>12, <1>13, <1>14, <1>15 DEF Inv

LEMMA NextKeepsInv == Inv /\ [Next]_vars => Inv' /\ StatesFollow /\ BestLeft
<1> SUFFICES ASSUME Inv, [Next]_vars  PROVE  Inv' /\ StatesFollow /\ BestLeft
  OBVIOUS
<1>1. CASE \E p \in Priorities : Create(p)
  BY <1>1, CreateKeepsInv
<1>2. CASE CreateFails
  BY <1>2, CreateFailsKeepsInv
<1>3. CASE Yield \/ Alarm
  BY <1>3, PlainYieldKeepsInv
<1>4. CASE Exit
  BY <1>4, ExitKeepsInv
<1>5. CASE Sleep
  BY <1>5, SleepKeepsInv
<1>6. CASE \E registered \in BOOLEAN : IoWait(registered)
  BY <1>6, IoWaitKeepsInv
<1>7. CASE \E p \in Policies : SetScheduler(p)
  <2>1. policy' \in AllPolicies
    BY <1>7, SchedulerAssumption DEF SetScheduler
  <2> QED
    BY <1>7, <2>1
       DEF SetScheduler, Inv, TypeOK, ReadyListed, Listed, ParkedSound,
           Parked, UserRuns, UserMode, CurrentKept, Fresh,
           StatesFollow, BestLeft
<1>8. CASE IdlePoll
  BY <1>8, IdlePollKeepsInv
<1>9. CASE \E t \in Thread : Expire(t)
  <2>1. PICK t \in Thread : Expire(t)
    BY <1>9
  <2>2. due' \subseteq Thread /\ due' \subseteq asleep \cup watch
    BY <2>1 DEF Expire, Inv, TypeOK, ParkedSound, Parked
  <2> QED
    BY <2>1, <2>2
       DEF Expire, Inv, TypeOK, ReadyListed, Listed, ParkedSound, Parked,
           UserRuns, UserMode, CurrentKept, Fresh, StatesFollow,
           BestLeft
<1>10. CASE Terminated \/ UNCHANGED vars
  BY <1>10, InvUnchanged DEF Terminated, StatesFollow, BestLeft, vars
<1> QED
  BY <1>1, <1>2, <1>3, <1>4, <1>5, <1>6, <1>7, <1>8, <1>9, <1>10
     DEF Next, UserStep, NonExitStep, SystemStep

\* Every reachable state of the scheduler satisfies Inv.
THEOREM SchedulerInv == Spec => []Inv
BY InitInv, NextKeepsInv, PTL DEF Spec

\* Types are kept: in particular the dispatched thread is always a thread of
\* the queue, never the NULL that schedule_next returns for an empty one.
THEOREM SchedulerTypes == Spec => []TypeOK
<1>1. Inv => TypeOK
  BY DEF Inv
<1> QED
  BY <1>1, SchedulerInv, PTL

\* The ready list holds the READY threads, each linked once.
THEOREM ReadyQueueSound == Spec => []ReadyListed
<1>1. Inv => ReadyListed
  BY DEF Inv
<1> QED
  BY <1>1, SchedulerInv, PTL

\* A thread on the sleep list or registered with epoll is blocked, and on one
\* of the two only; nothing else can become due.
THEOREM ParkedThreadsSound == Spec => []ParkedSound
<1>1. Inv => ParkedSound
  BY DEF Inv
<1> QED
  BY <1>1, SchedulerInv, PTL

\* gc_finished_threads never frees the stack in use.
THEOREM CurrentStackKept == Spec => []CurrentKept
<1>1. Inv => CurrentKept
  BY DEF Inv
<1> QED
  BY <1>1, SchedulerInv, PTL

\* User code runs only in the RUNNING state, however alarms nest.
THEOREM UserCodeRuns == Spec => []UserRuns
<1>1. Inv => UserRuns
  BY DEF Inv
<1> QED
  BY <1>1, SchedulerInv, PTL

\* A call moves a thread at most along one edge of its life cycle, and only a
\* thread's own call stops it.
THEOREM LifeCycleFollowed == Spec => FollowsLifeCycle
<1>1. Inv /\ [Next]_vars =>
        [\A t \in Thread :
           state'[t] # state[t] =>
             /\ <<state[t], state'[t]>> \in LifeCycle
             /\ state[t] = "RUNNING" => t = cur]_vars
  BY NextKeepsInv DEF StatesFollow
<1> QED
  BY <1>1, SchedulerInv, PTL DEF Spec, FollowsLifeCycle

\* The priority policy leaves no better thread on the queue, those included
\* that the same call woke, queued or created.
THEOREM PriorityServed == Spec => BestDispatched
<1>1. Inv /\ [Next]_vars =>
        [policy = "priority" /\ cur' # cur =>
           \A t \in Range(ready') :
             /\ prio[cur'] <= prio[t]
             /\ prio[cur'] = prio[t] => cur' < t]_vars
  BY NextKeepsInv DEF BestLeft
<1> QED
  BY <1>1, SchedulerInv, PTL DEF Spec, BestDispatched

(***************************************************************************)
(* RUNNING is the state of the thread that executes and of no other, as    *)
(* long as no alarm lands in an idle loop.  What is inductive adds that a  *)
(* thread in an idle loop is the current one and not RUNNING.              *)
(***************************************************************************)
SoleRunner ==
  /\ RunningIsCurrent
  /\ \A t \in Thread : idle[t] # 0 => t = cur /\ idle[t] = 1 /\ state[t] # "RUNNING"

NestedAlarm == Alarm /\ idle[cur] > 0

\* Every other step.
UnnestedStep ==
  \/ UserStep
  \/ Alarm /\ idle[cur] = 0
  \/ IdlePoll
  \/ \E t \in Thread : Expire(t)
  \/ Terminated
  \/ UNCHANGED vars

LEMMA SwitchSole ==
  ASSUME NEW st \in [Thread -> States], NEW q, NEW i, SwitchTo(st, q, i),
         \A t \in Thread : st[t] # "RUNNING",
         \A t \in Thread : idle'[t] = 0
  PROVE  SoleRunner'
BY DEF SwitchTo, SoleRunner, RunningIsCurrent

\* Dispatch, from a state in which nobody is RUNNING or in an idle loop
LEMMA DispatchSole ==
  ASSUME NEW st \in [Thread -> States], NEW q, NEW fin, Dispatch(st, q, fin),
         \A t \in Thread : st[t] # "RUNNING" /\ fin[t] # "RUNNING",
         idle \in [Thread -> 0 .. MaxNest], \A t \in Thread : idle[t] = 0
  PROVE  SoleRunner'
<1>1. CASE \E i : SwitchTo(st, q, i) /\ UNCHANGED idle
  BY <1>1, SwitchSole
<1>2. CASE /\ idle' = [idle EXCEPT ![cur] = @ + 1]
           /\ state' = st /\ cur' = cur
  BY <1>2 DEF SoleRunner, RunningIsCurrent
<1>3. CASE state' = fin /\ idle' = idle
  BY <1>3 DEF SoleRunner, RunningIsCurrent
<1> QED
  BY <1>1, <1>2, <1>3 DEF Dispatch

\* uthread_yield: whoever was RUNNING is queued before the dispatch.
LEMMA YieldSole ==
  ASSUME SoleRunner, idle \in [Thread -> 0 .. MaxNest], idle[cur] = 0,
         NEW st \in [Thread -> States],
         \A t \in Thread : t # cur => st[t] = state[t],
         NEW sl, NEW wt, NEW du, YieldFrom(st, sl, wt, du)
  PROVE  SoleRunner'
<1> DEFINE reaped == Reap(st)
           polled == AfterPoll(reaped, sl, wt, du)
           queued == [t \in Thread |-> IF t = cur /\ Requeues(polled)
                                       THEN "READY" ELSE polled[t]]
<1>1. PICK q : Dispatch(queued, q, queued)
  BY DEF YieldFrom
<1>2. \A t \in Thread : t # cur => polled[t] # "RUNNING"
  BY DEF AfterPoll, Reap, SoleRunner, RunningIsCurrent
<1>3. polled \in [Thread -> States]
  BY DEF AfterPoll, Reap, States
<1> HIDE DEF polled
<1>4. queued \in [Thread -> States] /\ \A t \in Thread : queued[t] # "RUNNING"
  BY <1>2, <1>3 DEF Requeues, States
<1>5. \A t \in Thread : idle[t] = 0
  BY DEF SoleRunner
<1> QED
  BY <1>1, <1>4, <1>5, DispatchSole

LEMMA UnnestedKeepsSole ==
  ASSUME Inv, SoleRunner, UnnestedStep
  PROVE  SoleRunner'
<1> USE DEF SoleRunner, RunningIsCurrent
<1>1. /\ state \in [Thread -> States] /\ idle \in [Thread -> 0 .. MaxNest]
      /\ cur \in Thread
  BY DEF Inv, TypeOK
<1>2. ASSUME NEW how \in {"IO_BLOCKED", "FINISHED"}
      PROVE  /\ [state EXCEPT ![cur] = how] \in [Thread -> States]
             /\ [state EXCEPT ![cur] = how][cur] # "RUNNING"
             /\ \A t \in Thread : t # cur => [state EXCEPT ![cur] = how][t] = state[t]
  BY <1>1 DEF States
<1>3. CASE CreateFails \/ \E p \in Priorities : Create(p)
  <2>1. UNCHANGED <<cur, idle>>
    BY <1>3 DEF Create, CreateFails
  <2>2. ASSUME NEW t \in Thread  PROVE  state'[t] = "RUNNING" => state[t] = "RUNNING"
    BY <1>1, <1>3 DEF Create, CreateFails, Reap
  <2> QED
    BY <2>1, <2>2
<1>4. CASE Yield \/ (Alarm /\ idle[cur] = 0)
  <2>1. idle[cur] = 0 /\ YieldFrom(state, asleep, watch, due)
    BY <1>4 DEF Yield, UserMode, Alarm
  <2> QED
    BY <1>1, <2>1, YieldSole
<1>5. CASE Sleep \/ \E registered \in BOOLEAN : IoWait(registered)
  <2>1. /\ idle[cur] = 0
        /\ \E sl, wt, du : YieldFrom([state EXCEPT ![cur] = "IO_BLOCKED"], sl, wt, du)
    BY <1>5 DEF Sleep, IoWait, UserMode
  <2> QED
    BY <1>1, <1>2, <2>1, YieldSole
<1>6. CASE Exit
  <2> DEFINE fin == [state EXCEPT ![cur] = "FINISHED"]
             polled == AfterPoll(fin, asleep, watch, due)
  <2>1. idle[cur] = 0 /\ \E q : Dispatch(polled, q, Reap(polled))
    BY <1>6 DEF Exit, UserMode
  <2>2. fin \in [Thread -> States] /\ \A t \in Thread : fin[t] # "RUNNING"
    BY <1>1, <1>2
  <2> HIDE DEF fin
  <2>3. polled \in [Thread -> States] /\ \A t \in Thread : polled[t] # "RUNNING"
    BY <2>2 DEF AfterPoll, States
  <2>4. \A t \in Thread : Reap(polled)[t] # "RUNNING"
    BY <2>3 DEF Reap
  <2>5. \A t \in Thread : idle[t] = 0
    BY <2>1
  <2> QED
    BY <1>1, <2>1, <2>3, <2>4, <2>5, DispatchSole
<1>7. CASE IdlePoll
  <2> DEFINE polled == AfterPoll(state, asleep, watch, due)
  <2>1. polled \in [Thread -> States] /\ \A t \in Thread : polled[t] # "RUNNING"
    BY <1>1, <1>7 DEF AfterPoll, States, IdlePoll
  <2>2. CASE \E q, i : SwitchTo(polled, q, i) /\ idle' = [idle EXCEPT ![cur] = @ - 1]
    <3>1. \A t \in Thread : idle'[t] = 0
      BY <1>1, <1>7, <2>2 DEF IdlePoll
    <3> QED
      BY <2>1, <2>2, <3>1, SwitchSole
  <2>3. CASE state' = polled /\ UNCHANGED <<cur, idle>>
    BY <2>1, <2>3
  <2> QED
    BY <1>7, <2>2, <2>3 DEF IdlePoll
<1>8. CASE \/ \E p \in Policies : SetScheduler(p)
           \/ \E t \in Thread : Expire(t)
           \/ Terminated \/ UNCHANGED vars
  BY <1>8 DEF SetScheduler, Expire, Terminated, vars
<1> QED
  BY <1>3, <1>4, <1>5, <1>6, <1>7, <1>8 DEF UnnestedStep, UserStep, NonExitStep

\* Where alarms do not land in idle loops, no two threads are RUNNING.
THEOREM OnlyCurrentRuns ==
  Spec /\ [][~NestedAlarm]_vars => []RunningIsCurrent
<1>1. Init => SoleRunner
  BY ThreadFacts DEF Init, SoleRunner, RunningIsCurrent
<1>2. Inv /\ SoleRunner /\ [Next]_vars /\ [~NestedAlarm]_vars => SoleRunner'
  <2>1. Inv /\ [Next]_vars /\ [~NestedAlarm]_vars => UnnestedStep
    <3>1. Inv => idle[cur] \in Nat
      BY SchedulerAssumption DEF Inv, TypeOK
    <3> QED
      BY <3>1 DEF UnnestedStep, Next, SystemStep, NestedAlarm
  <2> QED
    BY <2>1, UnnestedKeepsSole
<1>3. SoleRunner => RunningIsCurrent
  BY DEF SoleRunner
<1> QED
  BY <1>1, <1>2, <1>3, SchedulerInv, PTL DEF Spec

=============================================================================
