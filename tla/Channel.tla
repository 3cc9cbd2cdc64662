------------------------------ MODULE Channel -------------------------------
(***************************************************************************)
(* The bounded channel of src/uthread.c in single-core mode: a ring buffer *)
(* with two semaphores and a mutex.  uthread_channel_send and _recv call   *)
(* those with SIGALRM open in between, so each of their calls, and each    *)
(* access to the buffer, is an action of its own.                          *)
(***************************************************************************)
EXTENDS Sync

CONSTANTS
  mutex, space, messages,   \* ch->mutex, space_available, messages_available
  Capacity,                 \* ch->capacity
  Message, NoMessage        \* what is sent, and nothing

ASSUME ChannelAssumption ==
  /\ Capacity \in Nat \ {0}
  /\ space # messages
  /\ Mutexes = {mutex} /\ Sems = {space, messages}
  /\ SemInit = [s \in Sems |-> IF s = space THEN Capacity ELSE 0]
  /\ NoMessage \notin Message

VARIABLES
  op,      \* the channel call each thread is in
  at,      \* what it does next in it
  msg,     \* the message it sends or has read
  buffer,  \* ch->buffer
  head,    \* ch->head
  tail,    \* ch->tail
  filled,  \* ghost: the slots between head and tail
  taken    \* ghost: the message that head passed last

ringVars == <<buffer, head, tail, filled, taken>>
chanVars == <<op, at, msg, ringVars>>
channelVars == <<allVars, chanVars>>

\* uthread_channel_init, in a process that has an epoll descriptor
ChannelInit ==
  /\ SyncInit /\ epollOk
  /\ op = [t \in Thread |-> "none"]
  /\ at = [t \in Thread |-> "begin"]
  /\ msg = [t \in Thread |-> NoMessage]
  /\ buffer = [i \in 0 .. Capacity - 1 |-> NoMessage]
  /\ head = 0 /\ tail = 0
  /\ filled = 0 /\ taken = NoMessage

-----------------------------------------------------------------------------
InCall(step) == UserMode /\ op[cur] # "none" /\ at[cur] = step
GoOn(step) == at' = [at EXCEPT ![cur] = step]

\* The first call of send or recv: sem_wait for a free slot or a message.
SendBegin ==
  /\ UserMode /\ op[cur] = "none"
  /\ \E m \in Message : msg' = [msg EXCEPT ![cur] = m]
  /\ op' = [op EXCEPT ![cur] = "send"]
  /\ GoOn("lock")
  /\ SemWait(space)
  /\ UNCHANGED ringVars

RecvBegin ==
  /\ UserMode /\ op[cur] = "none"
  /\ op' = [op EXCEPT ![cur] = "recv"]
  /\ GoOn("lock")
  /\ SemWait(messages)
  /\ UNCHANGED <<msg, ringVars>>

\* Variant: the mutex is not taken.
ChannelLockNone ==
  /\ InCall("lock")
  /\ GoOn("access")
  /\ UNCHANGED <<allVars, op, msg, ringVars>>

ChannelLock ==
  /\ InCall("lock")
  /\ MutexLock(mutex)
  /\ GoOn("access")
  /\ UNCHANGED <<op, msg, ringVars>>

\* ch->buffer[ch->tail] = msg, or msg = ch->buffer[ch->head]
Access ==
  /\ InCall("access")
  /\ \/ /\ op[cur] = "send"
        /\ buffer' = [buffer EXCEPT ![tail] = msg[cur]]
        /\ UNCHANGED msg
     \/ /\ op[cur] = "recv"
        /\ msg' = [msg EXCEPT ![cur] = buffer[head]]
        /\ UNCHANGED buffer
  /\ GoOn("advance")
  /\ UNCHANGED <<allVars, op, head, tail, filled, taken>>

\* tail, or head, moves round the buffer.  What a receiver has read is then in
\* the hands of its caller.
Advance ==
  /\ InCall("advance")
  /\ \/ /\ op[cur] = "send"
        /\ tail' = (tail + 1) % Capacity
        /\ filled' = filled + 1
        /\ UNCHANGED <<head, taken, msg>>
     \/ /\ op[cur] = "recv"
        /\ head' = (head + 1) % Capacity
        /\ filled' = filled - 1
        /\ taken' = msg[cur]
        /\ msg' = [msg EXCEPT ![cur] = NoMessage]
        /\ UNCHANGED tail
  /\ GoOn("unlock")
  /\ UNCHANGED <<allVars, op, buffer>>

ChannelUnlock ==
  /\ InCall("unlock")
  /\ MutexUnlock(mutex)
  /\ GoOn("post")
  /\ UNCHANGED <<op, msg, ringVars>>

\* Variant: the two semaphores are swapped.
PostSwapped ==
  /\ InCall("post")
  /\ SemPost(IF op[cur] = "send" THEN space ELSE messages)
  /\ op' = [op EXCEPT ![cur] = "none"]
  /\ msg' = [msg EXCEPT ![cur] = NoMessage]
  /\ GoOn("begin")
  /\ UNCHANGED ringVars

\* The last call: sem_post of the other semaphore, and return.
Post ==
  /\ InCall("post")
  /\ SemPost(IF op[cur] = "send" THEN messages ELSE space)
  /\ op' = [op EXCEPT ![cur] = "none"]
  /\ msg' = [msg EXCEPT ![cur] = NoMessage]
  /\ GoOn("begin")
  /\ UNCHANGED ringVars

CallStep == ChannelLock \/ Access \/ Advance \/ ChannelUnlock \/ Post

\* Between its channel calls a thread makes any other call of the scheduler.
OtherStep ==
  /\ (op[cur] = "none" /\ UserStep) \/ SystemStep \/ Terminated
  /\ UNCHANGED <<syncVars, chanVars>>

ChannelNext == SendBegin \/ RecvBegin \/ CallStep \/ OtherStep

Quiet(A) == A /\ UNCHANGED <<syncVars, chanVars>>

(***************************************************************************)
(* Besides the scheduler's own progress: a thread in a call that gets the  *)
(* processor again and again goes on with it.  No thread has to make a     *)
(* call, or to do anything outside of one.                                 *)
(***************************************************************************)
ChannelSpec ==
  /\ ChannelInit
  /\ [][ChannelNext]_channelVars
  /\ WF_channelVars(Quiet(Alarm))
  /\ WF_channelVars(Quiet(IdlePoll))
  /\ \A t \in Thread : SF_channelVars(cur = t /\ CallStep)

-----------------------------------------------------------------------------
(***************************************************************************)
(* Correctness.                                                            *)
(***************************************************************************)

\* The messages from head to tail.
Contents == [i \in 1 .. filled |-> buffer[(head + i - 1) % Capacity]]

Fifo == INSTANCE BoundedFifo WITH queue <- Contents, delivered <- taken

\* The channel is a bounded FIFO queue: it never holds more than its capacity,
\* no write overtakes a slow reader round the ring, and every message comes
\* out once, in the order in which the messages went in.
FifoImplemented == Fifo!Spec

\* A thread that has its slot or its message, and has not passed it on yet.
Claims(kind, steps) ==
  Cardinality({t \in Thread :
    op[t] = kind /\ at[t] \in steps /\ ~Waits(t, space) /\ ~Waits(t, messages)})

\* Slots and messages are accounted for at every moment: a filled slot is a
\* unit of messages_available, or claimed by a receiver that has not advanced
\* head, or by a sender that has not posted; a free one likewise.
SlotsAccounted ==
  /\ filled = count[messages] + Claims("recv", {"lock", "access", "advance"})
                              + Claims("send", {"unlock", "post"})
  /\ Capacity - filled = count[space] + Claims("recv", {"unlock", "post"})
                                      + Claims("send", {"lock", "access", "advance"})

\* An alarm has landed in the idle loop of t, and its wake-up was consumed on
\* top of that loop: t spins in the loop, and is left RUNNING when it ends.
Lost(t) ==
  \/ state[t] = "RUNNING" /\ t # cur
  \/ state[t] \in {"READY", "RUNNING"} /\ idle[t] > 0

Stranded(kind) == Cardinality({t \in Thread : op[t] = kind /\ Lost(t)})

\* A sender waits for a full buffer, or a receiver for an empty one; slots and
\* messages that a lost thread has been given do not count.
Hangs(t) ==
  \/ op[t] = "send" /\ Waits(t, space) /\ filled + Stranded("send") = Capacity
  \/ op[t] = "recv" /\ Waits(t, messages) /\ filled = Stranded("recv")

\* Every call returns, unless its own wake-up was lost to a nested alarm, or
\* the buffer stays full, or empty, for ever: no sender is passed over while
\* slots are freed, and no receiver while messages come in.
CallsComplete ==
  \A t \in Thread :
    []<>(op[t] = "none" \/ exited) \/ <>[]Hangs(t) \/ <>[]Lost(t)

=============================================================================
