------------------------------- MODULE Trace --------------------------------
(***************************************************************************)
(* The trace recorder of src/uthread.c: processors that emit events into   *)
(* a buffer of fixed size without a lock, and the thread that enables the  *)
(* recording and dumps it.                                                 *)
(*                                                                         *)
(* The client enables as the tests do, while no processor is in the middle *)
(* of trace_emit.  Any thread may dump at any time, and recording may be   *)
(* enabled anew while it does.                                             *)
(***************************************************************************)
EXTENDS Integers, Sequences, FiniteSets

CONSTANTS
  Emitter,     \* the processors
  Size,        \* TRACE_BUFFER_SIZE
  MaxEvents,   \* bound on the events of one processor
  MaxSessions  \* bound on the calls of uthread_trace_enable

ASSUME TraceAssumption ==
  /\ IsFiniteSet(Emitter)
  /\ Size \in Nat \ {0} /\ MaxEvents \in Nat /\ MaxSessions \in Nat

Slot == 0 .. Size - 1
Event == Emitter \X (1 .. MaxEvents)
Zero == <<>>  \* what calloc leaves

VARIABLES
  enabled,   \* trace_enabled
  count,     \* trace_count
  thread,    \* the tid and type of each slot
  stamp,     \* its timestamp and core
  pc, idx,   \* where each emitter is, and its idx
  made,      \* how many events it has begun to emit
  sessions,  \* calls of uthread_trace_enable; before the first, no buffer
  limit,     \* the count that a running uthread_dump_trace has read, or 0
  dumped,    \* the slots it has written to the file
  kept       \* ghost: the events of this session that got a slot

emitVars == <<pc, idx, made>>
dumpVars == <<limit, dumped>>
traceVars == <<enabled, count, thread, stamp, emitVars, sessions, dumpVars, kept>>

Init ==
  /\ enabled = FALSE
  /\ count = 0
  /\ thread = [i \in Slot |-> Zero] /\ stamp = [i \in Slot |-> Zero]
  /\ pc = [e \in Emitter |-> "rest"]
  /\ idx = [e \in Emitter |-> 0]
  /\ made = [e \in Emitter |-> 0]
  /\ sessions = 0
  /\ limit = 0 /\ dumped = <<>>
  /\ kept = <<>>

-----------------------------------------------------------------------------
Goto(e, label) == pc' = [pc EXCEPT ![e] = label]
AtRest == \A e \in Emitter : pc[e] = "rest"
Current(e) == <<e, made[e]>>

\* Variant: the count of the last session is kept.
EnableOnly ==
  /\ AtRest
  /\ sessions < MaxSessions
  /\ sessions' = sessions + 1
  /\ enabled' = TRUE
  /\ kept' = <<>>
  /\ UNCHANGED <<count, thread, stamp, emitVars, dumpVars>>

\* uthread_trace_enable; only the first call clears the slots.
Enable ==
  /\ AtRest
  /\ sessions < MaxSessions
  /\ sessions' = sessions + 1
  /\ count' = 0
  /\ enabled' = TRUE
  /\ kept' = <<>>
  /\ UNCHANGED <<thread, stamp, emitVars, dumpVars>>

\* uthread_trace_disable; an emitter that is past its test goes on.
Disable ==
  /\ enabled
  /\ enabled' = FALSE
  /\ UNCHANGED <<count, thread, stamp, emitVars, sessions, dumpVars, kept>>

\* trace_emit, up to the test of trace_enabled
Emit(e) ==
  /\ pc[e] = "rest"
  /\ enabled
  /\ made[e] < MaxEvents
  /\ made' = [made EXCEPT ![e] = @ + 1]
  /\ Goto(e, "claim")
  /\ UNCHANGED <<enabled, count, thread, stamp, idx, sessions, dumpVars, kept>>

Keep(e) == kept' = IF count < Size THEN Append(kept, Current(e)) ELSE kept

\* Variant: trace_count++, not atomic, so that an update may be lost.
ClaimPlain(e) ==
  /\ pc[e] = "claim"
  /\ idx' = [idx EXCEPT ![e] = count]
  /\ count' \in {count, count + 1}
  /\ Keep(e)
  /\ Goto(e, IF count < Size THEN "name" ELSE "full")
  /\ UNCHANGED <<enabled, thread, stamp, made, sessions, dumpVars>>

\* idx = atomic_fetch_add(&trace_count, 1)
Claim(e) ==
  /\ pc[e] = "claim"
  /\ idx' = [idx EXCEPT ![e] = count]
  /\ count' = count + 1
  /\ Keep(e)
  /\ Goto(e, IF count < Size THEN "name" ELSE "full")
  /\ UNCHANGED <<enabled, thread, stamp, made, sessions, dumpVars>>

\* Variant: the count is set to the size.
GiveBackStores(e) ==
  /\ pc[e] = "full"
  /\ count' = Size
  /\ Goto(e, "rest")
  /\ UNCHANGED <<enabled, thread, stamp, idx, made, sessions, dumpVars, kept>>

\* idx >= TRACE_BUFFER_SIZE: atomic_fetch_sub, and the event is dropped.
GiveBack(e) ==
  /\ pc[e] = "full"
  /\ count' = count - 1
  /\ Goto(e, "rest")
  /\ UNCHANGED <<enabled, thread, stamp, idx, made, sessions, dumpVars, kept>>

\* trace_buffer[idx].tid and .type
WriteThread(e) ==
  /\ pc[e] = "name"
  /\ thread' = [thread EXCEPT ![idx[e]] = Current(e)]
  /\ Goto(e, "stamp")
  /\ UNCHANGED <<enabled, count, stamp, idx, made, sessions, dumpVars, kept>>

\* .timestamp_ns and .core_id
WriteStamp(e) ==
  /\ pc[e] = "stamp"
  /\ stamp' = [stamp EXCEPT ![idx[e]] = Current(e)]
  /\ Goto(e, "rest")
  /\ UNCHANGED <<enabled, count, thread, idx, made, sessions, dumpVars, kept>>

\* uthread_dump_trace: the count is read once.  A dump changes nothing that
\* others read, so that one at a time stands for several.
DumpBegin ==
  /\ limit = 0
  /\ sessions > 0 /\ count > 0
  /\ limit' = IF count > Size THEN Size ELSE count
  /\ UNCHANGED <<enabled, count, thread, stamp, emitVars, sessions, dumped, kept>>

\* One turn of its loop.  The fields of a slot are read in one step: only a
\* writer of that very slot could come between, and DumpsWhole excepts it.
DumpSlot ==
  /\ Len(dumped) < limit
  /\ dumped' = Append(dumped, <<thread[Len(dumped)], stamp[Len(dumped)]>>)
  /\ UNCHANGED <<enabled, count, thread, stamp, emitVars, sessions, limit, kept>>

\* fclose
DumpEnd ==
  /\ limit > 0 /\ Len(dumped) = limit
  /\ limit' = 0 /\ dumped' = <<>>
  /\ UNCHANGED <<enabled, count, thread, stamp, emitVars, sessions, kept>>

EmitStep(e) ==
  Emit(e) \/ Claim(e) \/ GiveBack(e) \/ WriteThread(e) \/ WriteStamp(e)

Next ==
  \/ Enable \/ Disable \/ DumpBegin \/ DumpSlot \/ DumpEnd
  \/ \E e \in Emitter : EmitStep(e)

Spec == Init /\ [][Next]_traceVars

-----------------------------------------------------------------------------
(***************************************************************************)
(* Correctness.                                                            *)
(***************************************************************************)

TypeOK ==
  /\ enabled \in BOOLEAN
  /\ count \in Nat
  /\ thread \in [Slot -> Event \cup {Zero}]
  /\ stamp \in [Slot -> Event \cup {Zero}]
  /\ pc \in [Emitter -> {"rest", "claim", "full", "name", "stamp"}]
  /\ idx \in [Emitter -> Nat]
  /\ made \in [Emitter -> 0 .. MaxEvents]
  /\ sessions \in 0 .. MaxSessions
  /\ limit \in 0 .. Size
  /\ dumped \in Seq((Event \cup {Zero}) \X (Event \cup {Zero}))
  /\ Len(dumped) <= limit
  /\ kept \in Seq(Event)

Writing(e) == pc[e] \in {"name", "stamp"}
Full == {e \in Emitter : pc[e] = "full"}

\* Processors that emit at the same time write to different slots, inside the
\* buffer, whatever claims are given back between theirs.
SlotsApart ==
  /\ \A e \in Emitter : Writing(e) => idx[e] \in Slot
  /\ \A e, f \in Emitter : Writing(e) /\ Writing(f) /\ idx[e] = idx[f] => e = f

\* The count is the slots taken and the claims still to be given back; there
\* are such claims only when the buffer is full, so that none of them makes an
\* emitter drop an event for which there was room.
CountSettles ==
  /\ count = Len(kept) + Cardinality(Full)
  /\ Full # {} => Len(kept) = Size

\* A dump never waits for emitters.  Each slot it reads is nevertheless the whole
\* event that has claimed it, slots in the order of the claims, unless that very
\* slot is being written at the moment or a later session has not claimed it yet.
DumpsWhole ==
  [][\A i \in 1 .. Len(kept) :
       /\ Len(dumped) < i /\ i <= Len(dumped')
       /\ \A e \in Emitter : Writing(e) => idx[e] # i - 1
       => dumped'[i] = <<kept[i], kept[i]>>]_traceVars

=============================================================================
