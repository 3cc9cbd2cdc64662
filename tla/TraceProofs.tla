---------------------------- MODULE TraceProofs -----------------------------
(***************************************************************************)
(* The trace recorder is right for any number of processors and any size   *)
(* of the buffer.                                                          *)
(***************************************************************************)
EXTENDS Trace, FiniteSetTheorems, SequenceTheorems, TLAPS

\* An emitter holds the slot of its event until the slot is written.
Holds(e, i) ==
  /\ Writing(e) /\ idx[e] = i
  /\ kept[i + 1] = Current(e)
  /\ pc[e] = "stamp" => thread[i] = Current(e)

Written(i) == thread[i] = kept[i + 1] /\ stamp[i] = kept[i + 1]

ClaimsInv ==
  /\ Len(kept) <= Size
  /\ \A e \in Emitter : Writing(e) => idx[e] < Len(kept) /\ Holds(e, idx[e])
  /\ \A e \in Emitter : pc[e] # "rest" => made[e] > 0
  /\ \A i \in 0 .. Len(kept) - 1 : (\E e \in Emitter : Holds(e, i)) \/ Written(i)

TraceInv == TypeOK /\ CountSettles /\ SlotsApart /\ ClaimsInv

-----------------------------------------------------------------------------
LEMMA InitTrace == Init => TraceInv
<1> SUFFICES ASSUME Init PROVE TraceInv
  OBVIOUS
<1>1. TypeOK
  <2>1. dumped = <<>> /\ kept = <<>> /\ limit = 0
    BY DEF Init
  <2>2. /\ dumped \in Seq((Event \cup {Zero}) \X (Event \cup {Zero}))
        /\ Len(dumped) <= limit
        /\ kept \in Seq(Event)
    BY <2>1, EmptySeq
  <2>3. /\ thread \in [Slot -> Event \cup {Zero}]
        /\ stamp \in [Slot -> Event \cup {Zero}]
    BY DEF Init
  <2>4. /\ pc \in [Emitter -> {"rest", "claim", "full", "name", "stamp"}]
        /\ idx \in [Emitter -> Nat] /\ made \in [Emitter -> 0 .. MaxEvents]
    BY TraceAssumption DEF Init
  <2>5. enabled \in BOOLEAN
    BY DEF Init
  <2>6. count \in Nat /\ sessions \in 0 .. MaxSessions
    BY TraceAssumption DEF Init
  <2>7. limit \in 0 .. Size
    BY <2>1, TraceAssumption
  <2> QED
    BY <2>2, <2>3, <2>4, <2>5, <2>6, <2>7 DEF TypeOK
<1>2. Full = {} /\ Cardinality({}) = 0
  BY FS_EmptySet DEF Init, Full
<1>3. CountSettles
  BY <1>2 DEF Init, CountSettles
<1>4. SlotsApart /\ ClaimsInv
  BY TraceAssumption DEF Init, SlotsApart, ClaimsInv, Writing
<1> QED BY <1>1, <1>3, <1>4 DEF TraceInv

LEMMA FullFinite == IsFiniteSet(Full) /\ Cardinality(Full) \in Nat
BY TraceAssumption, FS_Subset, FS_CardinalityType DEF Full

\* At rest the count is the number of slots taken.
LEMMA RestCounts ==
  ASSUME TraceInv, AtRest
  PROVE  Full = {} /\ count = Len(kept)
<1>1. Full = {}
  BY DEF AtRest, Full
<1> QED BY <1>1, FS_EmptySet DEF TraceInv, TypeOK, CountSettles

\* The steps of the client.
LEMMA ClientKeeps ==
  ASSUME TraceInv, Enable \/ Disable \/ DumpBegin \/ DumpSlot \/ DumpEnd
  PROVE  TraceInv'
<1> USE TraceAssumption DEF TraceInv, emitVars, dumpVars
<1>1. CASE Enable
  <2>1. Full' = {} /\ Cardinality(Full') = 0
    BY <1>1, RestCounts, FS_EmptySet DEF Enable, Full
  <2>2. kept' = <<>> /\ \A e \in Emitter : ~Writing(e)'
    BY <1>1 DEF Enable, AtRest, Writing
  <2>3. TypeOK'
    BY <1>1, <2>2 DEF Enable, TypeOK
  <2>4. (CountSettles /\ SlotsApart)'
    BY <1>1, <2>1, <2>2 DEF Enable, CountSettles, SlotsApart
  <2>5. ClaimsInv'
    BY <1>1, <2>2 DEF Enable, ClaimsInv, AtRest
  <2> QED BY <2>3, <2>4, <2>5
<1>2. ASSUME UNCHANGED <<count, thread, stamp, emitVars, kept>>
      PROVE  (CountSettles /\ SlotsApart /\ ClaimsInv)'
  BY <1>2 DEF CountSettles, Full, SlotsApart, Writing, ClaimsInv, Holds, Written, Current
<1>3. CASE Disable
  <2>1. TypeOK'
    BY <1>3 DEF Disable, TypeOK
  <2> QED BY <1>2, <1>3, <2>1 DEF Disable
<1>4. CASE DumpBegin
  <2>1. limit' \in 0 .. Size /\ Len(dumped) <= limit'
    BY <1>4 DEF DumpBegin, TypeOK
  <2>2. TypeOK'
    BY <1>4, <2>1 DEF DumpBegin, TypeOK
  <2> QED BY <1>2, <1>4, <2>2 DEF DumpBegin
<1>5. CASE DumpSlot
  <2> DEFINE i == Len(dumped)
  <2>1. i \in Slot
    BY <1>5 DEF DumpSlot, TypeOK, Slot
  <2>2. <<thread[i], stamp[i]>> \in (Event \cup {Zero}) \X (Event \cup {Zero})
    BY <2>1 DEF TypeOK
  <2>3. TypeOK'
    BY <1>5, <2>2 DEF DumpSlot, TypeOK
  <2> QED BY <1>2, <1>5, <2>3 DEF DumpSlot
<1>6. CASE DumpEnd
  <2>1. TypeOK'
    BY <1>6 DEF DumpEnd, TypeOK
  <2> QED BY <1>2, <1>6, <2>1 DEF DumpEnd
<1> QED BY <1>1, <1>3, <1>4, <1>5, <1>6

\* An emitter that begins, or gives its claim back.
LEMMA EmitKeeps ==
  ASSUME TraceInv, NEW e \in Emitter, Emit(e)
  PROVE  TraceInv'
<1> USE TraceAssumption DEF TraceInv, dumpVars, Goto
<1>1. Full' = Full /\ \A f \in Emitter : Writing(f)' = Writing(f)
  BY DEF Emit, TypeOK, Full, Writing
<1>2. \A f \in Emitter : Writing(f) => Current(f)' = Current(f)
  BY DEF Emit, TypeOK, Writing, Current
<1>3. \A f \in Emitter, i \in Nat : Holds(f, i) => Holds(f, i)'
  BY <1>1, <1>2 DEF Emit, TypeOK, Holds, Writing
<1>4. TypeOK'
  BY DEF Emit, TypeOK
<1>5. (CountSettles /\ SlotsApart)'
  BY <1>1 DEF Emit, CountSettles, SlotsApart
<1>6. ClaimsInv'
  <2>1. \A f \in Emitter : (pc[f] # "rest" => made[f] > 0)'
    BY DEF Emit, TypeOK, ClaimsInv
  <2>2. \A f \in Emitter : (Writing(f) => idx[f] < Len(kept) /\ Holds(f, idx[f]))'
    BY <1>1, <1>3 DEF Emit, TypeOK, ClaimsInv
  <2>3. \A i \in 0 .. Len(kept) - 1 : ((\E f \in Emitter : Holds(f, i)) \/ Written(i))'
    BY <1>3 DEF Emit, TypeOK, ClaimsInv, Written
  <2> QED BY <2>1, <2>2, <2>3 DEF Emit, ClaimsInv
<1> QED BY <1>4, <1>5, <1>6

LEMMA GiveBackKeeps ==
  ASSUME TraceInv, NEW e \in Emitter, GiveBack(e)
  PROVE  TraceInv'
<1> USE TraceAssumption DEF TraceInv, dumpVars, Goto
<1>1. e \in Full /\ Full' = Full \ {e} /\ \A f \in Emitter : Writing(f)' = Writing(f)
  BY DEF GiveBack, TypeOK, Full, Writing
<1>2. Cardinality(Full') = Cardinality(Full) - 1
  BY <1>1, FullFinite, FS_RemoveElement
<1>3. Cardinality(Full') \in Nat
  BY <1>1, FullFinite, FS_RemoveElement, FS_CardinalityType
<1>4. count' = Len(kept) + Cardinality(Full')
  BY <1>2, FullFinite DEF GiveBack, TypeOK, CountSettles
<1>5. TypeOK'
  BY <1>3, <1>4 DEF GiveBack, TypeOK
<1>6. (CountSettles /\ SlotsApart)'
  BY <1>1, <1>4 DEF GiveBack, CountSettles, SlotsApart
<1>7. ClaimsInv'
  BY <1>1 DEF GiveBack, TypeOK, ClaimsInv, Holds, Written, Current, Writing
<1> QED BY <1>5, <1>6, <1>7

\* A claim in a full buffer is kept for giving back.
LEMMA ClaimFullKeeps ==
  ASSUME TraceInv, NEW e \in Emitter, Claim(e), count >= Size
  PROVE  TraceInv'
<1> USE TraceAssumption DEF TraceInv, dumpVars, Goto
<1>1. e \notin Full /\ Full' = Full \cup {e} /\ \A f \in Emitter : Writing(f)' = Writing(f)
  BY DEF Claim, TypeOK, Full, Writing
<1>2. Cardinality(Full') = Cardinality(Full) + 1
  BY <1>1, FullFinite, FS_AddElement
<1>3. kept' = kept
  BY DEF Claim, Keep, TypeOK
<1>4. Len(kept) = Size
  <2>1. CASE Full = {}
    BY <2>1, FS_EmptySet DEF CountSettles, ClaimsInv, TypeOK
  <2>2. CASE Full # {}
    BY <2>2 DEF CountSettles
  <2> QED BY <2>1, <2>2
<1>5. TypeOK'
  BY <1>3 DEF Claim, TypeOK
<1>6. CountSettles'
  BY <1>2, <1>3, <1>4, FullFinite DEF Claim, TypeOK, CountSettles
<1>7. \A f \in Emitter : Writing(f) => idx'[f] = idx[f] /\ f # e
  BY DEF Claim, TypeOK, Writing
<1>8. SlotsApart'
  BY <1>1, <1>7 DEF SlotsApart
<1>9. ClaimsInv'
  <2>1. \A f \in Emitter, i \in Nat : Holds(f, i) => Holds(f, i)'
    BY <1>1, <1>3, <1>7 DEF Claim, TypeOK, Holds, Writing, Current
  <2>2. \A f \in Emitter : (Writing(f) => idx[f] < Len(kept) /\ Holds(f, idx[f]))'
    BY <1>1, <1>3, <1>7, <2>1 DEF TypeOK, ClaimsInv
  <2>3. \A f \in Emitter : (pc[f] # "rest" => made[f] > 0)'
    BY DEF Claim, TypeOK, ClaimsInv
  <2>4. \A i \in 0 .. Len(kept) - 1 : ((\E f \in Emitter : Holds(f, i)) \/ Written(i))'
    BY <1>3, <2>1 DEF Claim, TypeOK, ClaimsInv, Written
  <2> QED BY <1>3, <2>2, <2>3, <2>4 DEF ClaimsInv
<1> QED BY <1>5, <1>6, <1>8, <1>9

\* A claim while there is room takes the slot after those taken.
LEMMA ClaimRoomKeeps ==
  ASSUME TraceInv, NEW e \in Emitter, Claim(e), count < Size
  PROVE  TraceInv'
<1> USE TraceAssumption DEF TraceInv, dumpVars, Goto
<1> PICK n \in Nat : n = Len(kept)
  BY DEF TypeOK
<1>1. Full = {} /\ count = n
  <2>1. Full = {}
    BY FullFinite DEF CountSettles, TypeOK
  <2> QED BY <2>1, FS_EmptySet DEF CountSettles, TypeOK
<1>2. /\ Full' = Full
      /\ idx'[e] = n /\ Writing(e)' /\ ~Writing(e)
      /\ \A f \in Emitter : f # e => Writing(f)' = Writing(f) /\ idx'[f] = idx[f]
  BY <1>1 DEF Claim, TypeOK, Full, Writing
<1>3. /\ Current(e) \in Event
      /\ \A f \in Emitter : Current(f)' = Current(f)
  <2>1. made[e] \in 1 .. MaxEvents
    <3>1. pc[e] = "claim"
      BY DEF Claim
    <3>2. made[e] \in 0 .. MaxEvents
      BY DEF TypeOK
    <3>3. made[e] > 0
      BY <3>1 DEF ClaimsInv
    <3> QED BY <3>2, <3>3
  <2> QED BY <2>1 DEF Claim, Current, Event
<1>4. /\ kept' = Append(kept, Current(e))
      /\ Len(kept') = n + 1
      /\ kept'[n + 1] = Current(e)
      /\ \A i \in 1 .. n : kept'[i] = kept[i]
      /\ kept' \in Seq(Event)
  BY <1>3 DEF Claim, Keep, TypeOK
<1>5. TypeOK'
  BY <1>4 DEF Claim, TypeOK
<1>6. CountSettles'
  BY <1>1, <1>2, <1>4, FS_EmptySet DEF Claim, CountSettles, TypeOK
<1>7. SlotsApart'
  <2>1. \A f \in Emitter : Writing(f) => idx[f] < n
    BY DEF ClaimsInv
  <2>2. n \in Slot
    BY <1>1 DEF Slot
  <2>3. ASSUME NEW f \in Emitter, Writing(f)'
        PROVE  f = e \/ (f # e /\ Writing(f) /\ idx'[f] = idx[f] /\ idx'[f] \in Nat)
    BY <2>3, <1>2 DEF TypeOK
  <2>4. \A f \in Emitter : Writing(f)' => idx'[f] \in Slot
    BY <1>2, <2>2, <2>3 DEF SlotsApart
  <2>5. ASSUME NEW f \in Emitter, NEW g \in Emitter,
               Writing(f)', Writing(g)', idx'[f] = idx'[g]
        PROVE  f = g
    BY <1>2, <2>1, <2>3, <2>5 DEF SlotsApart
  <2> QED BY <2>4, <2>5 DEF SlotsApart
<1>8. ClaimsInv'
  <2>1. \A f \in Emitter : f # e => pc'[f] = pc[f]
    BY DEF Claim, TypeOK
  <2>2. Holds(e, n)'
    BY <1>1, <1>2, <1>3, <1>4 DEF Claim, TypeOK, Holds
  <2>3. \A f \in Emitter, i \in 0 .. n - 1 : Holds(f, i) => Holds(f, i)'
    BY <1>2, <1>3, <1>4, <2>1 DEF Claim, TypeOK, Holds
  <2>4. \A f \in Emitter : (Writing(f) => idx[f] < Len(kept) /\ Holds(f, idx[f]))'
    <3> SUFFICES ASSUME NEW f \in Emitter, Writing(f)'
                 PROVE  (idx[f] < Len(kept) /\ Holds(f, idx[f]))'
      OBVIOUS
    <3>1. CASE f = e
      BY <3>1, <1>2, <1>4, <2>2 DEF TypeOK
    <3>2. CASE f # e
      <4>1. Writing(f) /\ idx'[f] = idx[f]
        BY <3>2, <1>2
      <4>2. idx[f] \in 0 .. n - 1 /\ Holds(f, idx[f])
        BY <4>1 DEF ClaimsInv, TypeOK
      <4> QED BY <4>1, <4>2, <2>3, <1>4
    <3> QED BY <3>1, <3>2
  <2>5. \A f \in Emitter : (pc[f] # "rest" => made[f] > 0)'
    BY DEF Claim, TypeOK, ClaimsInv
  <2>6. \A i \in 0 .. Len(kept) - 1 : Written(i) => Written(i)'
    BY <1>4 DEF Claim, Written
  <2>7. \A i \in 0 .. Len(kept') - 1 : ((\E f \in Emitter : Holds(f, i)) \/ Written(i))'
    <3> SUFFICES ASSUME NEW i \in 0 .. Len(kept') - 1
                 PROVE  ((\E f \in Emitter : Holds(f, i)) \/ Written(i))'
      OBVIOUS
    <3>1. CASE i = n
      BY <3>1, <2>2
    <3>2. CASE i # n
      <4>1. i \in 0 .. n - 1
        BY <3>2, <1>4
      <4> QED BY <4>1, <2>3, <2>6 DEF ClaimsInv
    <3> QED BY <3>1, <3>2
  <2>8. Len(kept') <= Size
    BY <1>1, <1>4 DEF TypeOK
  <2> QED BY <2>4, <2>5, <2>7, <2>8 DEF ClaimsInv
<1> QED BY <1>5, <1>6, <1>7, <1>8

\* The two writes to the slot.
LEMMA WriteKeeps ==
  ASSUME TraceInv, NEW e \in Emitter, WriteThread(e) \/ WriteStamp(e)
  PROVE  TraceInv'
<1> USE TraceAssumption DEF TraceInv, dumpVars, Goto
<1> PICK j \in Nat : j = idx[e]
  BY DEF TypeOK
<1>1. Writing(e) /\ j \in Slot /\ j < Len(kept) /\ kept[j + 1] = Current(e)
  BY DEF WriteThread, WriteStamp, Writing, SlotsApart, ClaimsInv, Holds
<1>2. /\ Full' = Full
      /\ \A f \in Emitter : Writing(f)' => Writing(f)
      /\ \A f \in Emitter : f # e /\ Writing(f) => idx[f] # j
  BY <1>1 DEF WriteThread, WriteStamp, TypeOK, Full, Writing, SlotsApart
<1>3. TypeOK'
  <2>1. Current(e) \in Event
    BY <1>1 DEF TypeOK
  <2>2. pc' \in [Emitter -> {"rest", "claim", "full", "name", "stamp"}]
    BY DEF WriteThread, WriteStamp, TypeOK
  <2>3. CASE WriteThread(e)
    <3>1. thread' \in [Slot -> Event \cup {Zero}]
      BY <2>1, <2>3 DEF WriteThread, TypeOK
    <3> QED BY <2>2, <2>3, <3>1 DEF WriteThread, TypeOK
  <2>4. CASE WriteStamp(e)
    <3>1. stamp' \in [Slot -> Event \cup {Zero}]
      BY <2>1, <2>4 DEF WriteStamp, TypeOK
    <3> QED BY <2>2, <2>4, <3>1 DEF WriteStamp, TypeOK
  <2> QED BY <2>3, <2>4
<1>4. (CountSettles /\ SlotsApart)'
  BY <1>2 DEF WriteThread, WriteStamp, CountSettles, SlotsApart
<1>5. \A i \in Nat : i # j => thread'[i] = thread[i] /\ stamp'[i] = stamp[i]
  <2>1. CASE WriteThread(e)
    BY <2>1 DEF WriteThread, TypeOK
  <2>2. CASE WriteStamp(e)
    BY <2>2 DEF WriteStamp, TypeOK
  <2> QED BY <2>1, <2>2
<1>6. \A f \in Emitter, i \in Nat : f # e /\ Holds(f, i) => Holds(f, i)'
  <2> SUFFICES ASSUME NEW f \in Emitter, NEW i \in Nat, f # e, Holds(f, i)
               PROVE  Holds(f, i)'
    OBVIOUS
  <2>1. i # j
    BY <1>2 DEF Holds
  <2>2. pc'[f] = pc[f] /\ idx' = idx /\ kept' = kept /\ Current(f)' = Current(f)
    BY DEF WriteThread, WriteStamp, TypeOK, Current
  <2> QED BY <2>1, <2>2, <1>5 DEF Holds, Writing
<1>7. \A i \in 0 .. Len(kept) - 1 : i # j /\ Written(i) => Written(i)'
  BY <1>5 DEF WriteThread, WriteStamp, Written
<1>8. (Writing(e)' => Holds(e, j)') /\ (Holds(e, j)' \/ Written(j)')
  <2>1. CASE WriteThread(e)
    <3>1. thread'[j] = Current(e) /\ Current(e)' = Current(e) /\ pc'[e] = "stamp"
      BY <1>1, <2>1 DEF WriteThread, TypeOK, Current
    <3> QED BY <1>1, <2>1, <3>1 DEF WriteThread, Holds, Writing
  <2>2. CASE WriteStamp(e)
    <3>1. stamp'[j] = Current(e) /\ thread'[j] = Current(e) /\ pc'[e] = "rest"
      BY <1>1, <2>2 DEF WriteStamp, TypeOK, ClaimsInv, Holds
    <3> QED BY <1>1, <2>2, <3>1 DEF WriteStamp, Written, Writing
  <2> QED BY <2>1, <2>2
<1>9. ClaimsInv'
  <2>1. \A f \in Emitter : (Writing(f) => idx[f] < Len(kept) /\ Holds(f, idx[f]))'
    BY <1>2, <1>6, <1>8 DEF WriteThread, WriteStamp, ClaimsInv, TypeOK
  <2>2. \A f \in Emitter : (pc[f] # "rest" => made[f] > 0)'
    BY DEF WriteThread, WriteStamp, TypeOK, ClaimsInv
  <2>3. \A i \in 0 .. Len(kept) - 1 : ((\E f \in Emitter : Holds(f, i)) \/ Written(i))'
    <3> SUFFICES ASSUME NEW i \in 0 .. Len(kept) - 1
                 PROVE  ((\E f \in Emitter : Holds(f, i)) \/ Written(i))'
      BY DEF WriteThread, WriteStamp
    <3>1. CASE i = j
      BY <3>1, <1>8
    <3>2. CASE i # j
      <4>1. \A f \in Emitter : Holds(f, i) => f # e
        BY <3>2 DEF Holds
      <4> QED BY <3>2, <4>1, <1>6, <1>7 DEF ClaimsInv
    <3> QED BY <3>1, <3>2
  <2> QED BY <2>1, <2>2, <2>3 DEF WriteThread, WriteStamp, ClaimsInv
<1> QED BY <1>3, <1>4, <1>9

-----------------------------------------------------------------------------
LEMMA StepTrace == TraceInv /\ [Next]_traceVars => TraceInv'
<1> SUFFICES ASSUME TraceInv, [Next]_traceVars PROVE TraceInv'
  OBVIOUS
<1>1. CASE UNCHANGED traceVars
  BY <1>1 DEF TraceInv, TypeOK, CountSettles, Full, SlotsApart, Writing, ClaimsInv, Holds,
     Written, Current, traceVars, emitVars, dumpVars
<1>2. ASSUME NEW e \in Emitter, EmitStep(e) PROVE TraceInv'
  <2>1. count >= Size \/ count < Size
    BY TraceAssumption DEF TraceInv, TypeOK
  <2> QED BY <1>2, <2>1, EmitKeeps, GiveBackKeeps, ClaimFullKeeps, ClaimRoomKeeps, WriteKeeps
           DEF EmitStep
<1> QED BY <1>1, <1>2, ClientKeeps DEF Next

\* What a step of a dump adds is what its slot holds.
LEMMA DumpedSlot ==
  ASSUME TraceInv, [Next]_traceVars, NEW i \in 1 .. Len(kept),
         Len(dumped) < i, i <= Len(dumped')
  PROVE  i - 1 \in Slot /\ dumped'[i] = <<thread[i - 1], stamp[i - 1]>>
<1> USE TraceAssumption DEF TraceInv
<1>1. i - 1 \in Slot
  BY DEF ClaimsInv, TypeOK, Slot
<1>2. Len(dumped') > Len(dumped)
  BY DEF TypeOK, TraceInv
<1>3. DumpSlot
  <2>1. dumped' # dumped
    BY <1>2 DEF TypeOK
  <2>2. Len(dumped) \in Nat
    BY DEF TypeOK
  <2>3. ~DumpEnd
    BY <1>2, <2>2 DEF DumpEnd
  <2> QED BY <2>1, <2>3 DEF Next, Enable, Disable, DumpBegin, EmitStep, Emit, Claim,
           GiveBack, WriteThread, WriteStamp, traceVars, dumpVars
<1>4. dumped' = Append(dumped, <<thread[Len(dumped)], stamp[Len(dumped)]>>)
  BY <1>3 DEF DumpSlot
<1>5. i = Len(dumped) + 1
  BY <1>4 DEF TypeOK
<1>6. Len(dumped) = i - 1
  BY <1>5 DEF TypeOK
<1> QED BY <1>1, <1>4, <1>5, <1>6 DEF TypeOK

LEMMA DumpedWhole ==
  ASSUME TraceInv, [Next]_traceVars, NEW i \in 1 .. Len(kept),
         Len(dumped) < i, i <= Len(dumped'),
         \A e \in Emitter : Writing(e) => idx[e] # i - 1
  PROVE  dumped'[i] = <<kept[i], kept[i]>>
<1>1. i - 1 \in 0 .. Len(kept) - 1 /\ (i - 1) + 1 = i
  BY DEF TraceInv, TypeOK
<1>2. \A e \in Emitter : ~Holds(e, i - 1)
  BY DEF Holds
<1>3. Written(i - 1)
  BY <1>1, <1>2 DEF TraceInv, ClaimsInv
<1> QED BY <1>1, <1>3, DumpedSlot DEF Written

LEMMA TraceInvariant == Spec => []TraceInv
BY InitTrace, StepTrace, PTL DEF Spec

(***************************************************************************)
(* Types of the recorder's variables; the count is never negative.         *)
(***************************************************************************)
THEOREM TraceTypes == Spec => []TypeOK
BY TraceInvariant, PTL DEF TraceInv

(***************************************************************************)
(* atomic_fetch_add gives concurrent emitters different slots of the       *)
(* buffer, although refused claims are given back in between.              *)
(***************************************************************************)
THEOREM SlotsOwned == Spec => []SlotsApart
BY TraceInvariant, PTL DEF TraceInv

(***************************************************************************)
(* trace_count counts the slots taken and the claims to be given back, and *)
(* a claim is refused only in a full buffer.                               *)
(***************************************************************************)
THEOREM CountSound == Spec => []CountSettles
BY TraceInvariant, PTL DEF TraceInv

(***************************************************************************)
(* A slot that uthread_dump_trace reads is the whole event that claimed    *)
(* it, although emitters never wait for a dump: only the slots that are    *)
(* being written, or that the session has not claimed yet, may differ.     *)
(***************************************************************************)
THEOREM DumpSound == Spec => DumpsWhole
<1>1. TraceInv /\ [Next]_traceVars =>
        [\A i \in 1 .. Len(kept) :
           /\ Len(dumped) < i /\ i <= Len(dumped')
           /\ \A e \in Emitter : Writing(e) => idx[e] # i - 1
           => dumped'[i] = <<kept[i], kept[i]>>]_traceVars
  BY DumpedWhole
<1> QED BY <1>1, TraceInvariant, PTL DEF Spec, DumpsWhole

=============================================================================
