---------------------------- MODULE QueueLemmas ----------------------------
(***************************************************************************)
(* Facts about sequences without repetition, the form in which the queues  *)
(* of the scheduler appear in the proofs.                                  *)
(***************************************************************************)
EXTENDS SequencesExt, SequenceTheorems, FiniteSetTheorems, TLAPS

\* What membership in the range of a sequence means, by position.
LEMMA InRange ==
  ASSUME NEW S, NEW q \in Seq(S), NEW x
  PROVE  x \in Range(q) <=> \E i \in 1 .. Len(q) : q[i] = x
BY RangeEquality

\* Nobody is in an empty queue.
LEMMA EmptyRange == \A x : x \notin Range(<<>>)
<1>1. <<>> \in Seq({}) /\ Len(<<>>) = 0
  BY EmptySeq
<1>2. ASSUME NEW x PROVE x \notin Range(<<>>)
  <2>1. x \in Range(<<>>) <=> \E i \in 1 .. Len(<<>>) : <<>>[i] = x
    BY <1>1, InRange
  <2> QED
    BY <1>1, <2>1
<1> QED
  BY <1>2

\* The end of a queue: one more element, which must not be there yet.
LEMMA InjectiveAppend ==
  ASSUME NEW S, NEW q \in Seq(S), NEW x \in S
  PROVE  /\ Append(q, x) \in Seq(S)
         /\ Range(Append(q, x)) = Range(q) \cup {x}
         /\ IsInjective(q) /\ x \notin Range(q) => IsInjective(Append(q, x))
<1>1. Append(q, x) \in Seq(S) /\ Len(Append(q, x)) = Len(q) + 1
  BY AppendProperties
<1>2. /\ \A i \in 1 .. Len(q) : Append(q, x)[i] = q[i]
      /\ Append(q, x)[Len(q) + 1] = x
  BY AppendProperties
<1>3. Len(q) \in Nat
  OBVIOUS
<1>4. ASSUME NEW y
      PROVE  y \in Range(Append(q, x)) <=> y \in Range(q) \cup {x}
  <2>1. y \in Range(Append(q, x))
          <=> \E i \in 1 .. Len(q) + 1 : Append(q, x)[i] = y
    BY <1>1, InRange
  <2>2. y \in Range(q) <=> \E i \in 1 .. Len(q) : q[i] = y
    BY InRange
  <2> QED
    BY <1>2, <1>3, <2>1, <2>2
<1>5. ASSUME IsInjective(q), x \notin Range(q)
      PROVE  IsInjective(Append(q, x))
  <2>1. \A i \in 1 .. Len(q) : q[i] # x
    BY <1>5, InRange
  <2>2. \A i, j \in 1 .. Len(q) : q[i] = q[j] => i = j
    BY <1>5 DEF IsInjective
  <2>3. DOMAIN Append(q, x) = 1 .. Len(q) + 1
    BY <1>1
  <2> QED
    BY <1>2, <1>3, <2>1, <2>2, <2>3 DEF IsInjective
<1> QED
  BY <1>1, <1>4, <1>5

\* Two queues end to end.
LEMMA InjectiveConcat ==
  ASSUME NEW S, NEW p \in Seq(S), NEW q \in Seq(S),
         IsInjective(p), IsInjective(q), Range(p) \cap Range(q) = {}
  PROVE  IsInjective(p \o q)
<1>1. /\ Len(p \o q) = Len(p) + Len(q)
      /\ p \o q \in Seq(S)
      /\ \A i \in 1 .. Len(p) + Len(q) :
           (p \o q)[i] = IF i <= Len(p) THEN p[i] ELSE q[i - Len(p)]
  BY ConcatProperties
<1>2. Len(p) \in Nat /\ Len(q) \in Nat
  OBVIOUS
<1>3. \A i \in 1 .. Len(p), j \in 1 .. Len(q) : p[i] # q[j]
  BY InRange
<1>4. /\ \A i, j \in 1 .. Len(p) : p[i] = p[j] => i = j
      /\ \A i, j \in 1 .. Len(q) : q[i] = q[j] => i = j
  BY DEF IsInjective
<1>5. SUFFICES ASSUME NEW i \in 1 .. Len(p) + Len(q),
                      NEW j \in 1 .. Len(p) + Len(q),
                      (p \o q)[i] = (p \o q)[j]
               PROVE  i = j
  BY <1>1 DEF IsInjective
<1>6. CASE i <= Len(p) /\ j <= Len(p)
  BY <1>1, <1>2, <1>4, <1>5, <1>6
<1>7. CASE i <= Len(p) /\ j > Len(p)
  <2>1. j - Len(p) \in 1 .. Len(q) /\ p[i] = q[j - Len(p)] /\ i \in 1 .. Len(p)
    BY <1>1, <1>2, <1>5, <1>7
  <2> QED
    BY <1>3, <2>1
<1>8. CASE i > Len(p) /\ j <= Len(p)
  <2>1. i - Len(p) \in 1 .. Len(q) /\ p[j] = q[i - Len(p)] /\ j \in 1 .. Len(p)
    BY <1>1, <1>2, <1>5, <1>8
  <2> QED
    BY <1>3, <2>1
<1>9. CASE i > Len(p) /\ j > Len(p)
  <2>1. /\ i - Len(p) \in 1 .. Len(q)
        /\ j - Len(p) \in 1 .. Len(q)
        /\ q[i - Len(p)] = q[j - Len(p)]
    BY <1>1, <1>2, <1>5, <1>9
  <2>2. i - Len(p) = j - Len(p)
    BY <1>4, <2>1
  <2> QED
    BY <1>2, <2>2
<1> QED
  BY <1>2, <1>6, <1>7, <1>8, <1>9

\* A queue that loses the element at one position loses just that element.
LEMMA RemoveAtPosition ==
  ASSUME NEW S, NEW q \in Seq(S), NEW k \in 1 .. Len(q)
  PROVE  /\ RemoveAt(q, k) \in Seq(S)
         /\ Len(RemoveAt(q, k)) = Len(q) - 1
         /\ \A i \in 1 .. Len(q) - 1 :
              RemoveAt(q, k)[i] = IF i < k THEN q[i] ELSE q[i + 1]
<1> DEFINE a == SubSeq(q, 1, k - 1)
           b == SubSeq(q, k + 1, Len(q))
<1>1. Len(q) \in Nat /\ k \in Int /\ 1 <= k /\ k <= Len(q)
  OBVIOUS
<1>2. /\ a \in Seq(S) /\ Len(a) = k - 1
      /\ \A i \in 1 .. k - 1 : a[i] = q[i]
  <2>1. \A i \in 1 .. k - 1 : q[i] \in S
    BY <1>1, ElementOfSeq
  <2>2. /\ SubSeq(q, 1, k - 1) \in Seq(S)
        /\ Len(SubSeq(q, 1, k - 1)) = IF 1 <= k - 1 THEN k - 1 - 1 + 1 ELSE 0
        /\ \A i \in 1 .. k - 1 - 1 + 1 :
             SubSeq(q, 1, k - 1)[i] = q[1 + i - 1]
    BY <1>1, <2>1, SubSeqProperties, k - 1 \in Int
  <2> QED
    BY <1>1, <2>2
<1>3. /\ b \in Seq(S) /\ Len(b) = Len(q) - k
      /\ \A i \in 1 .. Len(q) - k : b[i] = q[k + i]
  <2>1. \A i \in k + 1 .. Len(q) : q[i] \in S
    BY <1>1, ElementOfSeq
  <2>2. /\ SubSeq(q, k + 1, Len(q)) \in Seq(S)
        /\ Len(SubSeq(q, k + 1, Len(q))) =
             IF k + 1 <= Len(q) THEN Len(q) - (k + 1) + 1 ELSE 0
        /\ \A i \in 1 .. Len(q) - (k + 1) + 1 :
             SubSeq(q, k + 1, Len(q))[i] = q[k + 1 + i - 1]
    BY <1>1, <2>1, SubSeqProperties, k + 1 \in Int, Len(q) \in Int
  <2> QED
    BY <1>1, <2>2
<1>4. /\ a \o b \in Seq(S)
      /\ Len(a \o b) = Len(a) + Len(b)
      /\ \A i \in 1 .. Len(a) + Len(b) :
           (a \o b)[i] = IF i <= Len(a) THEN a[i] ELSE b[i - Len(a)]
  BY <1>2, <1>3, ConcatProperties
<1>5. RemoveAt(q, k) = a \o b
  BY DEF RemoveAt
<1> HIDE DEF a, b
<1>6. ASSUME NEW i \in 1 .. Len(q) - 1
      PROVE  (a \o b)[i] = IF i < k THEN q[i] ELSE q[i + 1]
  <2>1. CASE i < k
    BY <1>1, <1>2, <1>3, <1>4, <2>1
  <2>2. CASE ~(i < k)
    <3>1. i - (k - 1) \in 1 .. Len(q) - k /\ k + (i - (k - 1)) = i + 1
      BY <1>1, <2>2
    <3>2. i \in 1 .. Len(a) + Len(b) /\ ~(i <= Len(a))
      BY <1>1, <1>2, <1>3, <2>2
    <3>3. (a \o b)[i] = b[i - (k - 1)]
      BY <1>2, <1>4, <3>2
    <3>4. b[i - (k - 1)] = q[k + (i - (k - 1))]
      BY <1>3, <3>1
    <3> QED
      BY <2>2, <3>1, <3>3, <3>4
  <2> QED
    BY <2>1, <2>2
<1> QED
  BY <1>1, <1>2, <1>3, <1>4, <1>5, <1>6

LEMMA InjectiveRemoveAt ==
  ASSUME NEW S, NEW q \in Seq(S), NEW k \in 1 .. Len(q), IsInjective(q)
  PROVE  /\ RemoveAt(q, k) \in Seq(S)
         /\ IsInjective(RemoveAt(q, k))
         /\ Range(RemoveAt(q, k)) = Range(q) \ {q[k]}
<1> DEFINE r == RemoveAt(q, k)
<1>1. /\ r \in Seq(S) /\ Len(r) = Len(q) - 1
      /\ \A i \in 1 .. Len(q) - 1 : r[i] = IF i < k THEN q[i] ELSE q[i + 1]
  BY RemoveAtPosition
<1>2. Len(q) \in Nat /\ k \in Int /\ 1 <= k /\ k <= Len(q)
  OBVIOUS
<1>3. \A i, j \in 1 .. Len(q) : q[i] = q[j] => i = j
  BY DEF IsInjective
<1> HIDE DEF r
<1>4. IsInjective(r)
  <2>1. DOMAIN r = 1 .. Len(q) - 1
    BY <1>1
  <2> QED
    BY <1>1, <1>2, <1>3, <2>1 DEF IsInjective
<1>5. ASSUME NEW x
      PROVE  x \in Range(r) <=> x \in Range(q) \ {q[k]}
  <2>1. x \in Range(r) <=> \E i \in 1 .. Len(q) - 1 : r[i] = x
    BY <1>1, InRange
  <2>2. x \in Range(q) <=> \E i \in 1 .. Len(q) : q[i] = x
    BY InRange
  <2>3. ASSUME x \in Range(r)  PROVE  x \in Range(q) \ {q[k]}
    <3>1. PICK i \in 1 .. Len(q) - 1 : r[i] = x
      BY <2>1, <2>3
    <3>2. CASE i < k
      BY <1>1, <1>2, <1>3, <2>2, <3>1, <3>2
    <3>3. CASE ~(i < k)
      BY <1>1, <1>2, <1>3, <2>2, <3>1, <3>3
    <3> QED
      BY <3>2, <3>3
  <2>4. ASSUME x \in Range(q), x # q[k]  PROVE  x \in Range(r)
    <3>1. PICK i \in 1 .. Len(q) : q[i] = x
      BY <2>2, <2>4
    <3>2. CASE i < k
      BY <1>1, <1>2, <2>1, <3>1, <3>2
    <3>3. CASE i > k
      <4>1. i - 1 \in 1 .. Len(q) - 1 /\ ~(i - 1 < k) /\ (i - 1) + 1 = i
        BY <1>2, <3>3
      <4> QED
        BY <1>1, <2>1, <3>1, <4>1
    <3> QED
      BY <1>2, <2>4, <3>1, <3>2, <3>3
  <2> QED
    BY <2>3, <2>4
<1> QED
  BY <1>1, <1>4, <1>5 DEF r

\* The first element leaves.
LEMMA InjectiveTail ==
  ASSUME NEW S, NEW q \in Seq(S), q # <<>>
  PROVE  /\ Head(q) \in S /\ Head(q) \in Range(q)
         /\ Tail(q) \in Seq(S)
         /\ Len(Tail(q)) = Len(q) - 1
         /\ IsInjective(q) => /\ IsInjective(Tail(q))
                              /\ Range(Tail(q)) = Range(q) \ {Head(q)}
<1>1. /\ Head(q) \in S /\ Tail(q) \in Seq(S)
      /\ Len(Tail(q)) = Len(q) - 1
      /\ \A i \in 1 .. Len(Tail(q)) : Tail(q)[i] = q[i + 1]
  BY HeadTailProperties
<1>2. Len(q) \in Nat \ {0} /\ Head(q) = q[1]
  BY EmptySeq
<1>3. Head(q) \in Range(q)
  BY <1>2, InRange
<1>4. ASSUME IsInjective(q)
      PROVE  /\ IsInjective(Tail(q))
             /\ Range(Tail(q)) = Range(q) \ {Head(q)}
  <2>1. \A i, j \in 1 .. Len(q) : q[i] = q[j] => i = j
    BY <1>4 DEF IsInjective
  <2>2. IsInjective(Tail(q))
    <3>1. DOMAIN Tail(q) = 1 .. Len(q) - 1
      BY <1>1
    <3> QED
      BY <1>1, <1>2, <2>1, <3>1 DEF IsInjective
  <2>3. ASSUME NEW x
        PROVE  x \in Range(Tail(q)) <=> x \in Range(q) \ {Head(q)}
    <3>1. x \in Range(Tail(q)) <=> \E i \in 1 .. Len(q) - 1 : q[i + 1] = x
      <4>1. x \in Range(Tail(q))
              <=> \E i \in 1 .. Len(Tail(q)) : Tail(q)[i] = x
        BY <1>1, InRange
      <4> QED
        BY <1>1, <4>1
    <3>2. x \in Range(q) <=> \E i \in 1 .. Len(q) : q[i] = x
      BY InRange
    <3>3. ASSUME NEW i \in 1 .. Len(q), i # 1
          PROVE  i - 1 \in 1 .. Len(q) - 1 /\ (i - 1) + 1 = i
      BY <1>2, <3>3
    <3> QED
      BY <1>2, <2>1, <3>1, <3>2, <3>3
  <2> QED
    BY <2>2, <2>3
<1> QED
  BY <1>1, <1>3, <1>4

\* SetToSeqs enumerates a finite set without repetition and completely.
LEMMA SetToSeqsListing ==
  ASSUME NEW S, IsFiniteSet(S), NEW q \in SetToSeqs(S)
  PROVE  q \in Seq(S) /\ IsInjective(q) /\ Range(q) = S
<1> DEFINE n == Cardinality(S)
<1>1. n \in Nat
  BY FS_CardinalityType
<1>2. q \in [1 .. n -> S] /\ \A i, j \in 1 .. n : i # j => q[i] # q[j]
  BY DEF SetToSeqs
<1>3. q \in Seq(S)
  BY <1>1, <1>2, IsASeq
<1>4. IsInjective(q)
  BY <1>2 DEF IsInjective
<1>5. Range(q) = S
  <2>1. q \in Injection(1 .. n, S)
    BY <1>2, <1>4 DEF Injection
  <2>2. Cardinality(1 .. n) = n
    BY <1>1, FS_Interval
  <2>3. q \in Surjection(1 .. n, S)
    BY <2>1, <2>2, FS_Injection
  <2> QED
    BY <1>2, <2>3 DEF Surjection, Range
<1> QED
  BY <1>3, <1>4, <1>5
=============================================================================
