------------------------ MODULE IntrusiveListProofs -------------------------
(***************************************************************************)
(* The linked lists of src/uthread.c are the queues they are meant to be,  *)
(* for any number of TCBs.  A sequence stands for a list when following    *)
(* the links from the head visits its elements in order; what an operation *)
(* does to the pointers is then what it should do to that sequence.        *)
(***************************************************************************)
EXTENDS IntrusiveList, QueueLemmas

-----------------------------------------------------------------------------
(* Lists and the sequences they stand for. *)

\* The element at a position, and NULL beyond the end.
Nth(q, i) == IF i <= Len(q) THEN q[i] ELSE Null

\* The element before a position, and NULL before the first.
Prior(q, i) == IF i > 1 THEN q[i - 1] ELSE Null

Final(q) == IF q = <<>> THEN Null ELSE q[Len(q)]

\* The links from head spell out q.
Lists(q, head, link) ==
  /\ q \in Seq(Thread) /\ IsInjective(q)
  /\ head = Nth(q, 1)
  /\ \A i \in 1 .. Len(q) : link[q[i]] = Nth(q, i + 1)

\* Induction over the positions of a list, as a statement about sets: a set
\* that holds 1 and with every position the next one holds them all.
LEMMA PositionInduction ==
  ASSUME NEW n \in Nat, NEW A, A \subseteq 1 .. n,
         1 \in A, \A i \in A : i < n => i + 1 \in A
  PROVE  A = 1 .. n
<1> SUFFICES ASSUME NEW m \in 1 .. n, m \notin A  PROVE  FALSE
  OBVIOUS
<1> DEFINE B == {i \in A : i < m}
           f == [i \in B |-> i + 1]
<1>1. IsFiniteSet(B)
  <2>1. IsFiniteSet(1 .. n)
    BY FS_Interval
  <2> QED
    BY <2>1, FS_Subset
<1>2. 1 \in B
  OBVIOUS
<1>3. IsFiniteSet(B \ {1}) /\ Cardinality(B \ {1}) = Cardinality(B) - 1
  BY <1>1, <1>2, FS_RemoveElement
<1>4. Cardinality(B) \in Nat
  BY <1>1, FS_CardinalityType
<1>5. f \in [B -> B \ {1}]
  <2>1. ASSUME NEW i \in B  PROVE  i + 1 \in B \ {1}
    <3>1. i \in 1 .. n /\ i < m
      OBVIOUS
    <3>2. i + 1 \in A
      BY <3>1
    <3>3. i + 1 # m
      BY <3>2
    <3> QED
      BY <3>1, <3>2, <3>3
  <2> QED
    BY <2>1
<1>6. PICK x, y \in B : x # y /\ f[x] = f[y]
  <2>1. Cardinality(B \ {1}) < Cardinality(B)
    BY <1>3, <1>4
  <2> HIDE DEF f, B
  <2> QED
    BY <1>1, <1>3, <1>5, <2>1, FS_PigeonHole
<1> QED
  BY <1>6

LEMMA CountTo == ASSUME NEW n \in Nat PROVE Cardinality(1 .. n) = n
<1>1. 1 \in Int /\ n \in Int
  OBVIOUS
<1>2. Cardinality(1 .. n) = IF 1 > n THEN 0 ELSE n - 1 + 1
  BY <1>1, FS_Interval
<1> QED
  BY <1>2

\* A list is no longer than there are TCBs.
LEMMA ListIsShort ==
  ASSUME NEW q \in Seq(Thread), IsInjective(q)
  PROVE  Len(q) <= Cardinality(Thread) /\ Cardinality(Thread) \in Nat \ {0}
<1>1. IsFiniteSet(Thread) /\ First \in Thread
  BY ListAssumption
<1>2. Cardinality(Thread) \in Nat \ {0}
  BY <1>1, FS_CardinalityType, FS_EmptySet
<1>3. q \in Injection(1 .. Len(q), Thread)
  BY DEF Injection
<1>4. Cardinality(1 .. Len(q)) = Len(q)
  BY CountTo
<1>5. Cardinality(1 .. Len(q)) <= Cardinality(Thread)
  BY <1>1, <1>3, FS_Injection
<1> QED
  BY <1>2, <1>4, <1>5

\* Follow reads off the sequence that the links spell out.
LEMMA FollowLists ==
  ASSUME NEW q, NEW head, NEW link, Lists(q, head, link)
  PROVE  Follow(head, link) = q
<1> DEFINE N == Cardinality(Thread)
           Step(a) == [i \in 1 .. N |->
                         IF i = 1 THEN head
                         ELSE IF a[i - 1] = Null THEN Null ELSE link[a[i - 1]]]
           at == CHOOSE a : a = Step(a)
           f == [i \in 1 .. N |-> Nth(q, i)]
<1>1. /\ q \in Seq(Thread) /\ IsInjective(q) /\ head = Nth(q, 1)
      /\ \A i \in 1 .. Len(q) : link[q[i]] = Nth(q, i + 1)
      /\ \A i \in 1 .. Len(q) : q[i] \in Thread /\ q[i] # Null
  BY ElementOfSeq, ListAssumption DEF Lists
<1>2. Len(q) \in Nat /\ N \in Nat \ {0} /\ Len(q) <= N
  BY <1>1, ListIsShort
<1> HIDE DEF N
<1>3. f = Step(f)
  <2>1. ASSUME NEW i \in 1 .. N
        PROVE  Nth(q, i) = IF i = 1 THEN head
                           ELSE IF f[i - 1] = Null THEN Null ELSE link[f[i - 1]]
    <3>1. CASE i = 1
      BY <1>1, <3>1
    <3>2. CASE i # 1
      <4>1. i - 1 \in 1 .. N /\ f[i - 1] = Nth(q, i - 1)
        BY <1>2, <3>2
      <4>2. CASE i - 1 <= Len(q)
        <5>1. i - 1 \in 1 .. Len(q) /\ (i - 1) + 1 = i
          BY <1>2, <3>2, <4>2
        <5>2. f[i - 1] = q[i - 1] /\ f[i - 1] # Null
          BY <1>1, <4>1, <5>1 DEF Nth
        <5> QED
          BY <1>1, <3>2, <5>1, <5>2
      <4>3. CASE ~(i - 1 <= Len(q))
        BY <1>2, <3>2, <4>1, <4>3 DEF Nth
      <4> QED
        BY <4>2, <4>3
    <3> QED
      BY <3>1, <3>2
  <2> QED
    BY <2>1
<1>4. at = Step(at)
  BY <1>3
<1> HIDE DEF at
<1>5. \A i \in 1 .. N : at[i] = Nth(q, i)
  <2> DEFINE A == {i \in 1 .. N : at[i] = Nth(q, i)}
  <2>1. 1 \in A
    BY <1>1, <1>2, <1>4
  <2>2. ASSUME NEW i \in A, i < N  PROVE  i + 1 \in A
    <3>1. /\ i \in 1 .. N /\ i + 1 \in 1 .. N /\ i + 1 # 1 /\ (i + 1) - 1 = i
          /\ at[i] = Nth(q, i)
      BY <1>2, <2>2
    <3>2. at[i + 1] = IF at[i] = Null THEN Null ELSE link[at[i]]
      BY <1>4, <3>1
    <3>3. CASE i <= Len(q)
      BY <1>1, <3>1, <3>2, <3>3 DEF Nth
    <3>4. CASE ~(i <= Len(q))
      BY <1>2, <3>1, <3>2, <3>4 DEF Nth
    <3> QED
      BY <3>3, <3>4
  <2>3. A = 1 .. N
    <3> HIDE DEF A
    <3>1. A \subseteq 1 .. N
      BY DEF A
    <3> QED
      BY <1>2, <2>1, <2>2, <3>1, PositionInduction
  <2> QED
    BY <2>3
<1>6. {j \in DOMAIN at : at[j] # Null} = 1 .. Len(q)
  <2>1. DOMAIN at = 1 .. N
    BY <1>4
  <2> QED
    BY <1>1, <1>2, <1>5, <2>1 DEF Nth
<1>7. Cardinality(1 .. Len(q)) = Len(q)
  BY <1>2, CountTo
<1>8. Follow(head, link) = [i \in 1 .. Cardinality({j \in DOMAIN at : at[j] # Null}) |-> at[i]]
  BY DEF Follow, at, N
<1>9. [i \in 1 .. Len(q) |-> at[i]] = q
  BY <1>1, <1>2, <1>5 DEF Nth
<1> QED
  BY <1>6, <1>7, <1>8, <1>9

-----------------------------------------------------------------------------
(* What linking and unlinking do to the sequence. *)

\* The links of others may change.
LEMMA ListKept ==
  ASSUME NEW q, NEW head, NEW link, Lists(q, head, link),
         NEW new, \A u \in Range(q) : new[u] = link[u]
  PROVE  Lists(q, head, new)
<1>1. q \in Seq(Thread)
  BY DEF Lists
<1>2. \A i \in 1 .. Len(q) : q[i] \in Range(q)
  BY <1>1, InRange
<1> QED
  BY <1>2 DEF Lists

LEMMA ListFacts ==
  ASSUME NEW q, NEW head, NEW link, Lists(q, head, link)
  PROVE  /\ q \in Seq(Thread) /\ IsInjective(q) /\ Len(q) \in Nat
         /\ \A i \in 1 .. Len(q) : q[i] \in Thread /\ q[i] # Null /\ q[i] \in Range(q)
         /\ \A u \in Range(q) : u \in Thread /\ \E i \in 1 .. Len(q) : q[i] = u
         /\ \A i, j \in 1 .. Len(q) : q[i] = q[j] => i = j
         /\ q # <<>> <=> Len(q) > 0
         /\ head = Null <=> q = <<>>
         /\ head # Null => head = q[1] /\ head \in Range(q)
<1>1. q \in Seq(Thread) /\ IsInjective(q) /\ Len(q) \in Nat
  BY DEF Lists
<1>2. \A i \in 1 .. Len(q) : q[i] \in Thread /\ q[i] # Null /\ q[i] \in Range(q)
  BY <1>1, ElementOfSeq, InRange, ListAssumption
<1>3. \A u \in Range(q) : u \in Thread /\ \E i \in 1 .. Len(q) : q[i] = u
  BY <1>1, <1>2, InRange
<1>4. \A i, j \in 1 .. Len(q) : q[i] = q[j] => i = j
  BY <1>1 DEF IsInjective
<1>5. q # <<>> <=> Len(q) > 0
  BY <1>1, EmptySeq
<1>6. head = IF 1 <= Len(q) THEN q[1] ELSE Null
  BY DEF Lists, Nth
<1> QED
  BY <1>1, <1>2, <1>3, <1>4, <1>5, <1>6

LEMMA FinalOnList ==
  ASSUME NEW q, NEW head, NEW link, Lists(q, head, link)
  PROVE  Final(q) = Null \/ Final(q) \in Range(q)
<1>1. /\ q # <<>> <=> Len(q) > 0
      /\ \A i \in 1 .. Len(q) : q[i] \in Range(q)
      /\ Len(q) \in Nat
  BY ListFacts
<1>2. Len(q) > 0 => Len(q) \in 1 .. Len(q)
  BY <1>1
<1> QED
  BY <1>1, <1>2 DEF Final

LEMMA PriorOnList ==
  ASSUME NEW q, NEW head, NEW link, Lists(q, head, link), NEW i \in 1 .. Len(q)
  PROVE  Prior(q, i) = Null \/ Prior(q, i) \in Range(q)
<1>1. /\ Len(q) \in Nat
      /\ \A k \in 1 .. Len(q) : q[k] \in Range(q)
  BY ListFacts
<1>2. i > 1 => i - 1 \in 1 .. Len(q)
  BY <1>1
<1> QED
  BY <1>1, <1>2 DEF Prior

\* A TCB becomes the last one: enqueue, and the ends of lock and sem_wait.
LEMMA AppendToList ==
  ASSUME NEW q, NEW head, NEW link, Lists(q, head, link),
         NEW t \in Thread, t \notin Range(q)
  PROVE  /\ Lists(Append(q, t), IF Final(q) = Null THEN t ELSE head,
                  Linked(link, Final(q), t))
         /\ Final(Append(q, t)) = t
         /\ Range(Append(q, t)) = Range(q) \cup {t}
         /\ Len(Append(q, t)) = Len(q) + 1
<1> DEFINE p == Append(q, t)
           n == Len(q)
           new == Linked(link, Final(q), t)
<1>1. /\ q \in Seq(Thread) /\ IsInjective(q) /\ n \in Nat
      /\ \A i \in 1 .. n : q[i] \in Thread /\ q[i] # Null /\ q[i] \in Range(q)
      /\ \A i, j \in 1 .. n : q[i] = q[j] => i = j
      /\ q # <<>> <=> n > 0
  BY ListFacts
<1>2. /\ p \in Seq(Thread) /\ IsInjective(p) /\ Range(p) = Range(q) \cup {t}
  BY <1>1, InjectiveAppend
<1>3. /\ Len(p) = n + 1 /\ p[n + 1] = t
      /\ \A i \in 1 .. n : p[i] = q[i]
  BY <1>1, AppendProperties
<1>4. /\ head = Nth(q, 1)
      /\ \A i \in 1 .. n : link[q[i]] = Nth(q, i + 1)
  BY DEF Lists
<1>5. Final(q) = IF n = 0 THEN Null ELSE q[n]
  BY <1>1 DEF Final
<1> HIDE DEF p
<1>6. Final(p) = t
  <2>1. p # <<>>
    BY <1>1, <1>2, <1>3, EmptySeq
  <2> QED
    BY <1>3, <2>1 DEF Final
<1>7. (IF Final(q) = Null THEN t ELSE head) = Nth(p, 1)
  BY <1>1, <1>3, <1>4, <1>5 DEF Nth
<1>8. ASSUME NEW i \in 1 .. Len(p)  PROVE  new[p[i]] = Nth(p, i + 1)
  <2>1. \A u \in Thread : new[u] = IF u = Final(q) THEN t ELSE IF u = t THEN Null ELSE link[u]
    BY DEF Linked
  <2> HIDE DEF new
  <2>2. CASE i = n + 1
    <3>1. p[i] = t /\ Final(q) # t
      BY <1>1, <1>3, <1>5, <2>2, ListAssumption
    <3> QED
      BY <1>1, <1>3, <2>1, <2>2, <3>1 DEF Nth
  <2>3. CASE i = n
    BY <1>1, <1>3, <1>5, <2>1, <2>3 DEF Nth
  <2>4. CASE i < n
    <3>1. i \in 1 .. n /\ i + 1 \in 1 .. n /\ n \in 1 .. n /\ i # n
      BY <1>1, <1>3, <2>4
    <3>2. p[i] = q[i] /\ q[i] # q[n] /\ q[i] # t /\ q[i] \in Thread
      BY <1>1, <1>3, <3>1
    <3>3. new[p[i]] = link[q[i]]
      BY <1>1, <1>5, <2>1, <3>1, <3>2
    <3> QED
      BY <1>1, <1>3, <1>4, <3>1, <3>3 DEF Nth
  <2> QED
    BY <1>1, <1>3, <2>2, <2>3, <2>4
<1>9. Lists(p, IF Final(q) = Null THEN t ELSE head, new)
  BY <1>2, <1>7, <1>8 DEF Lists
<1> QED
  BY <1>2, <1>3, <1>6, <1>9 DEF p

LEMMA ConsRange ==
  ASSUME NEW q, NEW head, NEW link, Lists(q, head, link),
         NEW t \in Thread, t \notin Range(q)
  PROVE  Range(<<t>> \o q) = Range(q) \cup {t}
<1>1. q \in Seq(Thread)
  BY ListFacts
<1>2. <<t>> \in Seq(Thread) /\ Len(<<t>>) = 1 /\ <<t>>[1] = t
  OBVIOUS
<1>3. Range(<<t>>) = {t}
  <2>1. \A x : x \in Range(<<t>>) <=> \E i \in 1 .. Len(<<t>>) : <<t>>[i] = x
    BY <1>2, InRange
  <2> QED
    BY <1>2, <2>1
<1>4. Range(<<t>> \o q) = Range(<<t>>) \cup Range(q)
  <2> DEFINE one == <<t>>
  <2>1. one \in Seq(Thread)
    BY <1>2
  <2> HIDE DEF one
  <2>2. Range(one \o q) = Range(one) \cup Range(q)
    BY <1>1, <2>1, RangeConcatenation
  <2> QED
    BY <2>2 DEF one
<1> QED
  BY <1>3, <1>4

\* What the new links of a list owe to the old ones, with t in front.
LEMMA PushOnList ==
  ASSUME NEW q, NEW head, NEW link, Lists(q, head, link),
         NEW t \in Thread, t \notin Range(q),
         NEW new, new[t] = head, \A u \in Range(q) : new[u] = link[u]
  PROVE  /\ Lists(<<t>> \o q, t, new)
         /\ Range(<<t>> \o q) = Range(q) \cup {t}
         /\ Len(<<t>> \o q) = Len(q) + 1
         /\ (<<t>> \o q)[1] = t
         /\ \A i \in 1 .. Len(q) : (<<t>> \o q)[i + 1] = q[i]
<1> DEFINE p == <<t>> \o q
           n == Len(q)
<1>1. /\ q \in Seq(Thread) /\ IsInjective(q) /\ n \in Nat
      /\ \A i \in 1 .. n : q[i] \in Range(q)
  BY ListFacts
<1>2. /\ <<t>> \in Seq(Thread) /\ Len(<<t>>) = 1 /\ <<t>>[1] = t
      /\ IsInjective(<<t>>)
  BY DEF IsInjective
<1>3. Range(<<t>>) = {t}
  <2>1. \A x : x \in Range(<<t>>) <=> \E i \in 1 .. Len(<<t>>) : <<t>>[i] = x
    BY <1>2, InRange
  <2> QED
    BY <1>2, <2>1
<1>4. /\ p \in Seq(Thread) /\ IsInjective(p)
      /\ Range(p) = Range(q) \cup {t}
  <2>1. Range(<<t>>) \cap Range(q) = {}
    BY <1>3
  <2>2. p \in Seq(Thread)
    BY <1>1, <1>2, ConcatProperties
  <2>3. IsInjective(p)
    BY <1>1, <1>2, <2>1, InjectiveConcat
  <2> QED
    BY <2>2, <2>3, ConsRange
<1>5. /\ Len(p) = n + 1
      /\ \A i \in 1 .. n + 1 : p[i] = IF i <= 1 THEN <<t>>[i] ELSE q[i - 1]
  BY <1>1, <1>2, ConcatProperties
<1>6. p[1] = t /\ \A i \in 1 .. n : p[i + 1] = q[i]
  <2>1. 1 \in 1 .. n + 1
    BY <1>1
  <2>2. \A i \in 1 .. n : i + 1 \in 1 .. n + 1 /\ ~(i + 1 <= 1) /\ (i + 1) - 1 = i
    BY <1>1
  <2> QED
    BY <1>2, <1>5, <2>1, <2>2
<1>7. /\ head = Nth(q, 1)
      /\ \A i \in 1 .. n : link[q[i]] = Nth(q, i + 1)
  BY DEF Lists
<1> HIDE DEF p
<1>8. ASSUME NEW i \in 1 .. Len(p)  PROVE  new[p[i]] = Nth(p, i + 1)
  <2>1. CASE i = 1
    <3>1. Nth(p, 2) = Nth(q, 1)
      <4>1. 1 <= n => 1 \in 1 .. n
        BY <1>1
      <4> QED
        BY <1>1, <1>5, <1>6, <4>1, 1 + 1 = 2 DEF Nth
    <3> QED
      BY <1>6, <1>7, <2>1, <3>1
  <2>2. CASE i # 1
    <3>1. PICK j \in 1 .. n : i = j + 1
      <4>1. i - 1 \in 1 .. n /\ i = (i - 1) + 1
        BY <1>1, <1>5, <2>2
      <4> QED
        BY <4>1
    <3>2. new[p[i]] = Nth(q, j + 1)
      BY <1>1, <1>6, <1>7, <3>1
    <3>3. Nth(p, j + 2) = Nth(q, j + 1)
      <4>1. j + 1 <= n => j + 1 \in 1 .. n /\ (j + 1) + 1 = j + 2
        BY <1>1
      <4> QED
        BY <1>1, <1>5, <1>6, <4>1 DEF Nth
    <3> QED
      BY <1>1, <3>1, <3>2, <3>3
  <2> QED
    BY <2>1, <2>2
<1>9. t = Nth(p, 1)
  BY <1>1, <1>5, <1>6 DEF Nth
<1> QED
  BY <1>4, <1>5, <1>6, <1>8, <1>9 DEF p, Lists

\* An element leaves, wherever it stands: its predecessor takes over its link.
LEMMA UnlinkFromList ==
  ASSUME NEW q, NEW head, NEW link, Lists(q, head, link),
         NEW k \in 1 .. Len(q), NEW new,
         \A u \in Range(q) : u # q[k] =>
           new[u] = IF u = Prior(q, k) THEN link[q[k]] ELSE link[u]
  PROVE  /\ Lists(RemoveAt(q, k), IF Prior(q, k) = Null THEN link[q[k]] ELSE head, new)
         /\ Range(RemoveAt(q, k)) = Range(q) \ {q[k]}
         /\ Len(RemoveAt(q, k)) = Len(q) - 1
         /\ Final(RemoveAt(q, k)) = IF q[k] = Final(q) THEN Prior(q, k) ELSE Final(q)
         /\ Nth(RemoveAt(q, k), k) = link[q[k]]
         /\ Prior(RemoveAt(q, k), k) = Prior(q, k)
<1> DEFINE p == RemoveAt(q, k)
           n == Len(q)
<1>1. /\ q \in Seq(Thread) /\ IsInjective(q) /\ n \in Nat
      /\ \A i \in 1 .. n : q[i] \in Thread /\ q[i] # Null /\ q[i] \in Range(q)
      /\ \A i, j \in 1 .. n : q[i] = q[j] => i = j
      /\ q # <<>>
  BY ListFacts
<1>2. /\ head = Nth(q, 1)
      /\ \A i \in 1 .. n : link[q[i]] = Nth(q, i + 1)
  BY DEF Lists
<1>3. /\ p \in Seq(Thread) /\ IsInjective(p) /\ Range(p) = Range(q) \ {q[k]}
  BY <1>1, InjectiveRemoveAt
<1>4. /\ Len(p) = n - 1
      /\ \A i \in 1 .. n - 1 : p[i] = IF i < k THEN q[i] ELSE q[i + 1]
  BY <1>1, RemoveAtPosition
<1>5. k \in Nat /\ 1 <= k /\ k <= n
  BY <1>1
<1>6. p = <<>> <=> n = 1
  BY <1>1, <1>3, <1>4, EmptySeq
<1> HIDE DEF p
<1>7. Nth(p, k) = link[q[k]]
  <2>1. link[q[k]] = IF k + 1 <= n THEN q[k + 1] ELSE Null
    BY <1>2 DEF Nth
  <2>2. k <= n - 1 => k \in 1 .. n - 1 /\ p[k] = q[k + 1]
    BY <1>1, <1>4, <1>5
  <2> QED
    BY <1>1, <1>4, <1>5, <2>1, <2>2 DEF Nth
<1>8. Prior(p, k) = Prior(q, k)
  <2>1. k > 1 => k - 1 \in 1 .. n - 1 /\ k - 1 < k
    BY <1>1, <1>5
  <2> QED
    BY <1>4, <2>1 DEF Prior
<1>9. Prior(q, k) = Null <=> k = 1
  <2>1. k > 1 => k - 1 \in 1 .. n
    BY <1>1, <1>5
  <2> QED
    BY <1>1, <1>5, <2>1 DEF Prior
<1>10. (IF Prior(q, k) = Null THEN link[q[k]] ELSE head) = Nth(p, 1)
  <2>1. CASE k = 1
    BY <1>7, <1>9, <2>1
  <2>2. CASE k # 1
    <3>1. 1 \in 1 .. n - 1 /\ 1 < k /\ 1 <= n - 1 /\ 1 <= n
      BY <1>1, <1>5, <2>2
    <3>2. p[1] = q[1]
      BY <1>4, <3>1
    <3> QED
      BY <1>2, <1>4, <1>9, <2>2, <3>1, <3>2 DEF Nth
  <2> QED
    BY <2>1, <2>2
<1>11. q[k] = Final(q) <=> k = n
  <2>1. n \in 1 .. n
    BY <1>1, <1>5
  <2> QED
    BY <1>1, <2>1 DEF Final
<1>12. Final(p) = IF q[k] = Final(q) THEN Prior(q, k) ELSE Final(q)
  <2>1. CASE k = n /\ n = 1
    BY <1>6, <1>9, <1>11, <2>1 DEF Final
  <2>2. CASE k = n /\ n # 1
    <3>1. n - 1 \in 1 .. n - 1 /\ n - 1 < k
      BY <1>1, <1>5, <2>2
    <3>2. Final(p) = q[n - 1] /\ Prior(q, k) = q[n - 1]
      BY <1>4, <1>5, <1>6, <2>2, <3>1 DEF Final, Prior
    <3> QED
      BY <1>11, <2>2, <3>2
  <2>3. CASE k # n
    <3>1. n - 1 \in 1 .. n - 1 /\ ~(n - 1 < k) /\ (n - 1) + 1 = n /\ n # 1
      BY <1>1, <1>5, <2>3
    <3>2. Final(p) = q[n]
      BY <1>4, <1>6, <3>1 DEF Final
    <3> QED
      BY <1>1, <1>11, <2>3, <3>2 DEF Final
  <2> QED
    BY <2>1, <2>2, <2>3
<1>13. ASSUME NEW i \in 1 .. Len(p)  PROVE  new[p[i]] = Nth(p, i + 1)
  <2>1. i \in 1 .. n - 1 /\ i \in 1 .. n /\ i + 1 \in 1 .. n /\ i \in Nat
    BY <1>1, <1>4
  <2>2. CASE i + 1 < k
    <3>1. p[i] = q[i] /\ i + 1 \in 1 .. n - 1 /\ p[i + 1] = q[i + 1]
      BY <1>1, <1>4, <1>5, <2>1, <2>2
    <3>2. k > 1 /\ k - 1 \in 1 .. n /\ i # k - 1 /\ i # k
      BY <1>1, <1>5, <2>1, <2>2
    <3>3. q[i] # q[k - 1] /\ q[i] # q[k] /\ q[i] \in Range(q)
      BY <1>1, <2>1, <3>2
    <3>4. new[q[i]] = link[q[i]]
      BY <3>2, <3>3 DEF Prior
    <3> QED
      BY <1>2, <1>4, <2>1, <3>1, <3>4 DEF Nth
  <2>3. CASE i + 1 = k
    <3>1. p[i] = q[i] /\ k > 1 /\ i = k - 1 /\ i # k
      BY <1>4, <1>5, <2>1, <2>3
    <3>2. q[i] = Prior(q, k) /\ q[i] # q[k] /\ q[i] \in Range(q)
      BY <1>1, <2>1, <3>1 DEF Prior
    <3> QED
      BY <1>7, <2>3, <3>1, <3>2
  <2>4. CASE i + 1 > k
    <3>1. p[i] = q[i + 1] /\ i + 1 # k /\ i + 1 # k - 1
      BY <1>4, <1>5, <2>1, <2>4
    <3>2. q[i + 1] # q[k] /\ q[i + 1] \in Range(q)
      BY <1>1, <2>1, <3>1
    <3>3. q[i + 1] # Prior(q, k)
      <4>1. k > 1 => k - 1 \in 1 .. n /\ Prior(q, k) = q[k - 1]
        BY <1>1, <1>5 DEF Prior
      <4>2. k = 1 => Prior(q, k) = Null
        BY <1>9
      <4> QED
        BY <1>1, <1>5, <2>1, <3>1, <4>1, <4>2
    <3>4. new[p[i]] = Nth(q, (i + 1) + 1)
      BY <1>2, <2>1, <3>1, <3>2, <3>3
    <3>5. i + 1 <= n - 1 => i + 1 \in 1 .. n - 1 /\ p[i + 1] = q[(i + 1) + 1]
      BY <1>1, <1>4, <1>5, <2>1, <2>4
    <3> QED
      BY <1>1, <1>4, <2>1, <3>4, <3>5 DEF Nth
  <2> QED
    BY <1>5, <2>1, <2>2, <2>3, <2>4
<1> QED
  BY <1>3, <1>4, <1>7, <1>8, <1>10, <1>12, <1>13 DEF p, Lists

\* The first element has no predecessor, and what is left is the tail.
LEMMA FirstOfList ==
  ASSUME NEW q, NEW head, NEW link, Lists(q, head, link), head # Null
  PROVE  /\ 1 \in 1 .. Len(q) /\ q # <<>> /\ q[1] = head /\ Head(q) = head
         /\ Prior(q, 1) = Null
         /\ RemoveAt(q, 1) = Tail(q)
         /\ link[head] = Null <=> head = Final(q)
<1>1. /\ q \in Seq(Thread) /\ q # <<>> /\ head = q[1]
      /\ \A i, j \in 1 .. Len(q) : q[i] = q[j] => i = j
  BY ListFacts
<1>2. /\ Len(q) \in Nat /\ Len(q) > 0
      /\ 1 \in 1 .. Len(q) /\ Len(q) \in 1 .. Len(q)
  BY <1>1, ListFacts
<1>3. RemoveAt(q, 1) = Tail(q)
  <2> DEFINE a == RemoveAt(q, 1)
             b == Tail(q)
  <2>1. /\ a \in Seq(Thread) /\ Len(a) = Len(q) - 1
        /\ \A i \in 1 .. Len(q) - 1 : a[i] = q[i + 1]
    BY <1>1, <1>2, RemoveAtPosition
  <2>2. /\ b \in Seq(Thread) /\ Len(b) = Len(q) - 1
        /\ \A i \in 1 .. Len(q) - 1 : b[i] = q[i + 1]
    BY <1>1, HeadTailProperties
  <2> HIDE DEF a, b
  <2>3. Len(a) = Len(b) /\ \A i \in 1 .. Len(a) : a[i] = b[i]
    BY <2>1, <2>2
  <2>4. a = b
    BY <2>1, <2>2, <2>3, SeqEqual
  <2> QED
    BY <2>4 DEF a, b
<1>4. link[head] = IF 2 <= Len(q) THEN q[2] ELSE Null
  <2>1. \A i \in 1 .. Len(q) : link[q[i]] = IF i + 1 <= Len(q) THEN q[i + 1] ELSE Null
    BY DEF Lists, Nth
  <2>2. link[q[1]] = IF 1 + 1 <= Len(q) THEN q[1 + 1] ELSE Null
    BY <1>2, <2>1
  <2> QED
    BY <1>1, <2>2
<1>5. link[head] = Null <=> Len(q) = 1
  <2>1. CASE Len(q) = 1
    BY <1>4, <2>1
  <2>2. CASE Len(q) # 1
    <3>1. 2 <= Len(q) /\ 2 \in 1 .. Len(q)
      <4> DEFINE n == Len(q)
      <4>1. n \in Nat /\ n > 0 /\ n # 1
        BY <1>2, <2>2
      <4> HIDE DEF n
      <4>2. 2 <= n /\ 2 \in 1 .. n
        BY <4>1
      <4> QED
        BY <4>2 DEF n
    <3>2. q[2] # Null
      BY <3>1, ListFacts
    <3> QED
      BY <1>4, <2>2, <3>1, <3>2
  <2> QED
    BY <2>1, <2>2
<1>6. head = Final(q) <=> Len(q) = 1
  BY <1>1, <1>2 DEF Final
<1> QED
  BY <1>1, <1>2, <1>3, <1>5, <1>6 DEF Prior

-----------------------------------------------------------------------------
(* The other direction of the global list. *)

Backs(q, back) == \A i \in 1 .. Len(q) : back[q[i]] = Prior(q, i)

\* global_list_add
LEMMA PushBack ==
  ASSUME NEW q, NEW head, NEW link, Lists(q, head, link),
         NEW back, Backs(q, back), NEW t \in Thread, t \notin Range(q),
         NEW p, Len(p) = Len(q) + 1, p[1] = t, \A i \in 1 .. Len(q) : p[i + 1] = q[i],
         NEW new, new[t] = Null,
         \A u \in Range(q) : new[u] = IF u = head THEN t ELSE back[u]
  PROVE  Backs(p, new)
<1>1. /\ Len(q) \in Nat
      /\ \A i \in 1 .. Len(q) : q[i] \in Range(q)
      /\ \A i, j \in 1 .. Len(q) : q[i] = q[j] => i = j
      /\ q # <<>> <=> Len(q) > 0
      /\ head # Null => head = q[1]
      /\ head = Null <=> q = <<>>
  BY ListFacts
<1> SUFFICES ASSUME NEW i \in 1 .. Len(p)  PROVE  new[p[i]] = Prior(p, i)
  BY DEF Backs
<1>2. CASE i = 1
  BY <1>2 DEF Prior
<1>3. CASE i = 2
  <2>1. 1 \in 1 .. Len(q) /\ p[2] = q[1] /\ q[1] = head
    <3>1. 1 \in 1 .. Len(q)
      BY <1>1, <1>3
    <3>2. p[1 + 1] = q[1]
      BY <3>1
    <3> QED
      BY <1>1, <3>1, <3>2
  <2> QED
    BY <1>1, <1>3, <2>1 DEF Prior
<1>4. CASE i > 2
  <2>1. i - 1 \in 1 .. Len(q) /\ i - 2 \in 1 .. Len(q) /\ 1 \in 1 .. Len(q)
    BY <1>1, <1>4
  <2>2. p[(i - 1) + 1] = q[i - 1] /\ p[(i - 2) + 1] = q[i - 2]
    BY <2>1
  <2>3. q[i - 1] # head /\ q[i - 1] \in Range(q) /\ back[q[i - 1]] = q[i - 2]
    BY <1>1, <1>4, <2>1 DEF Backs, Prior
  <2>4. (i - 1) + 1 = i /\ (i - 2) + 1 = i - 1
    BY <2>1
  <2> QED
    BY <1>4, <2>2, <2>3, <2>4 DEF Prior
<1> QED
  BY <1>1, <1>2, <1>3, <1>4

\* global_list_remove
LEMMA UnlinkBack ==
  ASSUME NEW q, NEW head, NEW link, Lists(q, head, link),
         NEW back, Backs(q, back), NEW k \in 1 .. Len(q), NEW new,
         \A u \in Range(q) : u # q[k] =>
           new[u] = IF u = link[q[k]] THEN back[q[k]] ELSE back[u]
  PROVE  Backs(RemoveAt(q, k), new)
<1> DEFINE p == RemoveAt(q, k)
           n == Len(q)
<1>1. /\ q \in Seq(Thread) /\ n \in Nat
      /\ \A i \in 1 .. n : q[i] \in Range(q) /\ q[i] # Null
      /\ \A i, j \in 1 .. n : q[i] = q[j] => i = j
  BY ListFacts
<1>2. /\ Len(p) = n - 1
      /\ \A i \in 1 .. n - 1 : p[i] = IF i < k THEN q[i] ELSE q[i + 1]
  BY <1>1, RemoveAtPosition
<1>3. \A i \in 1 .. n : back[q[i]] = Prior(q, i)
  BY DEF Backs
<1>4. link[q[k]] = Nth(q, k + 1)
  BY DEF Lists
<1>5. k \in Nat /\ 1 <= k /\ k <= n
  BY <1>1
<1> HIDE DEF p
<1>6. ASSUME NEW i \in 1 .. Len(p)  PROVE  new[p[i]] = Prior(p, i)
  <2>1. i \in 1 .. n - 1 /\ i \in 1 .. n /\ i + 1 \in 1 .. n /\ i \in Nat
    BY <1>1, <1>2
  <2>2. CASE i < k
    <3>1. p[i] = q[i] /\ q[i] # q[k] /\ q[i] # link[q[k]]
      <4>1. k + 1 <= n => k + 1 \in 1 .. n /\ i # k + 1
        BY <1>1, <1>5, <2>1, <2>2
      <4> QED
        BY <1>1, <1>2, <1>4, <2>1, <2>2, <4>1 DEF Nth
    <3>2. new[p[i]] = Prior(q, i)
      BY <1>1, <1>3, <2>1, <3>1
    <3>3. i > 1 => i - 1 \in 1 .. n - 1 /\ i - 1 < k
      BY <1>1, <1>5, <2>1, <2>2
    <3> QED
      BY <1>2, <3>2, <3>3 DEF Prior
  <2>3. CASE i = k
    <3>1. p[i] = q[k + 1] /\ q[k + 1] = link[q[k]] /\ q[k + 1] # q[k]
      BY <1>1, <1>2, <1>4, <1>5, <2>1, <2>3 DEF Nth
    <3>2. new[p[i]] = Prior(q, k)
      BY <1>1, <1>3, <2>1, <2>3, <3>1
    <3>3. k > 1 => k - 1 \in 1 .. n - 1 /\ k - 1 < k
      BY <1>1, <1>5, <2>1, <2>3
    <3> QED
      BY <1>2, <2>3, <3>2, <3>3 DEF Prior
  <2>4. CASE i > k
    <3>1. p[i] = q[i + 1] /\ q[i + 1] # q[k]
      BY <1>1, <1>2, <1>5, <2>1, <2>4
    <3>2. q[i + 1] # link[q[k]]
      <4>1. k + 1 \in 1 .. n /\ i + 1 # k + 1
        BY <1>1, <1>5, <2>1, <2>4
      <4> QED
        BY <1>1, <1>4, <2>1, <4>1 DEF Nth
    <3>3. new[p[i]] = q[i]
      <4>1. Prior(q, i + 1) = q[i]
        <5>1. (i + 1) - 1 = i /\ i + 1 > 1
          BY <2>1
        <5> QED
          BY <5>1 DEF Prior
      <4> QED
        BY <1>1, <1>3, <2>1, <3>1, <3>2, <4>1
    <3>4. i - 1 \in 1 .. n - 1 /\ ~(i - 1 < k) /\ (i - 1) + 1 = i /\ i > 1
      BY <1>1, <1>5, <2>1, <2>4
    <3>5. p[i - 1] = q[i]
      BY <1>2, <3>4
    <3> QED
      BY <3>3, <3>4, <3>5 DEF Prior
  <2> QED
    BY <1>5, <2>1, <2>2, <2>3, <2>4
<1> QED
  BY <1>6 DEF p, Backs

-----------------------------------------------------------------------------
(***************************************************************************)
(* The inductive invariant.  Waiting, Sleeping and Global are the other    *)
(* lists of IntrusiveList, read off like Ready.  The sequences are         *)
(* parameters of the conjuncts, so that a step can name the new ones.      *)
(***************************************************************************)
Waiting == Follow(waitHead, next)
Sleeping == Follow(sleepHead, next)
Global == Follow(globalHead, globalNext)

Pointer == Thread \cup {Null}

PointersOK ==
  /\ state \in [Thread -> {"NONE", "READY", "RUNNING", "BLOCKED", "IO_BLOCKED", "FINISHED"}]
  /\ current \in Thread
  /\ next \in [Thread -> Pointer]
  /\ globalNext \in [Thread -> Pointer] /\ globalPrev \in [Thread -> Pointer]
  /\ walk \in [loop : {"none", "remove", "sleepers", "gc"},
               prev : Pointer, cur : Pointer, target : Pointer]

\* The links spell out the four sequences, and the rest agrees with them.
Spelled(r, w, s, g) ==
  /\ Lists(r, readyHead, next) /\ readyTail = Final(r) /\ readyCount = Len(r)
  /\ Lists(w, waitHead, next) /\ waitTail = Final(w)
  /\ Lists(s, sleepHead, next)
  /\ Lists(g, globalHead, globalNext) /\ Backs(g, globalPrev)

\* The state of a thread says which lists it is on: lists that share the next
\* field have no thread in common.
Placed(r, w, s, g) ==
  /\ \A t \in Thread :
       /\ t \in Range(r) <=> state[t] = "READY"
       /\ t \in Range(w) <=> state[t] = "BLOCKED"
       /\ t \in Range(s) <=> state[t] = "IO_BLOCKED"
       /\ t \in Range(g) <=> state[t] # "NONE"
       /\ state[t] = "RUNNING" => t = current
  /\ state[current] # "NONE"

\* A loop stands on an element of its list with the one before it in prev,
\* whatever it has unlinked so far, and a removal has not passed its target.
Walking(r, s, g) ==
  /\ walk.loop = "remove" =>
       /\ state[current] # "RUNNING"
       /\ \E i, j \in 1 .. Len(r) :
            /\ i <= j /\ walk.target = r[j]
            /\ walk.cur = r[i] /\ walk.prev = Prior(r, i)
  /\ walk.loop = "sleepers" /\ walk.cur # Null =>
       \E i \in 1 .. Len(s) : walk.cur = s[i] /\ walk.prev = Prior(s, i)
  /\ walk.loop = "gc" /\ walk.cur # Null => walk.cur \in Range(g)

Spells(r, w, s, g) == Spelled(r, w, s, g) /\ Placed(r, w, s, g) /\ Walking(r, s, g)

ListInv == PointersOK /\ Spells(Ready, Waiting, Sleeping, Global)

\* Sequences that the links spell are the ones that Follow reads.
LEMMA SpelledAreRead ==
  ASSUME NEW r, NEW w, NEW s, NEW g
  PROVE  /\ Spelled(r, w, s, g) =>
              Ready = r /\ Waiting = w /\ Sleeping = s /\ Global = g
         /\ Spelled(r, w, s, g)' =>
              Ready' = r /\ Waiting' = w /\ Sleeping' = s /\ Global' = g
BY FollowLists DEF Spelled, Ready, Waiting, Sleeping, Global

\* The invariant, unfolded, and what it says of a thread that is on a list.
LEMMA SpellsFacts ==
  ASSUME NEW r, NEW w, NEW s, NEW g, PointersOK, Spells(r, w, s, g)
  PROVE  /\ Lists(r, readyHead, next) /\ readyTail = Final(r) /\ readyCount = Len(r)
         /\ Lists(w, waitHead, next) /\ waitTail = Final(w)
         /\ Lists(s, sleepHead, next)
         /\ Lists(g, globalHead, globalNext) /\ Backs(g, globalPrev)
         /\ Range(r) \cap Range(w) = {}
         /\ Range(r) \cap Range(s) = {}
         /\ Range(w) \cap Range(s) = {}
         /\ \A t \in Thread : state[t] \in {"NONE", "RUNNING", "FINISHED"} =>
              t \notin Range(r) \cup Range(w) \cup Range(s)
         /\ \A t \in Range(r) : t \in Thread /\ state[t] = "READY"
         /\ \A t \in Range(w) : t \in Thread /\ state[t] = "BLOCKED"
         /\ \A t \in Range(s) : t \in Thread /\ state[t] = "IO_BLOCKED"
         /\ \A t \in Range(g) : t \in Thread /\ state[t] # "NONE"
         /\ state \in [Thread -> {"NONE", "READY", "RUNNING", "BLOCKED",
                                  "IO_BLOCKED", "FINISHED"}]
         /\ current \in Thread /\ next \in [Thread -> Pointer]
         /\ globalNext \in [Thread -> Pointer] /\ globalPrev \in [Thread -> Pointer]
         /\ readyHead \in Pointer /\ waitHead \in Pointer /\ sleepHead \in Pointer
         /\ globalHead \in Pointer
<1>1. /\ Lists(r, readyHead, next) /\ readyTail = Final(r) /\ readyCount = Len(r)
      /\ Lists(w, waitHead, next) /\ waitTail = Final(w)
      /\ Lists(s, sleepHead, next)
      /\ Lists(g, globalHead, globalNext) /\ Backs(g, globalPrev)
  BY DEF Spells, Spelled
<1>2. /\ \A t \in Range(r) : t \in Thread
      /\ \A t \in Range(w) : t \in Thread
      /\ \A t \in Range(s) : t \in Thread
      /\ \A t \in Range(g) : t \in Thread
  BY <1>1, ListFacts
<1>3. /\ readyHead \in Pointer /\ waitHead \in Pointer /\ sleepHead \in Pointer
      /\ globalHead \in Pointer
  BY <1>1, <1>2, ListFacts DEF Pointer
<1>4. /\ Range(r) \cap Range(w) = {}
      /\ Range(r) \cap Range(s) = {}
      /\ Range(w) \cap Range(s) = {}
      /\ \A t \in Thread : state[t] \in {"NONE", "RUNNING", "FINISHED"} =>
           t \notin Range(r) \cup Range(w) \cup Range(s)
      /\ \A t \in Range(r) : state[t] = "READY"
      /\ \A t \in Range(w) : state[t] = "BLOCKED"
      /\ \A t \in Range(s) : state[t] = "IO_BLOCKED"
      /\ \A t \in Range(g) : state[t] # "NONE"
  BY <1>2 DEF Spells, Placed
<1> QED
  BY <1>1, <1>2, <1>3, <1>4 DEF PointersOK

\* A thread changes its state, and its place with it.
Turns(t, new) == \A u \in Thread : state'[u] = IF u = t THEN new ELSE state[u]

LEMMA MoveIsPlaced ==
  ASSUME NEW r, NEW w, NEW s, NEW g, Placed(r, w, s, g),
         NEW t \in Thread, NEW new,
         Turns(t, new),
         NEW p, NEW q, NEW o, NEW h,
         \A u \in Thread : u \in Range(p) <=> IF u = t THEN new = "READY" ELSE u \in Range(r),
         \A u \in Thread : u \in Range(q) <=> IF u = t THEN new = "BLOCKED" ELSE u \in Range(w),
         \A u \in Thread : u \in Range(o) <=> IF u = t THEN new = "IO_BLOCKED" ELSE u \in Range(s),
         \A u \in Thread : u \in Range(h) <=> IF u = t THEN new # "NONE" ELSE u \in Range(g),
         \A u \in Thread : state'[u] = "RUNNING" => u = current',
         state'[current'] # "NONE"
  PROVE  Placed(p, q, o, h)'
<1>1. ASSUME NEW u \in Thread
      PROVE  /\ u \in Range(p) <=> state'[u] = "READY"
             /\ u \in Range(q) <=> state'[u] = "BLOCKED"
             /\ u \in Range(o) <=> state'[u] = "IO_BLOCKED"
             /\ u \in Range(h) <=> state'[u] # "NONE"
  <2>1. CASE u = t
    BY <2>1 DEF Turns
  <2>2. CASE u # t
    <3>1. /\ u \in Range(r) <=> state[u] = "READY"
          /\ u \in Range(w) <=> state[u] = "BLOCKED"
          /\ u \in Range(s) <=> state[u] = "IO_BLOCKED"
          /\ u \in Range(g) <=> state[u] # "NONE"
      BY DEF Placed
    <3> QED
      BY <2>2, <3>1 DEF Turns
  <2> QED
    BY <2>1, <2>2
<1> QED
  BY <1>1 DEF Placed

\* enqueue, with the next fields as the caller has left them: t becomes the
\* last ready thread, and only its field and that of the former tail change.
LEMMA EnqueueSpells ==
  ASSUME NEW r, NEW nxt, Lists(r, readyHead, nxt), readyTail = Final(r),
         readyCount = Len(r), NEW t \in Thread, t \notin Range(r),
         nxt \in [Thread -> Pointer], Enqueue(nxt, t)
  PROVE  /\ Lists(Append(r, t), readyHead', next')
         /\ readyTail' = Final(Append(r, t)) /\ readyCount' = Len(Append(r, t))
         /\ Range(Append(r, t)) = Range(r) \cup {t}
         /\ next' \in [Thread -> Pointer]
         /\ \A u \in Thread : u # t /\ u \notin Range(r) => next'[u] = nxt[u]
<1>1. /\ Lists(Append(r, t), IF Final(r) = Null THEN t ELSE readyHead,
               Linked(nxt, Final(r), t))
      /\ Final(Append(r, t)) = t
      /\ Range(Append(r, t)) = Range(r) \cup {t}
      /\ Len(Append(r, t)) = Len(r) + 1
  BY AppendToList
<1>2. /\ next' = Linked(nxt, Final(r), t)
      /\ readyHead' = IF Final(r) = Null THEN t ELSE readyHead
      /\ readyTail' = t /\ readyCount' = Len(r) + 1
  BY DEF Enqueue
<1>3. Final(r) = Null \/ Final(r) \in Range(r)
  BY FinalOnList
<1>4. /\ next' \in [Thread -> Pointer]
      /\ \A u \in Thread : u # t /\ u \notin Range(r) => next'[u] = nxt[u]
  BY <1>2, <1>3, ListAssumption DEF Linked, Pointer
<1> QED
  BY <1>1, <1>2, <1>4

-----------------------------------------------------------------------------
(* What each step does to the sequences. *)

LEMMA CreateSpells ==
  ASSUME PointersOK, NEW r, NEW w, NEW s, NEW g, Spells(r, w, s, g),
         NEW t \in Thread, Create(t)
  PROVE  PointersOK' /\ Spells(Append(r, t), w, s, <<t>> \o g)'
<1>1. /\ Placed(r, w, s, g)
      /\ walk.loop = "none" /\ walk' = walk
      /\ state[t] = "NONE" /\ state' = [state EXCEPT ![t] = "READY"]
      /\ GlobalAdd(t) /\ Enqueue(next, t)
      /\ UNCHANGED <<current, waitVars, sleepHead>>
  BY DEF Spells, Create, Running, SetState
<1>2. /\ t \notin Range(r) \cup Range(w) \cup Range(s)
      /\ t \notin Range(g)
  BY <1>1, SpellsFacts
<1>3. /\ Lists(Append(r, t), readyHead', next')
      /\ readyTail' = Final(Append(r, t)) /\ readyCount' = Len(Append(r, t))
      /\ Range(Append(r, t)) = Range(r) \cup {t}
      /\ next' \in [Thread -> Pointer]
      /\ \A u \in Thread : u # t /\ u \notin Range(r) => next'[u] = next[u]
  BY <1>1, <1>2, SpellsFacts, EnqueueSpells
<1>4. Lists(w, waitHead', next') /\ waitTail' = Final(w) /\ Lists(s, sleepHead', next')
  <2>1. /\ \A u \in Range(w) : next'[u] = next[u]
        /\ \A u \in Range(s) : next'[u] = next[u]
    BY <1>2, <1>3, SpellsFacts
  <2>2. Lists(w, waitHead, next') /\ Lists(s, sleepHead, next')
    BY <2>1, SpellsFacts, ListKept
  <2> QED
    BY <1>1, <2>2, SpellsFacts DEF waitVars
<1>5. /\ globalHead' = t
      /\ globalNext' = [globalNext EXCEPT ![t] = globalHead]
      /\ globalPrev' = [u \in Thread |-> IF u = t THEN Null
                          ELSE IF u = globalHead THEN t ELSE globalPrev[u]]
  BY <1>1 DEF GlobalAdd
<1>6. /\ globalNext'[t] = globalHead /\ globalPrev'[t] = Null
      /\ \A u \in Range(g) : globalNext'[u] = globalNext[u]
      /\ \A u \in Range(g) : globalPrev'[u] = IF u = globalHead THEN t ELSE globalPrev[u]
      /\ globalNext' \in [Thread -> Pointer] /\ globalPrev' \in [Thread -> Pointer]
  BY <1>2, <1>5, SpellsFacts DEF Pointer
<1> DEFINE p == <<t>> \o g
<1>7. /\ Lists(p, t, globalNext')
      /\ Range(p) = Range(g) \cup {t}
      /\ Len(p) = Len(g) + 1 /\ p[1] = t
      /\ \A i \in 1 .. Len(g) : p[i + 1] = g[i]
  BY <1>2, <1>6, SpellsFacts, PushOnList
<1> HIDE DEF p
<1>8. Backs(p, globalPrev')
  BY <1>2, <1>6, <1>7, SpellsFacts, PushBack
<1>9. Spelled(Append(r, t), w, s, p)'
  BY <1>3, <1>4, <1>5, <1>7, <1>8 DEF Spelled
<1>10. Placed(Append(r, t), w, s, p)'
  BY <1>1, <1>2, <1>3, <1>7, SpellsFacts DEF Placed
<1>11. PointersOK'
  BY <1>1, <1>3, <1>6, SpellsFacts DEF PointersOK
<1> QED
  BY <1>1, <1>9, <1>10, <1>11 DEF p, Spells, Walking

\* uthread_yield
LEMMA RequeueSpells ==
  ASSUME PointersOK, NEW r, NEW w, NEW s, NEW g, Spells(r, w, s, g), Requeue,
         NEW t, t = current
  PROVE  PointersOK' /\ Spells(Append(r, t), w, s, g)'
<1>1. /\ Placed(r, w, s, g)
      /\ walk.loop = "none" /\ walk' = walk
      /\ state[t] = "RUNNING" /\ state' = [state EXCEPT ![t] = "READY"]
      /\ Enqueue(next, t)
      /\ UNCHANGED <<current, waitVars, sleepHead, globalVars>>
  BY DEF Spells, Requeue, Running, SetState
<1>2. t \in Thread /\ t \notin Range(r) \cup Range(w) \cup Range(s)
  BY <1>1, SpellsFacts
<1>3. /\ Lists(Append(r, t), readyHead', next')
      /\ readyTail' = Final(Append(r, t)) /\ readyCount' = Len(Append(r, t))
      /\ Range(Append(r, t)) = Range(r) \cup {t}
      /\ next' \in [Thread -> Pointer]
      /\ \A u \in Thread : u # t /\ u \notin Range(r) => next'[u] = next[u]
  BY <1>1, <1>2, SpellsFacts, EnqueueSpells
<1>4. Lists(w, waitHead', next') /\ Lists(s, sleepHead', next')
  <2>1. /\ \A u \in Range(w) : next'[u] = next[u]
        /\ \A u \in Range(s) : next'[u] = next[u]
    BY <1>2, <1>3, SpellsFacts
  <2>2. Lists(w, waitHead, next') /\ Lists(s, sleepHead, next')
    BY <2>1, SpellsFacts, ListKept
  <2> QED
    BY <1>1, <2>2 DEF waitVars
<1>5. Spelled(Append(r, t), w, s, g)'
  BY <1>1, <1>3, <1>4, SpellsFacts DEF Spelled, waitVars, globalVars
<1>6. Placed(Append(r, t), w, s, g)'
  BY <1>1, <1>2, <1>3, SpellsFacts DEF Placed
<1>7. PointersOK'
  BY <1>1, <1>3, SpellsFacts DEF PointersOK, globalVars
<1> QED
  BY <1>1, <1>5, <1>6, <1>7 DEF Spells, Walking

\* The tail of uthread_mutex_lock and uthread_sem_wait
LEMMA BlockSpells ==
  ASSUME PointersOK, NEW r, NEW w, NEW s, NEW g, Spells(r, w, s, g), Block,
         NEW t, t = current
  PROVE  PointersOK' /\ Spells(r, Append(w, t), s, g)'
<1>1. /\ Placed(r, w, s, g)
      /\ walk.loop = "none" /\ walk' = walk
      /\ state[t] = "RUNNING" /\ state' = [state EXCEPT ![t] = "BLOCKED"]
      /\ next' = Linked(next, Final(w), t)
      /\ waitHead' = IF Final(w) = Null THEN t ELSE waitHead
      /\ waitTail' = t
      /\ UNCHANGED <<current, readyVars, sleepHead, globalVars>>
  BY SpellsFacts DEF Spells, Block, Running, SetState
<1>2. t \in Thread /\ t \notin Range(r) \cup Range(w) \cup Range(s)
  BY <1>1, SpellsFacts
<1> DEFINE p == Append(w, t)
<1>3. /\ Lists(p, waitHead', next') /\ waitTail' = Final(p)
      /\ Range(p) = Range(w) \cup {t}
  BY <1>1, <1>2, SpellsFacts, AppendToList
<1> HIDE DEF p
<1>4. Final(w) = Null \/ Final(w) \in Range(w)
  BY SpellsFacts, FinalOnList
<1>5. /\ next' \in [Thread -> Pointer]
      /\ \A u \in Thread : u # t /\ u \notin Range(w) => next'[u] = next[u]
  BY <1>1, <1>2, <1>4, SpellsFacts, ListAssumption DEF Linked, Pointer
<1>6. Lists(r, readyHead', next') /\ Lists(s, sleepHead', next')
  <2>1. /\ \A u \in Range(r) : next'[u] = next[u]
        /\ \A u \in Range(s) : next'[u] = next[u]
    BY <1>2, <1>5, SpellsFacts
  <2>2. Lists(r, readyHead, next') /\ Lists(s, sleepHead, next')
    BY <2>1, SpellsFacts, ListKept
  <2> QED
    BY <1>1, <2>2 DEF readyVars
<1>7. Spelled(r, p, s, g)'
  BY <1>1, <1>3, <1>6, SpellsFacts DEF Spelled, readyVars, globalVars
<1>8. Placed(r, p, s, g)'
  <2>1. Turns(t, "BLOCKED")
    BY <1>1, SpellsFacts DEF Turns
  <2>2. current' = current
    BY <1>1
  <2>3. /\ \A u \in Thread : u \in Range(r) <=> IF u = t THEN FALSE ELSE u \in Range(r)
        /\ \A u \in Thread : u \in Range(p) <=> IF u = t THEN TRUE ELSE u \in Range(w)
        /\ \A u \in Thread : u \in Range(s) <=> IF u = t THEN FALSE ELSE u \in Range(s)
        /\ \A u \in Thread : u \in Range(g) <=> IF u = t THEN TRUE ELSE u \in Range(g)
    BY <1>1, <1>2, <1>3 DEF Placed
  <2>4. /\ \A u \in Thread : state'[u] = "RUNNING" => u = current'
        /\ state'[current'] # "NONE"
    BY <1>1, <1>2, <2>1 DEF Placed, Turns
  <2>5. Placed(r, w, s, g) /\ t \in Thread
    BY <1>1, <1>2
  <2> QED
    BY <2>1, <2>3, <2>4, <2>5, MoveIsPlaced
<1>9. PointersOK'
  BY <1>1, <1>5, SpellsFacts DEF PointersOK, globalVars
<1> QED
  BY <1>1, <1>7, <1>8, <1>9 DEF p, Spells, Walking

\* uthread_sleep
LEMMA SleepSpells ==
  ASSUME PointersOK, NEW r, NEW w, NEW s, NEW g, Spells(r, w, s, g), Sleep,
         NEW t, t = current
  PROVE  PointersOK' /\ Spells(r, w, <<t>> \o s, g)'
<1>1. /\ Placed(r, w, s, g)
      /\ walk.loop = "none" /\ walk' = walk
      /\ state[t] = "RUNNING" /\ state' = [state EXCEPT ![t] = "IO_BLOCKED"]
      /\ next' = [next EXCEPT ![t] = sleepHead]
      /\ sleepHead' = t
      /\ UNCHANGED <<current, readyVars, waitVars, globalVars>>
  BY DEF Spells, Sleep, Running, SetState
<1>2. t \in Thread /\ t \notin Range(r) \cup Range(w) \cup Range(s)
  BY <1>1, SpellsFacts
<1>3. /\ next' \in [Thread -> Pointer] /\ next'[t] = sleepHead
      /\ \A u \in Thread : u # t => next'[u] = next[u]
  BY <1>1, <1>2, SpellsFacts
<1> DEFINE p == <<t>> \o s
<1>4. Lists(p, t, next') /\ Range(p) = Range(s) \cup {t}
  BY <1>2, <1>3, SpellsFacts, PushOnList
<1> HIDE DEF p
<1>5. Lists(r, readyHead', next') /\ Lists(w, waitHead', next')
  <2>1. /\ \A u \in Range(r) : next'[u] = next[u]
        /\ \A u \in Range(w) : next'[u] = next[u]
    BY <1>2, <1>3, SpellsFacts
  <2>2. Lists(r, readyHead, next') /\ Lists(w, waitHead, next')
    BY <2>1, SpellsFacts, ListKept
  <2> QED
    BY <1>1, <2>2 DEF readyVars, waitVars
<1>6. Spelled(r, w, p, g)'
  BY <1>1, <1>4, <1>5, SpellsFacts DEF Spelled, readyVars, waitVars, globalVars
<1>7. Placed(r, w, p, g)'
  BY <1>1, <1>2, <1>4, SpellsFacts DEF Placed
<1>8. PointersOK'
  BY <1>1, <1>3, SpellsFacts DEF PointersOK, globalVars
<1> QED
  BY <1>1, <1>6, <1>7, <1>8 DEF p, Spells, Walking

\* uthread_exit
LEMMA ExitSpells ==
  ASSUME PointersOK, NEW r, NEW w, NEW s, NEW g, Spells(r, w, s, g), Exit
  PROVE  PointersOK' /\ Spells(r, w, s, g)'
<1>1. /\ Placed(r, w, s, g)
      /\ walk.loop = "none" /\ walk' = walk
      /\ state[current] = "RUNNING" /\ state' = [state EXCEPT ![current] = "FINISHED"]
      /\ UNCHANGED <<current, next, readyVars, waitVars, sleepHead, globalVars>>
  BY DEF Spells, Exit, Running, SetState
<1>2. Spelled(r, w, s, g)'
  BY <1>1, SpellsFacts DEF Spelled, readyVars, waitVars, globalVars
<1>3. Placed(r, w, s, g)'
  BY <1>1, SpellsFacts DEF Placed
<1>4. PointersOK'
  BY <1>1, SpellsFacts DEF PointersOK, globalVars
<1> QED
  BY <1>1, <1>2, <1>3, <1>4 DEF Spells, Walking

\* uthread_mutex_unlock and uthread_sem_post with a waiter
LEMMA UnblockSpells ==
  ASSUME PointersOK, NEW r, NEW w, NEW s, NEW g, Spells(r, w, s, g), Unblock,
         NEW t, t = waitHead
  PROVE  /\ PointersOK' /\ Spells(Append(r, t), Tail(w), s, g)'
         /\ w # <<>> /\ t = Head(w)
<1>1. /\ Placed(r, w, s, g)
      /\ walk.loop = "none" /\ walk' = walk
      /\ state[current] = "RUNNING" /\ state' = [state EXCEPT ![t] = "READY"]
      /\ t # Null
      /\ waitHead' = next[t]
      /\ waitTail' = IF next[t] = Null THEN Null ELSE waitTail
      /\ Enqueue(next, t)
      /\ UNCHANGED <<current, sleepHead, globalVars>>
  BY DEF Spells, Unblock, Running, SetState
<1>2. /\ 1 \in 1 .. Len(w) /\ w # <<>> /\ w[1] = t /\ Head(w) = t
      /\ Prior(w, 1) = Null /\ RemoveAt(w, 1) = Tail(w)
      /\ next[t] = Null <=> t = Final(w)
  BY <1>1, SpellsFacts, FirstOfList
<1>3. /\ t \in Thread /\ t \in Range(w) /\ state[t] = "BLOCKED"
      /\ t \notin Range(r) /\ t \notin Range(s)
  BY <1>1, SpellsFacts, ListFacts
<1> DEFINE p == Append(r, t)
<1>4. /\ Lists(p, readyHead', next')
      /\ readyTail' = Final(p) /\ readyCount' = Len(p)
      /\ Range(p) = Range(r) \cup {t}
      /\ next' \in [Thread -> Pointer]
      /\ \A u \in Thread : u # t /\ u \notin Range(r) => next'[u] = next[u]
  BY <1>1, <1>3, SpellsFacts, EnqueueSpells
<1> HIDE DEF p
<1> DEFINE q == Tail(w)
<1>5. /\ Lists(q, waitHead', next') /\ waitTail' = Final(q)
      /\ Range(q) = Range(w) \ {t}
  <2>1. \A u \in Range(w) : u # w[1] =>
          next'[u] = IF u = Prior(w, 1) THEN next[w[1]] ELSE next[u]
    BY <1>2, <1>4, SpellsFacts, ListAssumption
  <2>2. /\ Lists(RemoveAt(w, 1), IF Prior(w, 1) = Null THEN next[w[1]] ELSE waitHead, next')
        /\ Range(RemoveAt(w, 1)) = Range(w) \ {w[1]}
        /\ Final(RemoveAt(w, 1)) = IF w[1] = Final(w) THEN Prior(w, 1) ELSE Final(w)
    BY <1>2, <2>1, SpellsFacts, UnlinkFromList
  <2> QED
    BY <1>1, <1>2, <2>2, SpellsFacts
<1> HIDE DEF q
<1>6. Lists(s, sleepHead', next')
  <2>1. \A u \in Range(s) : next'[u] = next[u]
    BY <1>3, <1>4, SpellsFacts
  <2>2. Lists(s, sleepHead, next')
    BY <2>1, SpellsFacts, ListKept
  <2> QED
    BY <1>1, <2>2
<1>7. Spelled(p, q, s, g)'
  BY <1>1, <1>4, <1>5, <1>6, SpellsFacts DEF Spelled, globalVars
<1>8. Placed(p, q, s, g)'
  <2>1. Turns(t, "READY")
    BY <1>1, SpellsFacts DEF Turns
  <2>2. current' = current
    BY <1>1
  <2>3. /\ \A u \in Thread : u \in Range(p) <=> IF u = t THEN TRUE ELSE u \in Range(r)
        /\ \A u \in Thread : u \in Range(q) <=> IF u = t THEN FALSE ELSE u \in Range(w)
        /\ \A u \in Thread : u \in Range(s) <=> IF u = t THEN FALSE ELSE u \in Range(s)
        /\ \A u \in Thread : u \in Range(g) <=> IF u = t THEN TRUE ELSE u \in Range(g)
    BY <1>1, <1>3, <1>4, <1>5 DEF Placed
  <2>4. /\ \A u \in Thread : state'[u] = "RUNNING" => u = current'
        /\ state'[current'] # "NONE"
    BY <1>1, <2>1, <2>2, SpellsFacts DEF Placed, Turns
  <2>5. Placed(r, w, s, g) /\ t \in Thread
    BY <1>1, <1>3
  <2> QED
    BY <2>1, <2>3, <2>4, <2>5, MoveIsPlaced
<1>9. PointersOK'
  BY <1>1, <1>4, SpellsFacts DEF PointersOK, globalVars
<1> QED
  BY <1>1, <1>2, <1>7, <1>8, <1>9 DEF p, q, Spells, Walking

\* round_robin_next
LEMMA DequeueSpells ==
  ASSUME PointersOK, NEW r, NEW w, NEW s, NEW g, Spells(r, w, s, g), Dequeue
  PROVE  /\ PointersOK' /\ Spells(RemoveAt(r, 1), w, s, g)'
         /\ 1 \in 1 .. Len(r)
<1> SUFFICES ASSUME NEW t, t = readyHead
             PROVE  /\ PointersOK' /\ Spells(RemoveAt(r, 1), w, s, g)'
                    /\ 1 \in 1 .. Len(r)
  OBVIOUS
<1>1. /\ Placed(r, w, s, g)
      /\ walk.loop = "none" /\ walk' = walk
      /\ state[current] # "RUNNING" /\ state' = [state EXCEPT ![t] = "RUNNING"]
      /\ t # Null /\ current' = t
      /\ readyHead' = next[t]
      /\ readyTail' = IF next[t] = Null THEN Null ELSE readyTail
      /\ readyCount' = readyCount - 1
      /\ next' = [next EXCEPT ![t] = Null]
      /\ UNCHANGED <<waitVars, sleepHead, globalVars>>
  BY DEF Spells, Dequeue, Dispatching, SetState
<1>2. /\ 1 \in 1 .. Len(r) /\ r[1] = t
      /\ Prior(r, 1) = Null
      /\ next[t] = Null <=> t = Final(r)
  BY <1>1, SpellsFacts, FirstOfList
<1>3. /\ t \in Thread /\ t \in Range(r) /\ state[t] = "READY"
      /\ t \notin Range(w) /\ t \notin Range(s)
  BY <1>1, SpellsFacts, ListFacts
<1>4. /\ next' \in [Thread -> Pointer]
      /\ \A u \in Thread : u # t => next'[u] = next[u]
  BY <1>1, <1>3, SpellsFacts DEF Pointer
<1> DEFINE p == RemoveAt(r, 1)
<1>5. /\ Lists(p, readyHead', next') /\ readyTail' = Final(p) /\ readyCount' = Len(p)
      /\ Range(p) = Range(r) \ {t}
  <2>1. \A u \in Range(r) : u # r[1] =>
          next'[u] = IF u = Prior(r, 1) THEN next[r[1]] ELSE next[u]
    BY <1>2, <1>4, SpellsFacts, ListAssumption
  <2>2. /\ Lists(p, IF Prior(r, 1) = Null THEN next[r[1]] ELSE readyHead, next')
        /\ Range(p) = Range(r) \ {r[1]}
        /\ Len(p) = Len(r) - 1
        /\ Final(p) = IF r[1] = Final(r) THEN Prior(r, 1) ELSE Final(r)
    <3>1. Lists(r, readyHead, next)
      BY SpellsFacts
    <3> QED
      BY <1>2, <2>1, <3>1, UnlinkFromList
  <2> HIDE DEF p
  <2> QED
    BY <1>1, <1>2, <2>2, SpellsFacts
<1> HIDE DEF p
<1>6. Lists(w, waitHead', next') /\ Lists(s, sleepHead', next')
  <2>1. /\ \A u \in Range(w) : next'[u] = next[u]
        /\ \A u \in Range(s) : next'[u] = next[u]
    BY <1>3, <1>4, SpellsFacts
  <2>2. Lists(w, waitHead, next') /\ Lists(s, sleepHead, next')
    BY <2>1, SpellsFacts, ListKept
  <2> QED
    BY <1>1, <2>2 DEF waitVars
<1>7. Spelled(p, w, s, g)'
  BY <1>1, <1>5, <1>6, SpellsFacts DEF Spelled, waitVars, globalVars
<1>8. Placed(p, w, s, g)'
  <2>1. Turns(t, "RUNNING")
    BY <1>1, SpellsFacts DEF Turns
  <2>2. \A u \in Thread : state[u] # "RUNNING"
    BY <1>1 DEF Placed
  <2>3. /\ \A u \in Thread : u \in Range(p) <=> IF u = t THEN FALSE ELSE u \in Range(r)
        /\ \A u \in Thread : u \in Range(w) <=> IF u = t THEN FALSE ELSE u \in Range(w)
        /\ \A u \in Thread : u \in Range(s) <=> IF u = t THEN FALSE ELSE u \in Range(s)
        /\ \A u \in Thread : u \in Range(g) <=> IF u = t THEN TRUE ELSE u \in Range(g)
    BY <1>1, <1>3, <1>5 DEF Placed
  <2>4. /\ \A u \in Thread : state'[u] = "RUNNING" => u = current'
        /\ state'[current'] # "NONE"
    BY <1>1, <1>3, <2>1, <2>2 DEF Turns
  <2>5. Placed(r, w, s, g) /\ t \in Thread
    BY <1>1, <1>3
  <2> QED
    BY <2>1, <2>3, <2>4, <2>5, MoveIsPlaced
<1>9. PointersOK'
  BY <1>1, <1>3, <1>4, SpellsFacts DEF PointersOK, globalVars
<1> QED
  BY <1>1, <1>2, <1>7, <1>8, <1>9 DEF p, Spells, Walking

\* A loop that moves on, begins or ends leaves the lists alone.
LEMMA ListsRest ==
  ASSUME PointersOK, NEW r, NEW w, NEW s, NEW g, Spells(r, w, s, g),
         UNCHANGED <<state, current, next, readyVars, waitVars, sleepHead, globalVars>>
  PROVE  Spelled(r, w, s, g)' /\ Placed(r, w, s, g)'
<1>1. Spelled(r, w, s, g)'
  BY SpellsFacts DEF Spelled, readyVars, waitVars, globalVars
<1>2. Placed(r, w, s, g)'
  BY DEF Spells, Placed
<1> QED
  BY <1>1, <1>2

\* priority_next calls remove_from_ready_queue.
LEMMA RemoveBeginSpells ==
  ASSUME PointersOK, NEW r, NEW w, NEW s, NEW g, Spells(r, w, s, g),
         NEW t \in Thread, RemoveBegin(t)
  PROVE  PointersOK' /\ Spells(r, w, s, g)'
<1>1. /\ state[current] # "RUNNING" /\ state[t] = "READY"
      /\ walk' = [loop |-> "remove", prev |-> Null, cur |-> readyHead, target |-> t]
      /\ UNCHANGED <<state, current, next, readyVars, waitVars, sleepHead, globalVars>>
  BY DEF RemoveBegin, Dispatching, Begin
<1>2. t \in Range(r)
  BY <1>1 DEF Spells, Placed
<1>3. PICK j \in 1 .. Len(r) : r[j] = t
  BY <1>2, SpellsFacts, ListFacts
<1>4. Len(r) \in Nat /\ Len(r) > 0 /\ readyHead # Null
  <2>1. /\ Len(r) \in Nat /\ (r # <<>> <=> Len(r) > 0)
        /\ readyHead = Null <=> r = <<>>
    BY SpellsFacts, ListFacts
  <2> QED
    BY <1>3, <2>1
<1>5. 1 \in 1 .. Len(r) /\ r[1] = readyHead /\ Prior(r, 1) = Null
  BY <1>4, SpellsFacts, FirstOfList
<1>6. Walking(r, s, g)'
  <2>1. 1 <= j
    BY <1>3, <1>4
  <2>2. \E i, k \in 1 .. Len(r) :
          i <= k /\ walk'.target = r[k] /\ walk'.cur = r[i] /\ walk'.prev = Prior(r, i)
    BY <1>1, <1>3, <1>5, <2>1
  <2> QED
    BY <1>1, <2>2 DEF Walking
<1>7. PointersOK'
  BY <1>1, SpellsFacts DEF PointersOK, globalVars, Pointer
<1> QED
  BY <1>1, <1>6, <1>7, ListsRest DEF Spells

\* remove_from_ready_queue: a step of its loop that does not reach the target
LEMMA RemoveStepSpells ==
  ASSUME PointersOK, NEW r, NEW w, NEW s, NEW g, Spells(r, w, s, g), RemoveStep
  PROVE  PointersOK' /\ Spells(r, w, s, g)'
<1>1. /\ walk.loop = "remove" /\ walk.cur # walk.target /\ walk.cur # Null
      /\ walk' = [walk EXCEPT !.prev = walk.cur, !.cur = next[walk.cur]]
      /\ UNCHANGED <<state, current, next, readyVars, waitVars, sleepHead, globalVars>>
  BY DEF RemoveStep, At
<1>2. /\ state[current] # "RUNNING"
      /\ \E i, k \in 1 .. Len(r) :
           i <= k /\ walk.target = r[k] /\ walk.cur = r[i] /\ walk.prev = Prior(r, i)
  BY <1>1 DEF Spells, Walking
<1>3. PICK i, j \in 1 .. Len(r) :
        i <= j /\ walk.target = r[j] /\ walk.cur = r[i] /\ walk.prev = Prior(r, i)
  BY <1>2
<1>4. Len(r) \in Nat /\ i # j
  BY <1>1, <1>3, SpellsFacts, ListFacts
<1>5. i + 1 \in 1 .. Len(r) /\ i + 1 <= j /\ i + 1 > 1 /\ (i + 1) - 1 = i /\ i + 1 <= Len(r)
  BY <1>3, <1>4
<1>6. next[r[i]] = r[i + 1] /\ Prior(r, i + 1) = r[i]
  <2>1. \A k \in 1 .. Len(r) : next[r[k]] = Nth(r, k + 1)
    BY SpellsFacts DEF Lists
  <2> QED
    BY <1>5, <2>1 DEF Nth, Prior
<1>7. /\ walk \in [loop : {"none", "remove", "sleepers", "gc"},
                   prev : Pointer, cur : Pointer, target : Pointer]
      /\ walk.cur \in Thread /\ next \in [Thread -> Pointer]
  BY <1>3, SpellsFacts, ListFacts DEF PointersOK
<1>8. /\ walk'.loop = "remove" /\ walk'.target = r[j]
      /\ walk'.cur = r[i + 1] /\ walk'.prev = Prior(r, i + 1)
  BY <1>1, <1>3, <1>6, <1>7
<1>9. Walking(r, s, g)'
  <2>1. \E a, b \in 1 .. Len(r) :
          a <= b /\ walk'.target = r[b] /\ walk'.cur = r[a] /\ walk'.prev = Prior(r, a)
    BY <1>3, <1>5, <1>8
  <2> QED
    BY <1>1, <1>2, <1>8, <2>1 DEF Walking
<1>10. PointersOK'
  BY <1>1, <1>7 DEF PointersOK, Pointer, globalVars
<1> QED
  BY <1>1, <1>9, <1>10, ListsRest DEF Spells

\* remove_from_ready_queue has found its target.
LEMMA RemoveFoundSpells ==
  ASSUME PointersOK, NEW r, NEW w, NEW s, NEW g, Spells(r, w, s, g), RemoveFound
  PROVE  PointersOK' /\ \E i \in 1 .. Len(r) : Spells(RemoveAt(r, i), w, s, g)'
<1> SUFFICES ASSUME NEW t, t = walk.cur
             PROVE  PointersOK' /\ \E i \in 1 .. Len(r) : Spells(RemoveAt(r, i), w, s, g)'
  OBVIOUS
<1>1. /\ Placed(r, w, s, g)
      /\ walk.loop = "remove" /\ t = walk.target /\ walk' = NoWalk
      /\ next' = [u \in Thread |-> IF u = t THEN Null
                    ELSE IF u = walk.prev THEN next[t] ELSE next[u]]
      /\ readyHead' = IF walk.prev = Null THEN next[t] ELSE readyHead
      /\ readyTail' = IF t = readyTail THEN walk.prev ELSE readyTail
      /\ readyCount' = readyCount - 1
      /\ current' = t
      /\ state' = [state EXCEPT ![t] = "RUNNING"]
      /\ UNCHANGED <<waitVars, sleepHead, globalVars>>
  BY DEF Spells, RemoveFound, At, SetState
<1>2. /\ state[current] # "RUNNING"
      /\ \E i, k \in 1 .. Len(r) :
           i <= k /\ walk.target = r[k] /\ walk.cur = r[i] /\ walk.prev = Prior(r, i)
  BY <1>1 DEF Spells, Walking
<1>3. PICK i \in 1 .. Len(r) : t = r[i] /\ walk.prev = Prior(r, i)
  BY <1>2
<1>4. /\ t \in Thread /\ t \in Range(r) /\ state[t] = "READY"
      /\ t \notin Range(w) /\ t \notin Range(s)
  BY <1>3, SpellsFacts, ListFacts
<1>5. walk.prev = Null \/ walk.prev \in Range(r)
  BY <1>3, SpellsFacts, PriorOnList
<1>6. /\ next' \in [Thread -> Pointer]
      /\ \A u \in Thread : u \notin Range(r) => next'[u] = next[u]
      /\ \A u \in Range(r) : u # r[i] =>
           next'[u] = IF u = Prior(r, i) THEN next[r[i]] ELSE next[u]
  BY <1>1, <1>3, <1>4, <1>5, SpellsFacts, ListAssumption DEF Pointer
<1> DEFINE p == RemoveAt(r, i)
<1>7. /\ Lists(p, readyHead', next') /\ readyTail' = Final(p) /\ readyCount' = Len(p)
      /\ Range(p) = Range(r) \ {t}
  <2>1. Lists(r, readyHead, next)
    BY SpellsFacts
  <2>2. /\ Lists(p, IF Prior(r, i) = Null THEN next[r[i]] ELSE readyHead, next')
        /\ Range(p) = Range(r) \ {r[i]}
        /\ Len(p) = Len(r) - 1
        /\ Final(p) = IF r[i] = Final(r) THEN Prior(r, i) ELSE Final(r)
    BY <1>3, <1>6, <2>1, UnlinkFromList
  <2> HIDE DEF p
  <2> QED
    BY <1>1, <1>3, <2>2, SpellsFacts
<1> HIDE DEF p
<1>8. Lists(w, waitHead', next') /\ Lists(s, sleepHead', next')
  <2>1. /\ \A u \in Range(w) : next'[u] = next[u]
        /\ \A u \in Range(s) : next'[u] = next[u]
    <3>1. /\ \A u \in Range(w) : u \in Thread /\ u \notin Range(r)
          /\ \A u \in Range(s) : u \in Thread /\ u \notin Range(r)
      BY SpellsFacts
    <3> QED
      BY <1>6, <3>1
  <2>2. Lists(w, waitHead, next') /\ Lists(s, sleepHead, next')
    BY <2>1, SpellsFacts, ListKept
  <2> QED
    BY <1>1, <2>2 DEF waitVars
<1>9. Spelled(p, w, s, g)'
  BY <1>1, <1>7, <1>8, SpellsFacts DEF Spelled, waitVars, globalVars
<1>10. Placed(p, w, s, g)'
  <2>1. Turns(t, "RUNNING")
    BY <1>1, SpellsFacts DEF Turns
  <2>2. \A u \in Thread : state[u] # "RUNNING"
    BY <1>1, <1>2 DEF Placed
  <2>3. /\ \A u \in Thread : u \in Range(p) <=> IF u = t THEN FALSE ELSE u \in Range(r)
        /\ \A u \in Thread : u \in Range(w) <=> IF u = t THEN FALSE ELSE u \in Range(w)
        /\ \A u \in Thread : u \in Range(s) <=> IF u = t THEN FALSE ELSE u \in Range(s)
        /\ \A u \in Thread : u \in Range(g) <=> IF u = t THEN TRUE ELSE u \in Range(g)
    BY <1>1, <1>4, <1>7 DEF Placed
  <2>4. /\ \A u \in Thread : state'[u] = "RUNNING" => u = current'
        /\ state'[current'] # "NONE"
    BY <1>1, <1>4, <2>1, <2>2 DEF Turns
  <2>5. Placed(r, w, s, g) /\ t \in Thread
    BY <1>1, <1>4
  <2> QED
    BY <2>1, <2>3, <2>4, <2>5, MoveIsPlaced
<1>11. PointersOK'
  BY <1>1, <1>4, <1>6, SpellsFacts DEF PointersOK, globalVars, NoWalk, Pointer
<1>12. Spells(p, w, s, g)'
  BY <1>1, <1>9, <1>10 DEF Spells, Walking, NoWalk
<1> QED
  BY <1>11, <1>12 DEF p

\* The loops over the sleep list and the global list begin.
LEMMA LoopBeginSpells ==
  ASSUME PointersOK, NEW r, NEW w, NEW s, NEW g, Spells(r, w, s, g),
         SleepersBegin \/ GcBegin
  PROVE  PointersOK' /\ Spells(r, w, s, g)'
<1>1. UNCHANGED <<state, current, next, readyVars, waitVars, sleepHead, globalVars>>
  BY DEF SleepersBegin, GcBegin, Begin
<1>2. /\ PointersOK'
      /\ Walking(r, s, g)'
  <2>1. CASE SleepersBegin
    <3>1. walk' = [loop |-> "sleepers", prev |-> Null, cur |-> sleepHead, target |-> Null]
      BY <2>1 DEF SleepersBegin, Begin
    <3>2. sleepHead # Null =>
            1 \in 1 .. Len(s) /\ s[1] = sleepHead /\ Prior(s, 1) = Null
      BY SpellsFacts, FirstOfList
    <3>3. Walking(r, s, g)'
      BY <3>1, <3>2 DEF Walking
    <3> QED
      BY <1>1, <3>1, <3>3, SpellsFacts DEF PointersOK, Pointer, globalVars
  <2>2. CASE GcBegin
    <3>1. walk' = [loop |-> "gc", prev |-> Null, cur |-> globalHead, target |-> Null]
      BY <2>2 DEF GcBegin, Begin
    <3>2. globalHead # Null => globalHead \in Range(g)
      BY SpellsFacts, ListFacts
    <3>3. Walking(r, s, g)'
      BY <3>1, <3>2 DEF Walking
    <3> QED
      BY <1>1, <3>1, <3>3, SpellsFacts DEF PointersOK, Pointer, globalVars
  <2> QED
    BY <2>1, <2>2
<1> QED
  BY <1>1, <1>2, ListsRest DEF Spells

LEMMA WalkEndSpells ==
  ASSUME PointersOK, NEW r, NEW w, NEW s, NEW g, Spells(r, w, s, g), WalkEnd
  PROVE  PointersOK' /\ Spells(r, w, s, g)'
<1>1. /\ walk' = NoWalk
      /\ UNCHANGED <<state, current, next, readyVars, waitVars, sleepHead, globalVars>>
  BY DEF WalkEnd
<1>2. PointersOK'
  BY <1>1, SpellsFacts DEF PointersOK, Pointer, globalVars, NoWalk
<1>3. Walking(r, s, g)'
  BY <1>1 DEF Walking, NoWalk
<1> QED
  BY <1>1, <1>2, <1>3, ListsRest DEF Spells

\* check_sleep_list wakes the thread it stands on, or passes it.
LEMMA SleepersStepSpells ==
  ASSUME PointersOK, NEW r, NEW w, NEW s, NEW g, Spells(r, w, s, g), SleepersStep
  PROVE  /\ PointersOK'
         /\ \/ Spells(r, w, s, g)'
            \/ \E i \in 1 .. Len(s) : Spells(Append(r, s[i]), w, RemoveAt(s, i), g)'
<1> SUFFICES ASSUME NEW t, t = walk.cur
             PROVE  /\ PointersOK'
                    /\ \/ Spells(r, w, s, g)'
                       \/ \E i \in 1 .. Len(s) :
                            Spells(Append(r, s[i]), w, RemoveAt(s, i), g)'
  OBVIOUS
<1>1. /\ walk.loop = "sleepers" /\ t # Null
      /\ UNCHANGED <<current, waitVars, globalVars>>
  BY DEF SleepersStep, At
<1>2. PICK i \in 1 .. Len(s) : t = s[i] /\ walk.prev = Prior(s, i)
  BY <1>1 DEF Spells, Walking
<1>3. /\ t \in Thread /\ t \in Range(s) /\ state[t] = "IO_BLOCKED"
      /\ t \notin Range(r) /\ t \notin Range(w)
  BY <1>2, SpellsFacts, ListFacts
<1>4. walk \in [loop : {"none", "remove", "sleepers", "gc"},
                prev : Pointer, cur : Pointer, target : Pointer]
  BY DEF PointersOK
<1>5. next[t] \in Pointer /\ t \in Pointer
  BY <1>3, SpellsFacts DEF Pointer
<1>6. CASE walk' = [walk EXCEPT !.prev = t, !.cur = next[t]]
           /\ UNCHANGED <<state, next, readyVars, sleepHead>>
  <2>1. walk'.loop = "sleepers" /\ walk'.cur = next[t] /\ walk'.prev = t
    BY <1>1, <1>4, <1>6
  <2>2. Walking(r, s, g)'
    <3>1. next[t] = IF i + 1 <= Len(s) THEN s[i + 1] ELSE Null
      BY <1>2, SpellsFacts DEF Lists, Nth
    <3>2. Len(s) \in Nat
      BY SpellsFacts, ListFacts
    <3>3. i + 1 <= Len(s) => i + 1 \in 1 .. Len(s) /\ Prior(s, i + 1) = t
      BY <1>2, <3>2 DEF Prior
    <3> QED
      BY <2>1, <3>1, <3>3 DEF Walking
  <2>3. PointersOK'
    BY <1>1, <1>4, <1>5, <1>6 DEF PointersOK, globalVars
  <2> QED
    BY <1>1, <1>6, <2>2, <2>3, ListsRest DEF Spells
<1>7. CASE /\ sleepHead' = IF walk.prev = Null THEN next[t] ELSE sleepHead
           /\ Enqueue([u \in Thread |-> IF u = t THEN Null
                         ELSE IF u = walk.prev THEN next[t] ELSE next[u]], t)
           /\ SetState(t, "READY")
           /\ walk' = [walk EXCEPT !.cur = next[t]]
  <2> DEFINE nxt == [u \in Thread |-> IF u = t THEN Null
                       ELSE IF u = walk.prev THEN next[t] ELSE next[u]]
             q == RemoveAt(s, i)
             p == Append(r, t)
  <2>1. walk.prev = Null \/ walk.prev \in Range(s)
    BY <1>2, SpellsFacts, PriorOnList
  <2>2. /\ nxt \in [Thread -> Pointer]
        /\ \A u \in Thread : u \notin Range(s) => nxt[u] = next[u]
        /\ \A u \in Range(s) : u # s[i] =>
             nxt[u] = IF u = Prior(s, i) THEN next[s[i]] ELSE next[u]
    BY <1>2, <1>3, <1>5, <2>1, SpellsFacts, ListAssumption DEF Pointer
  <2>3. Enqueue(nxt, t)
    BY <1>7
  <2> HIDE DEF nxt
  <2>4. /\ Lists(q, sleepHead', nxt)
        /\ Range(q) = Range(s) \ {t}
        /\ Nth(q, i) = next[t] /\ Prior(q, i) = walk.prev
    <3>1. Lists(s, sleepHead, next)
      BY SpellsFacts
    <3>2. /\ Lists(q, IF Prior(s, i) = Null THEN next[s[i]] ELSE sleepHead, nxt)
          /\ Range(q) = Range(s) \ {s[i]}
          /\ Nth(q, i) = next[s[i]] /\ Prior(q, i) = Prior(s, i)
      BY <1>2, <2>2, <3>1, UnlinkFromList
    <3> HIDE DEF q
    <3> QED
      BY <1>2, <1>7, <3>2
  <2> HIDE DEF q
  <2>5. /\ Lists(r, readyHead, nxt) /\ Lists(w, waitHead, nxt)
    <3>1. /\ \A u \in Range(r) : u \in Thread /\ u \notin Range(s)
          /\ \A u \in Range(w) : u \in Thread /\ u \notin Range(s)
      BY SpellsFacts
    <3>2. /\ \A u \in Range(r) : nxt[u] = next[u]
          /\ \A u \in Range(w) : nxt[u] = next[u]
      BY <2>2, <3>1
    <3> QED
      BY <3>2, SpellsFacts, ListKept
  <2>6. /\ Lists(p, readyHead', next')
        /\ readyTail' = Final(p) /\ readyCount' = Len(p)
        /\ Range(p) = Range(r) \cup {t}
        /\ next' \in [Thread -> Pointer]
        /\ \A u \in Thread : u # t /\ u \notin Range(r) => next'[u] = nxt[u]
    BY <1>3, <2>2, <2>3, <2>5, SpellsFacts, EnqueueSpells
  <2> HIDE DEF p
  <2>7. Lists(q, sleepHead', next') /\ Lists(w, waitHead', next')
    <3>1. /\ \A u \in Range(q) : u \in Thread /\ u # t /\ u \notin Range(r)
          /\ \A u \in Range(w) : u \in Thread /\ u # t /\ u \notin Range(r)
      BY <1>3, <2>4, SpellsFacts
    <3>2. /\ \A u \in Range(q) : next'[u] = nxt[u]
          /\ \A u \in Range(w) : next'[u] = nxt[u]
      BY <2>6, <3>1
    <3>3. Lists(q, sleepHead', next') /\ Lists(w, waitHead, next')
      BY <2>4, <2>5, <3>2, ListKept
    <3> QED
      BY <1>1, <3>3 DEF waitVars
  <2>8. Spelled(p, w, q, g)'
    BY <1>1, <2>6, <2>7, SpellsFacts DEF Spelled, waitVars, globalVars
  <2>9. Placed(p, w, q, g)'
    <3>1. Turns(t, "READY")
      BY <1>3, <1>7, SpellsFacts DEF Turns, SetState
    <3>2. current' = current /\ current \in Thread /\ Placed(r, w, s, g) /\ t \in Thread
      BY <1>1, <1>3, SpellsFacts DEF Spells
    <3>3. /\ \A u \in Thread : u \in Range(p) <=> IF u = t THEN TRUE ELSE u \in Range(r)
          /\ \A u \in Thread : u \in Range(w) <=> IF u = t THEN FALSE ELSE u \in Range(w)
          /\ \A u \in Thread : u \in Range(q) <=> IF u = t THEN FALSE ELSE u \in Range(s)
          /\ \A u \in Thread : u \in Range(g) <=> IF u = t THEN TRUE ELSE u \in Range(g)
      BY <1>3, <2>4, <2>6, <3>2 DEF Placed
    <3>4. /\ \A u \in Thread : state'[u] = "RUNNING" => u = current'
          /\ state'[current'] # "NONE"
      BY <3>1, <3>2 DEF Placed, Turns
    <3> QED
      BY <3>1, <3>2, <3>3, <3>4, MoveIsPlaced
  <2>10. Walking(p, q, g)'
    <3>1. walk'.loop = "sleepers" /\ walk'.cur = Nth(q, i) /\ walk'.prev = Prior(q, i)
      BY <1>1, <1>4, <1>7, <2>4
    <3>2. Nth(q, i) # Null => i \in 1 .. Len(q) /\ Nth(q, i) = q[i]
      <4>1. Len(q) \in Nat /\ Len(s) \in Nat
        BY <2>4, SpellsFacts, ListFacts
      <4> QED
        BY <1>2, <4>1 DEF Nth
    <3> QED
      BY <3>1, <3>2 DEF Walking
  <2>11. PointersOK'
    <3>1. state' \in [Thread -> {"NONE", "READY", "RUNNING", "BLOCKED",
                                 "IO_BLOCKED", "FINISHED"}]
      BY <1>7, SpellsFacts DEF SetState
    <3> QED
      BY <1>1, <1>4, <1>5, <1>7, <2>6, <3>1 DEF PointersOK, globalVars
  <2>12. Spells(p, w, q, g)'
    BY <2>8, <2>9, <2>10 DEF Spells
  <2> QED
    BY <1>2, <2>11, <2>12 DEF p, q
<1> QED
  BY <1>6, <1>7 DEF SleepersStep

\* gc_finished_threads frees the TCB it stands on, or passes it.
LEMMA GcStepSpells ==
  ASSUME PointersOK, NEW r, NEW w, NEW s, NEW g, Spells(r, w, s, g), GcStep
  PROVE  /\ PointersOK'
         /\ \/ Spells(r, w, s, g)'
            \/ \E k \in 1 .. Len(g) :
                 /\ Spells(r, w, s, RemoveAt(g, k))'
                 /\ Range(RemoveAt(g, k)) = Range(g) \ {g[k]}
                 /\ state[g[k]] = "FINISHED"
<1> SUFFICES ASSUME NEW t, t = walk.cur
             PROVE  /\ PointersOK'
                    /\ \/ Spells(r, w, s, g)'
                       \/ \E k \in 1 .. Len(g) :
                            /\ Spells(r, w, s, RemoveAt(g, k))'
                            /\ Range(RemoveAt(g, k)) = Range(g) \ {g[k]}
                            /\ state[g[k]] = "FINISHED"
  OBVIOUS
<1>1. /\ walk.loop = "gc" /\ t # Null
      /\ walk' = [walk EXCEPT !.cur = globalNext[t]]
      /\ UNCHANGED <<current, next, readyVars, waitVars, sleepHead>>
  BY DEF GcStep, At
<1>2. t \in Range(g)
  BY <1>1 DEF Spells, Walking
<1>3. PICK k \in 1 .. Len(g) : g[k] = t
  <2>1. Lists(g, globalHead, globalNext)
    BY SpellsFacts
  <2> QED
    BY <1>2, <2>1, ListFacts
<1>4. /\ t \in Thread /\ globalNext[t] \in Pointer
      /\ walk \in [loop : {"none", "remove", "sleepers", "gc"},
                   prev : Pointer, cur : Pointer, target : Pointer]
  BY <1>2, SpellsFacts DEF PointersOK
<1>5. walk' \in [loop : {"none", "remove", "sleepers", "gc"},
                 prev : Pointer, cur : Pointer, target : Pointer]
      /\ walk'.loop = "gc" /\ walk'.cur = globalNext[t]
  BY <1>1, <1>4
<1>6. Lists(g, globalHead, globalNext) /\ Len(g) \in Nat
  BY SpellsFacts, ListFacts
<1>7. CASE UNCHANGED <<state, globalVars>>
  <2>1. globalNext[t] = IF k + 1 <= Len(g) THEN g[k + 1] ELSE Null
    BY <1>3, <1>6 DEF Lists, Nth
  <2>2. k + 1 <= Len(g) => k + 1 \in 1 .. Len(g)
    BY <1>6
  <2>3. globalNext[t] # Null => globalNext[t] \in Range(g)
    BY <1>6, <2>1, <2>2, ListFacts
  <2>4. Walking(r, s, g)'
    BY <1>5, <2>3 DEF Walking
  <2>5. PointersOK'
    BY <1>1, <1>5, <1>7 DEF PointersOK, globalVars
  <2> QED
    BY <1>1, <1>7, <2>4, <2>5, ListsRest DEF Spells
<1>8. CASE /\ state[t] = "FINISHED" /\ t # current
           /\ GlobalRemove(t)
           /\ SetState(t, "NONE")
  <2> DEFINE h == RemoveAt(g, k)
  <2>1. /\ globalHead' = IF globalPrev[t] = Null THEN globalNext[t] ELSE globalHead
        /\ globalNext' = [u \in Thread |-> IF u = t THEN Null
                            ELSE IF u = globalPrev[t] THEN globalNext[t] ELSE globalNext[u]]
        /\ globalPrev' = [u \in Thread |-> IF u = t THEN Null
                            ELSE IF u = globalNext[t] THEN globalPrev[t] ELSE globalPrev[u]]
    BY <1>8 DEF GlobalRemove
  <2>2. Backs(g, globalPrev) /\ globalPrev[t] = Prior(g, k)
    BY <1>3, SpellsFacts DEF Backs
  <2>3. /\ globalNext' \in [Thread -> Pointer] /\ globalPrev' \in [Thread -> Pointer]
        /\ \A u \in Range(g) : u # g[k] =>
             /\ globalNext'[u] = IF u = Prior(g, k) THEN globalNext[g[k]] ELSE globalNext[u]
             /\ globalPrev'[u] = IF u = globalNext[g[k]] THEN globalPrev[g[k]]
                                 ELSE globalPrev[u]
    <3>1. /\ globalPrev[t] \in Pointer
          /\ \A u \in Range(g) : u \in Thread
      BY <1>4, SpellsFacts
    <3> QED
      BY <1>3, <1>4, <2>1, <2>2, <3>1, SpellsFacts DEF Pointer
  <2>4. /\ Lists(h, IF Prior(g, k) = Null THEN globalNext[g[k]] ELSE globalHead, globalNext')
        /\ Range(h) = Range(g) \ {g[k]}
        /\ Nth(h, k) = globalNext[g[k]]
    BY <1>6, <2>3, UnlinkFromList
  <2>5. Backs(h, globalPrev')
    BY <1>6, <2>2, <2>3, UnlinkBack
  <2> HIDE DEF h
  <2>6. Lists(h, globalHead', globalNext')
    BY <1>3, <2>1, <2>2, <2>4
  <2>7. /\ Lists(r, readyHead', next') /\ readyTail' = Final(r) /\ readyCount' = Len(r)
        /\ Lists(w, waitHead', next') /\ waitTail' = Final(w)
        /\ Lists(s, sleepHead', next')
    BY <1>1, SpellsFacts DEF readyVars, waitVars
  <2>8. Spelled(r, w, s, h)'
    BY <2>5, <2>6, <2>7 DEF Spelled
  <2>9. Placed(r, w, s, h)'
    <3>1. Turns(t, "NONE")
      BY <1>4, <1>8, SpellsFacts DEF Turns, SetState
    <3>2. current' = current /\ current \in Thread /\ Placed(r, w, s, g) /\ t \in Thread
      BY <1>1, <1>4, SpellsFacts DEF Spells
    <3>3. t \notin Range(r) /\ t \notin Range(w) /\ t \notin Range(s)
      BY <1>4, <1>8, SpellsFacts
    <3>4. /\ \A u \in Thread : u \in Range(r) <=> IF u = t THEN FALSE ELSE u \in Range(r)
          /\ \A u \in Thread : u \in Range(w) <=> IF u = t THEN FALSE ELSE u \in Range(w)
          /\ \A u \in Thread : u \in Range(s) <=> IF u = t THEN FALSE ELSE u \in Range(s)
          /\ \A u \in Thread : u \in Range(h) <=> IF u = t THEN FALSE ELSE u \in Range(g)
      BY <1>3, <2>4, <3>3
    <3>5. /\ \A u \in Thread : state'[u] = "RUNNING" => u = current'
          /\ state'[current'] # "NONE"
      BY <1>8, <3>1, <3>2 DEF Placed, Turns
    <3> QED
      BY <3>1, <3>2, <3>4, <3>5, MoveIsPlaced
  <2>10. Walking(r, s, h)'
    <3>1. Nth(h, k) # Null => k \in 1 .. Len(h) /\ Nth(h, k) = h[k]
      <4>1. Len(h) \in Nat
        BY <2>6, ListFacts
      <4> QED
        BY <1>6, <4>1 DEF Nth
    <3>2. Nth(h, k) # Null => Nth(h, k) \in Range(h)
      BY <2>6, <3>1, ListFacts
    <3> QED
      BY <1>3, <1>5, <2>4, <3>2 DEF Walking
  <2>11. PointersOK'
    <3>1. state' \in [Thread -> {"NONE", "READY", "RUNNING", "BLOCKED",
                                 "IO_BLOCKED", "FINISHED"}]
      BY <1>8, SpellsFacts DEF SetState
    <3> QED
      BY <1>1, <1>5, <2>3, <3>1 DEF PointersOK
  <2>12. Spells(r, w, s, h)'
    BY <2>8, <2>9, <2>10 DEF Spells
  <2> QED
    BY <1>3, <1>8, <2>4, <2>11, <2>12 DEF h
<1> QED
  BY <1>7, <1>8 DEF GcStep

-----------------------------------------------------------------------------
(* The invariant of every behaviour, and the abstract step of every step. *)

LEMMA InitSpells == Init => PointersOK /\ Spells(<<>>, <<>>, <<>>, <<First>>)
<1> SUFFICES ASSUME Init  PROVE  PointersOK /\ Spells(<<>>, <<>>, <<>>, <<First>>)
  OBVIOUS
<1>1. First \in Thread /\ Null \notin Thread
  BY ListAssumption
<1>2. PointersOK
  BY <1>1 DEF Init, PointersOK, Pointer, NoWalk
<1>3. Range(<<>>) = {} /\ IsInjective(<<>>)
  BY DEF Range, IsInjective
<1>4. Range(<<First>>) = {First} /\ IsInjective(<<First>>)
  BY DEF Range, IsInjective
<1>5. /\ Lists(<<>>, Null, next)
      /\ Final(<<>>) = Null
  BY <1>3 DEF Lists, Nth, Final
<1>6. Lists(<<First>>, First, globalNext)
  <2>1. globalNext[First] = Null
    BY <1>1 DEF Init
  <2>2. <<First>> \in Seq(Thread) /\ Len(<<First>>) = 1 /\ <<First>>[1] = First
    BY <1>1
  <2> QED
    BY <1>4, <2>1, <2>2 DEF Lists, Nth
<1>7. Backs(<<First>>, globalPrev)
  BY <1>1 DEF Init, Backs, Prior
<1>8. Spelled(<<>>, <<>>, <<>>, <<First>>)
  BY <1>5, <1>6, <1>7 DEF Init, Spelled
<1>9. Placed(<<>>, <<>>, <<>>, <<First>>)
  BY <1>1, <1>3, <1>4 DEF Init, Placed
<1> QED
  BY <1>2, <1>8, <1>9 DEF Init, Spells, Walking, NoWalk

\* How the sequences of a step follow from those of the state before it.
QueueStep(r, w, s, g, p, q, o, h) ==
  \/ \E t \in Thread :
       /\ t \notin Range(g) \cup Range(r) \cup Range(w) \cup Range(s)
       /\ p = Append(r, t) /\ q = w /\ o = s /\ Range(h) = Range(g) \cup {t}
  \/ \E t \in Range(g) \ (Range(r) \cup Range(w) \cup Range(s)) :
       \/ p = r /\ q = w /\ o = s /\ Range(h) = Range(g) \ {t}
       \/ p = Append(r, t) /\ q = w /\ o = s /\ h = g
       \/ p = r /\ q = Append(w, t) /\ o = s /\ h = g
       \/ p = r /\ q = w /\ o = <<t>> \o s /\ h = g
  \/ /\ w # <<>>
     /\ p = Append(r, Head(w)) /\ q = Tail(w) /\ o = s /\ h = g
  \/ \E i \in 1 .. Len(r) : p = RemoveAt(r, i) /\ q = w /\ o = s /\ h = g
  \/ \E i \in 1 .. Len(s) :
       p = Append(r, s[i]) /\ q = w /\ o = RemoveAt(s, i) /\ h = g
  \/ p = r /\ q = w /\ o = s /\ h = g

LEMMA StepSpells ==
  ASSUME PointersOK, NEW r, NEW w, NEW s, NEW g, Spells(r, w, s, g),
         [ListNext]_listVars
  PROVE  /\ PointersOK'
         /\ \E p, q, o, h : /\ QueueStep(r, w, s, g, p, q, o, h)
                            /\ Spells(p, q, o, h)'
<1> SUFFICES PointersOK' /\ \E p, q, o, h : /\ QueueStep(r, w, s, g, p, q, o, h)
                                            /\ Spells(p, q, o, h)'
  OBVIOUS
<1>1. CASE UNCHANGED listVars \/ Exit \/ RemoveStep \/ SleepersBegin \/ GcBegin \/ WalkEnd
           \/ \E t \in Thread : RemoveBegin(t)
  <2>1. PointersOK' /\ Spells(r, w, s, g)'
    <3>1. CASE UNCHANGED listVars
      <4>1. UNCHANGED <<state, current, next, readyVars, waitVars, sleepHead, globalVars, walk>>
        BY <3>1 DEF listVars
      <4>2. PointersOK' /\ Walking(r, s, g)'
        BY <4>1 DEF PointersOK, globalVars, Spells, Walking
      <4> QED
        BY <4>1, <4>2, ListsRest DEF Spells
    <3> QED
      BY <1>1, <3>1, ExitSpells, RemoveStepSpells, LoopBeginSpells, WalkEndSpells,
         RemoveBeginSpells
  <2>2. QueueStep(r, w, s, g, r, w, s, g)
    BY DEF QueueStep
  <2> QED
    BY <2>1, <2>2
<1>2. /\ \A t \in Range(r) : t \in Thread /\ state[t] = "READY"
      /\ \A t \in Range(w) : t \in Thread /\ state[t] = "BLOCKED"
      /\ \A t \in Range(s) : t \in Thread /\ state[t] = "IO_BLOCKED"
      /\ \A t \in Range(g) : t \in Thread /\ state[t] # "NONE"
      /\ \A t \in Thread : state[t] # "NONE" => t \in Range(g)
      /\ current \in Thread
  BY SpellsFacts DEF Spells, Placed
<1>3. ASSUME NEW t \in Thread, Create(t)
      PROVE  PointersOK' /\ \E p, q, o, h : /\ QueueStep(r, w, s, g, p, q, o, h)
                                            /\ Spells(p, q, o, h)'
  <2> DEFINE h == <<t>> \o g
             p == Append(r, t)
  <2>1. PointersOK' /\ Spells(p, w, s, h)'
    BY <1>3, CreateSpells
  <2>2. state[t] = "NONE"
    BY <1>3 DEF Create
  <2>3. t \notin Range(g) \cup Range(r) \cup Range(w) \cup Range(s)
    BY <1>2, <2>2
  <2>4. Range(h) = Range(g) \cup {t}
    <3>1. Lists(g, globalHead, globalNext)
      BY SpellsFacts
    <3>2. t \notin Range(g)
      BY <2>3
    <3> QED
      BY <3>1, <3>2, ConsRange
  <2> HIDE DEF h
  <2>5. QueueStep(r, w, s, g, p, w, s, h)
    BY <2>3, <2>4 DEF QueueStep
  <2> HIDE DEF p
  <2> QED
    BY <2>1, <2>5
<1>4. ASSUME NEW t, t = current, state[t] = "RUNNING"
      PROVE  t \in Range(g) \ (Range(r) \cup Range(w) \cup Range(s))
  BY <1>2, <1>4
<1>5. CASE Requeue
  <2>1. PICK t : t = current
    OBVIOUS
  <2> DEFINE p == Append(r, t)
  <2>2. PointersOK' /\ Spells(p, w, s, g)'
    BY <1>5, <2>1, RequeueSpells
  <2>3. QueueStep(r, w, s, g, p, w, s, g)
    <3>1. t \in Range(g) \ (Range(r) \cup Range(w) \cup Range(s))
      BY <1>4, <1>5, <2>1 DEF Requeue, Running
    <3> QED
      BY <3>1 DEF QueueStep
  <2> HIDE DEF p
  <2> QED
    BY <2>2, <2>3
<1>6. CASE Block
  <2>1. PICK t : t = current
    OBVIOUS
  <2> DEFINE q == Append(w, t)
  <2>2. PointersOK' /\ Spells(r, q, s, g)'
    BY <1>6, <2>1, BlockSpells
  <2>3. QueueStep(r, w, s, g, r, q, s, g)
    <3>1. t \in Range(g) \ (Range(r) \cup Range(w) \cup Range(s))
      BY <1>4, <1>6, <2>1 DEF Block, Running
    <3> QED
      BY <3>1 DEF QueueStep
  <2> HIDE DEF q
  <2> QED
    BY <2>2, <2>3
<1>7. CASE Sleep
  <2>1. PICK t : t = current
    OBVIOUS
  <2> DEFINE o == <<t>> \o s
  <2>2. PointersOK' /\ Spells(r, w, o, g)'
    BY <1>7, <2>1, SleepSpells
  <2>3. QueueStep(r, w, s, g, r, w, o, g)
    <3>1. t \in Range(g) \ (Range(r) \cup Range(w) \cup Range(s))
      BY <1>4, <1>7, <2>1 DEF Sleep, Running
    <3> QED
      BY <3>1 DEF QueueStep
  <2> HIDE DEF o
  <2> QED
    BY <2>2, <2>3
<1>8. CASE Unblock
  <2>1. PICK t : t = waitHead
    OBVIOUS
  <2> DEFINE p == Append(r, t)
             q == Tail(w)
  <2>2. /\ PointersOK' /\ Spells(p, q, s, g)'
        /\ w # <<>> /\ t = Head(w)
    BY <1>8, <2>1, UnblockSpells
  <2>3. QueueStep(r, w, s, g, p, q, s, g)
    BY <2>2 DEF QueueStep
  <2> HIDE DEF p, q
  <2> QED
    BY <2>2, <2>3
<1>9. CASE Dequeue \/ RemoveFound
  <2>1. PointersOK'
    BY <1>9, DequeueSpells, RemoveFoundSpells
  <2>2. PICK i \in 1 .. Len(r) : Spells(RemoveAt(r, i), w, s, g)'
    BY <1>9, DequeueSpells, RemoveFoundSpells
  <2> DEFINE p == RemoveAt(r, i)
  <2>3. QueueStep(r, w, s, g, p, w, s, g)
    BY DEF QueueStep
  <2> HIDE DEF p
  <2> QED
    BY <2>1, <2>2, <2>3 DEF p
<1>10. CASE SleepersStep
  <2>1. /\ PointersOK'
        /\ \/ Spells(r, w, s, g)'
           \/ \E i \in 1 .. Len(s) : Spells(Append(r, s[i]), w, RemoveAt(s, i), g)'
    BY <1>10, SleepersStepSpells
  <2>2. CASE Spells(r, w, s, g)'
    BY <2>1, <2>2 DEF QueueStep
  <2>3. ASSUME NEW i \in 1 .. Len(s), Spells(Append(r, s[i]), w, RemoveAt(s, i), g)'
        PROVE  \E p, q, o, h : QueueStep(r, w, s, g, p, q, o, h) /\ Spells(p, q, o, h)'
    <3> DEFINE p == Append(r, s[i])
               o == RemoveAt(s, i)
    <3>1. QueueStep(r, w, s, g, p, w, o, g)
      BY DEF QueueStep
    <3>2. Spells(p, w, o, g)'
      BY <2>3
    <3> HIDE DEF p, o
    <3> QED
      BY <3>1, <3>2
  <2> QED
    BY <2>1, <2>2, <2>3
<1>11. CASE GcStep
  <2>1. /\ PointersOK'
        /\ \/ Spells(r, w, s, g)'
           \/ \E k \in 1 .. Len(g) :
                /\ Spells(r, w, s, RemoveAt(g, k))'
                /\ Range(RemoveAt(g, k)) = Range(g) \ {g[k]}
                /\ state[g[k]] = "FINISHED"
    BY <1>11, GcStepSpells
  <2>2. CASE Spells(r, w, s, g)'
    BY <2>1, <2>2 DEF QueueStep
  <2>3. ASSUME NEW k \in 1 .. Len(g), Spells(r, w, s, RemoveAt(g, k))',
               Range(RemoveAt(g, k)) = Range(g) \ {g[k]}, state[g[k]] = "FINISHED"
        PROVE  \E p, q, o, h : QueueStep(r, w, s, g, p, q, o, h) /\ Spells(p, q, o, h)'
    <3> DEFINE h == RemoveAt(g, k)
               t == g[k]
    <3>1. t \in Range(g)
      BY SpellsFacts, ListFacts
    <3>2. Range(h) = Range(g) \ {t} /\ state[t] = "FINISHED" /\ Spells(r, w, s, h)'
      BY <2>3
    <3> HIDE DEF h, t
    <3>3. t \in Range(g) \ (Range(r) \cup Range(w) \cup Range(s))
      BY <1>2, <3>1, <3>2
    <3>4. QueueStep(r, w, s, g, r, w, s, h)
      BY <3>2, <3>3 DEF QueueStep
    <3> QED
      BY <3>2, <3>4
  <2> QED
    BY <2>1, <2>2, <2>3
<1> QED
  BY <1>1, <1>3, <1>5, <1>6, <1>7, <1>8, <1>9, <1>10, <1>11 DEF ListNext

LEMMA ReadSequences ==
  ASSUME ListInv
  PROVE  PointersOK /\ Spells(Ready, Waiting, Sleeping, Global)
BY DEF ListInv

\* Whatever sequences the links spell after a step, they are the ones read.
LEMMA ReadAfter ==
  ASSUME NEW p, NEW q, NEW o, NEW h, PointersOK', Spells(p, q, o, h)'
  PROVE  /\ p = Ready' /\ q = Waiting' /\ o = Sleeping' /\ h = Global'
         /\ ListInv'
<1>1. Ready' = p /\ Waiting' = q /\ Sleeping' = o /\ Global' = h
  BY SpelledAreRead DEF Spells
<1>2. Spells(Ready, Waiting, Sleeping, Global)'
  BY <1>1
<1> QED
  BY <1>1, <1>2 DEF ListInv

LEMMA ListStep ==
  ASSUME ListInv, [ListNext]_listVars
  PROVE  /\ ListInv'
         /\ QueueStep(Ready, Waiting, Sleeping, Global,
                      Ready', Waiting', Sleeping', Global')
<1>1. PICK r, w, s, g : r = Ready /\ w = Waiting /\ s = Sleeping /\ g = Global
  OBVIOUS
<1>2. PointersOK /\ Spells(r, w, s, g)
  BY <1>1 DEF ListInv
<1>3. PointersOK' /\ \E p, q, o, h : QueueStep(r, w, s, g, p, q, o, h)
                                     /\ Spells(p, q, o, h)'
  BY <1>2, StepSpells
<1>4. PICK p, q, o, h : QueueStep(r, w, s, g, p, q, o, h) /\ Spells(p, q, o, h)'
  BY <1>3
<1> QED
  BY <1>1, <1>3, <1>4, ReadAfter

LEMMA ListInitially == Init => ListInv /\ Ready = <<>> /\ Waiting = <<>>
                               /\ Sleeping = <<>> /\ Global = <<First>>
<1> SUFFICES ASSUME Init
             PROVE  ListInv /\ Ready = <<>> /\ Waiting = <<>>
                    /\ Sleeping = <<>> /\ Global = <<First>>
  OBVIOUS
<1>1. PointersOK /\ Spells(<<>>, <<>>, <<>>, <<First>>)
  BY InitSpells
<1>2. Ready = <<>> /\ Waiting = <<>> /\ Sleeping = <<>> /\ Global = <<First>>
  BY <1>1, SpelledAreRead DEF Spells
<1> QED
  BY <1>1, <1>2 DEF ListInv

\* The links always spell out four sequences without repetition, apart where
\* they share a field, and a loop over a list always stands on that list.
THEOREM ListInvariant == ListSpec => []ListInv
<1>1. Init => ListInv
  BY ListInitially
<1>2. ListInv /\ [ListNext]_listVars => ListInv'
  BY ListStep
<1> QED
  BY <1>1, <1>2, PTL DEF ListSpec

\* ready_count and the tail that enqueue links from agree with the links of the
\* ready list, whatever was taken from its front, its middle or its end.
THEOREM ReadyCountSound == ListSpec => []ReadyCounted
<1>1. ListInv => ReadyCounted
  <2> SUFFICES ASSUME ListInv  PROVE  ReadyCounted
    OBVIOUS
  <2>1. /\ Lists(Ready, readyHead, next) /\ readyTail = Final(Ready)
        /\ readyCount = Len(Ready)
    BY SpellsFacts DEF ListInv
  <2> DEFINE r == Ready
  <2>2. /\ r \in Seq(Thread) /\ Len(r) \in Nat /\ DOMAIN r = 1 .. Len(r)
        /\ r # <<>> <=> Len(r) > 0
    BY <2>1, ListFacts
  <2>3. Cardinality(DOMAIN r) = Len(r)
    BY <2>2, CountTo
  <2>4. readyTail = IF readyCount = 0 THEN Null ELSE r[readyCount]
    BY <2>1, <2>2 DEF Final
  <2> QED
    BY <2>1, <2>3, <2>4 DEF ReadyCounted
<1> QED
  BY <1>1, ListInvariant, PTL

\* gc_finished_threads and uthread_create keep both directions of the global
\* list in agreement, and the list holds every TCB that was not freed.
THEOREM GlobalListSound == ListSpec => []GlobalLinked
<1>1. ListInv => GlobalLinked
  <2> SUFFICES ASSUME ListInv  PROVE  GlobalLinked
    OBVIOUS
  <2> DEFINE g == Global
  <2>1. /\ Lists(g, globalHead, globalNext) /\ Backs(g, globalPrev)
        /\ \A t \in Range(g) : t \in Thread /\ state[t] # "NONE"
    BY SpellsFacts DEF ListInv
  <2>2. \A t \in Thread : state[t] # "NONE" => t \in Range(g)
    BY DEF ListInv, Spells, Placed
  <2>3. Range(g) = {t \in Thread : state[t] # "NONE"}
    BY <2>1, <2>2
  <2>4. Follow(globalHead, globalNext) = g
    BY DEF Global
  <2> HIDE DEF g
  <2>5. ASSUME NEW t \in Range(g)
        PROVE  /\ globalPrev[t] = Null <=> t = globalHead
               /\ globalPrev[t] # Null => globalNext[globalPrev[t]] = t
    <3>1. PICK k \in 1 .. Len(g) : g[k] = t
      BY <2>1, <2>5, ListFacts
    <3>2. /\ Len(g) \in Nat /\ Len(g) > 0
          /\ \A i \in 1 .. Len(g) : g[i] # Null
          /\ \A i, j \in 1 .. Len(g) : g[i] = g[j] => i = j
      BY <2>1, <3>1, ListFacts
    <3>3. /\ globalPrev[t] = Prior(g, k)
          /\ globalHead = Nth(g, 1)
          /\ \A i \in 1 .. Len(g) : globalNext[g[i]] = Nth(g, i + 1)
      BY <2>1, <3>1 DEF Backs, Lists
    <3>4. 1 \in 1 .. Len(g) /\ globalHead = g[1]
      BY <3>2, <3>3 DEF Nth
    <3>5. CASE k = 1
      BY <3>1, <3>3, <3>4, <3>5 DEF Prior
    <3>6. CASE k # 1
      <4>1. k > 1 /\ k - 1 \in 1 .. Len(g) /\ (k - 1) + 1 = k /\ k <= Len(g)
        BY <3>2, <3>6
      <4>2. globalPrev[t] = g[k - 1] /\ globalPrev[t] # Null /\ t # globalHead
        BY <3>1, <3>2, <3>3, <3>4, <3>6, <4>1 DEF Prior
      <4>3. globalNext[g[k - 1]] = g[k]
        BY <3>3, <4>1 DEF Nth
      <4> QED
        BY <3>1, <4>2, <4>3
    <3> QED
      BY <3>5, <3>6
  <2> QED
    BY <2>3, <2>4, <2>5 DEF GlobalLinked
<1> QED
  BY <1>1, ListInvariant, PTL

LEMMA StepIsQueueStep ==
  ASSUME ListInv, [ListNext]_listVars
  PROVE  [Queues!Next]_<<Ready, Follow(waitHead, next), Follow(sleepHead, next),
                         Range(Follow(globalHead, globalNext))>>
<1>1. PICK r, w, s, g : r = Ready /\ w = Waiting /\ s = Sleeping /\ g = Global
  OBVIOUS
<1>2. PICK p, q, o, h : p = Ready' /\ q = Waiting' /\ o = Sleeping' /\ h = Global'
  OBVIOUS
<1>3. QueueStep(r, w, s, g, p, q, o, h)
  BY <1>1, <1>2, ListStep
<1>4. /\ Ready = r /\ Follow(waitHead, next) = w /\ Follow(sleepHead, next) = s
      /\ Range(Follow(globalHead, globalNext)) = Range(g)
      /\ Ready' = p /\ Follow(waitHead, next)' = q /\ Follow(sleepHead, next)' = o
      /\ Range(Follow(globalHead, globalNext))' = Range(h)
  BY <1>1, <1>2 DEF Waiting, Sleeping, Global
<1>5. /\ \A x : Queues!Range(x) = Range(x)
      /\ \A x, i : Queues!RemoveAt(x, i) = RemoveAt(x, i)
  BY DEF Queues!Range, Range, Queues!RemoveAt, RemoveAt
<1>6. /\ Range(g) \subseteq Thread
      /\ DOMAIN r = 1 .. Len(r) /\ DOMAIN s = 1 .. Len(s)
  <2>1. PointersOK /\ Spells(r, w, s, g)
    BY <1>1 DEF ListInv
  <2>2. /\ Lists(r, readyHead, next) /\ Lists(s, sleepHead, next)
        /\ Range(g) \subseteq Thread
    BY <2>1, SpellsFacts
  <2>3. r \in Seq(Thread) /\ s \in Seq(Thread)
    BY <2>2 DEF Lists
  <2> QED
    BY <2>2, <2>3
<1>7. ASSUME NEW t \in Thread,
             t \notin Range(g) \cup Range(r) \cup Range(w) \cup Range(s),
             p = Append(r, t), q = w, o = s, Range(h) = Range(g) \cup {t}
      PROVE  Queues!Next
  <2>1. Queues!Create(t)
    BY <1>4, <1>5, <1>7 DEF Queues!Create, Queues!Free
  <2> QED
    BY <2>1 DEF Queues!Next
<1>8. ASSUME NEW t \in Range(g) \ (Range(r) \cup Range(w) \cup Range(s)),
             \/ p = r /\ q = w /\ o = s /\ Range(h) = Range(g) \ {t}
             \/ p = Append(r, t) /\ q = w /\ o = s /\ h = g
             \/ p = r /\ q = Append(w, t) /\ o = s /\ h = g
             \/ p = r /\ q = w /\ o = <<t>> \o s /\ h = g
      PROVE  Queues!Next
  <2>1. t \in Thread
    BY <1>6, <1>8
  <2>2. Queues!Free(t)
    BY <1>4, <1>5, <1>8 DEF Queues!Free
  <2>3. Queues!Reclaim(t) \/ Queues!Queue(t) \/ Queues!Block(t) \/ Queues!Sleep(t)
    BY <1>4, <1>5, <1>8, <2>2 DEF Queues!Reclaim, Queues!Queue, Queues!Block, Queues!Sleep
  <2> QED
    BY <2>1, <2>3 DEF Queues!Next
<1>9. CASE w # <<>> /\ p = Append(r, Head(w)) /\ q = Tail(w) /\ o = s /\ h = g
  <2>1. Queues!Unblock
    BY <1>4, <1>9 DEF Queues!Unblock
  <2> QED
    BY <2>1 DEF Queues!Next
<1>10. ASSUME NEW i \in 1 .. Len(r), p = RemoveAt(r, i), q = w, o = s, h = g
       PROVE  Queues!Next
  <2>1. Queues!Take(i)
    BY <1>4, <1>5, <1>10 DEF Queues!Take
  <2> QED
    BY <1>4, <1>6, <2>1 DEF Queues!Next
<1>11. ASSUME NEW i \in 1 .. Len(s),
              p = Append(r, s[i]), q = w, o = RemoveAt(s, i), h = g
       PROVE  Queues!Next
  <2>1. Queues!Wake(i)
    BY <1>4, <1>5, <1>11 DEF Queues!Wake
  <2> QED
    BY <1>4, <1>6, <2>1 DEF Queues!Next
<1>12. CASE p = r /\ q = w /\ o = s /\ h = g
  BY <1>4, <1>12
<1> QED
  BY <1>3, <1>7, <1>8, <1>9, <1>10, <1>11, <1>12 DEF QueueStep

\* Every operation on the pointers is one of ThreadQueues: threads join a queue
\* at its end, leave it from the place the operation means, and no other queue
\* changes, although three of the lists share one field and the loops of
\* check_sleep_list and gc_finished_threads unlink what they stand on.
THEOREM ListsAreQueues == ListSpec => QueuesImplemented
<1>1. ListInv /\ [ListNext]_listVars
        => [Queues!Next]_<<Ready, Follow(waitHead, next), Follow(sleepHead, next),
                           Range(Follow(globalHead, globalNext))>>
  BY StepIsQueueStep
<1>2. Init => Queues!Init
  <2> SUFFICES ASSUME Init  PROVE  Queues!Init
    OBVIOUS
  <2>1. Range(<<First>>) = {First}
    BY DEF Range
  <2> QED
    BY <2>1, ListInitially DEF Waiting, Sleeping, Global, Queues!Init
<1> QED
  BY <1>1, <1>2, ListInvariant, PTL DEF ListSpec, QueuesImplemented, Queues!Spec

=============================================================================
