------------------------ MODULE FiberSchedulerProofs ------------------------
(***************************************************************************)
(* Proofs about FiberScheduler, for every number of fibers and tokens,     *)
(* every wait and every use of the host API: the types (TypeOK), that no   *)
(* fiber is lost or doubled (OnePlace), that a result is reported once     *)
(* (FinishedOnce), that the host's ledger of pending operations is exact   *)
(* (IoLedger), that waits are as asked (WaitsAsAsked), and that the status *)
(* run_ready returns is true (StatusTruthful).                             *)
(***************************************************************************)
EXTENDS FiberScheduler, FiniteSetTheorems, SequenceTheorems, TLAPS

Queue == Seq(QueueEntry)

\* How often fiber u is in a queue.
Count(queue, u) == Cardinality(InQueue(queue, u))

-----------------------------------------------------------------------------
(* What the operations on queues do to the count of a fiber.               *)

LEMMA QueueSets ==
    ASSUME NEW q \in Queue, NEW u
    PROVE  /\ DOMAIN q = 1..Len(q) /\ Len(q) \in Nat
           /\ InQueue(q, u) \subseteq 1..Len(q)
           /\ IsFiniteSet(InQueue(q, u))
           /\ Count(q, u) \in Nat
           /\ Count(q, u) = 0 <=> \A i \in DOMAIN q : q[i].fiber.uid # u
<1>1. DOMAIN q = 1..Len(q) /\ Len(q) \in Nat
  BY LenProperties DEF Queue
<1>2. InQueue(q, u) \subseteq 1..Len(q)
  BY <1>1 DEF InQueue
<1>3. IsFiniteSet(InQueue(q, u))
  <2>1. IsFiniteSet(1..Len(q))
    BY <1>1, FS_Interval
  <2>2. InQueue(q, u) \in SUBSET (1..Len(q))
    BY <1>2
  <2> QED
    BY <2>1, <2>2, FS_Subset
<1>4. Count(q, u) \in Nat /\ (Count(q, u) = 0 <=> InQueue(q, u) = {})
  BY <1>3, FS_CardinalityType, FS_EmptySet DEF Count
<1> QED
  BY <1>1, <1>2, <1>3, <1>4 DEF InQueue

LEMMA CountOfSame ==
    ASSUME NEW q \in Queue, NEW r \in Queue, NEW u,
           Len(q) = Len(r), \A i \in 1..Len(q) : q[i].fiber.uid = r[i].fiber.uid
    PROVE  Count(q, u) = Count(r, u)
<1>1. InQueue(q, u) = InQueue(r, u)
  BY QueueSets DEF InQueue
<1> QED
  BY <1>1 DEF Count

LEMMA CountOfOne ==
    ASSUME NEW e \in QueueEntry, NEW u
    PROVE  Count(<<e>>, u) = IF e.fiber.uid = u THEN 1 ELSE 0
<1>1. CASE e.fiber.uid = u
  <2>1. InQueue(<<e>>, u) = {1}
    BY <1>1 DEF InQueue
  <2> QED
    BY <1>1, <2>1, FS_Singleton DEF Count
<1>2. CASE e.fiber.uid # u
  <2>1. InQueue(<<e>>, u) = {}
    BY <1>2 DEF InQueue
  <2> QED
    BY <1>2, <2>1, FS_EmptySet DEF Count
<1> QED
  BY <1>1, <1>2

LEMMA CountOfConcat ==
    ASSUME NEW q \in Queue, NEW r \in Queue, NEW u
    PROVE  /\ q \o r \in Queue
           /\ Count(q \o r, u) = Count(q, u) + Count(r, u)
<1> DEFINE behind == {Len(q) + i : i \in InQueue(r, u)}
           shift == [i \in InQueue(r, u) |-> Len(q) + i]
<1>1. /\ q \o r \in Queue /\ Len(q \o r) = Len(q) + Len(r)
      /\ \A i \in 1..(Len(q) + Len(r)) :
            (q \o r)[i] = IF i <= Len(q) THEN q[i] ELSE r[i - Len(q)]
  BY ConcatProperties DEF Queue
<1>2. InQueue(q \o r, u) = InQueue(q, u) \cup behind
  <2>1. ASSUME NEW i PROVE i \in InQueue(q \o r, u) <=> i \in InQueue(q, u) \cup behind
    <3>1. i \in InQueue(q \o r, u) =>
              i \in 1..(Len(q) + Len(r)) /\ (q \o r)[i].fiber.uid = u
      BY <1>1, QueueSets DEF InQueue
    <3>2. i \in InQueue(q, u) <=> i \in 1..Len(q) /\ q[i].fiber.uid = u
      BY QueueSets DEF InQueue
    <3>3. i \in behind <=> \E j \in 1..Len(r) : i = Len(q) + j /\ r[j].fiber.uid = u
      BY QueueSets DEF InQueue
    <3>4. i \in 1..(Len(q) + Len(r)) /\ (q \o r)[i].fiber.uid = u => i \in InQueue(q \o r, u)
      BY <1>1, QueueSets DEF InQueue
    <3>5. i \in InQueue(q \o r, u) => i \in InQueue(q, u) \cup behind
      <4> SUFFICES ASSUME i \in InQueue(q \o r, u) PROVE i \in InQueue(q, u) \cup behind
        OBVIOUS
      <4>1. CASE i <= Len(q)
        BY <4>1, <1>1, <3>1, <3>2, QueueSets
      <4>2. CASE ~(i <= Len(q))
        <5>1. i - Len(q) \in 1..Len(r) /\ i = Len(q) + (i - Len(q))
          BY <4>2, <3>1, QueueSets
        <5> QED
          BY <4>2, <5>1, <1>1, <3>1, <3>3
      <4> QED
        BY <4>1, <4>2
    <3>6. i \in InQueue(q, u) => i \in InQueue(q \o r, u)
      BY <1>1, <3>2, <3>4, QueueSets
    <3>7. i \in behind => i \in InQueue(q \o r, u)
      BY <1>1, <3>3, <3>4, QueueSets
    <3> QED
      BY <3>5, <3>6, <3>7
  <2> QED
    BY <2>1
<1>3. InQueue(q, u) \cap behind = {}
  BY QueueSets
<1>4. IsFiniteSet(behind) /\ Cardinality(behind) = Count(r, u)
  <2>1. shift \in Bijection(InQueue(r, u), behind)
    BY QueueSets DEF Bijection, Injection, Surjection, IsInjective
  <2> QED
    BY <2>1, FS_Bijection, QueueSets DEF ExistsBijection, Count
<1>5. Cardinality(InQueue(q, u) \cup behind) = Count(q, u) + Count(r, u) - 0
  <2>1. IsFiniteSet(InQueue(q, u)) /\ Cardinality(InQueue(q, u)) = Count(q, u)
    BY QueueSets DEF Count
  <2>2. Cardinality(InQueue(q, u) \cup behind) =
            Cardinality(InQueue(q, u)) + Cardinality(behind)
            - Cardinality(InQueue(q, u) \cap behind)
    BY <2>1, <1>4, FS_Union
  <2> QED
    BY <2>1, <2>2, <1>3, <1>4, FS_EmptySet
<1> QED
  BY <1>1, <1>2, <1>5, QueueSets DEF Count

LEMMA CountOfAppend ==
    ASSUME NEW q \in Queue, NEW e \in QueueEntry, NEW u
    PROVE  /\ Append(q, e) \in Queue
           /\ Count(Append(q, e), u) = Count(q, u) + (IF e.fiber.uid = u THEN 1 ELSE 0)
<1>1. Append(q, e) = q \o <<e>> /\ <<e>> \in Queue
  BY AppendIsConcat DEF Queue
<1> QED
  BY <1>1, CountOfConcat, CountOfOne

LEMMA Joined ==
    ASSUME NEW q \in Queue, NEW r \in Queue
    PROVE  /\ q \o r \in Queue
           /\ Len(q \o r) = Len(q) + Len(r)
           /\ \A j \in 1..Len(q) : (q \o r)[j] = q[j]
           /\ \A j \in 1..Len(r) : (q \o r)[Len(q) + j] = r[j]
<1>1. /\ q \o r \in Queue /\ Len(q \o r) = Len(q) + Len(r)
      /\ \A i \in 1..(Len(q) + Len(r)) :
            (q \o r)[i] = IF i <= Len(q) THEN q[i] ELSE r[i - Len(q)]
  BY ConcatProperties DEF Queue
<1>2. ASSUME NEW j \in 1..Len(q) PROVE (q \o r)[j] = q[j]
  BY <1>1, QueueSets
<1>3. ASSUME NEW j \in 1..Len(r) PROVE (q \o r)[Len(q) + j] = r[j]
  <2>1. /\ Len(q) + j \in 1..(Len(q) + Len(r)) /\ ~(Len(q) + j <= Len(q))
        /\ (Len(q) + j) - Len(q) = j
    BY QueueSets
  <2> QED
    BY <1>1, <2>1
<1> QED
  BY <1>1, <1>2, <1>3

LEMMA Sliced ==
    ASSUME NEW q \in Queue, NEW m \in 1..(Len(q) + 1), NEW n \in (m - 1)..Len(q)
    PROVE  /\ SubSeq(q, m, n) \in Queue
           /\ Len(SubSeq(q, m, n)) = n - m + 1
           /\ \A j \in 1..(n - m + 1) : SubSeq(q, m, n)[j] = q[m + j - 1]
<1>1. Len(q) \in Nat /\ m \in Int /\ n \in Int
  BY QueueSets
<1>2. \A j \in m..n : q[j] \in QueueEntry
  BY <1>1, ElementOfSeq DEF Queue
<1>3. /\ SubSeq(q, m, n) \in Seq(QueueEntry)
      /\ Len(SubSeq(q, m, n)) = IF m <= n THEN n - m + 1 ELSE 0
      /\ \A j \in 1..(n - m + 1) : SubSeq(q, m, n)[j] = q[m + j - 1]
  BY <1>1, <1>2, SubSeqProperties
<1>4. (IF m <= n THEN n - m + 1 ELSE 0) = n - m + 1
  BY <1>1
<1> QED
  BY <1>3, <1>4 DEF Queue

\* Taking out entry i: remove_at, and pop_front for i = 1.
LEMMA CountOfRemoveAt ==
    ASSUME NEW q \in Queue, NEW i \in 1..Len(q), NEW u
    PROVE  /\ RemoveAt(q, i) \in Queue
           /\ Count(RemoveAt(q, i), u) = Count(q, u) - (IF q[i].fiber.uid = u THEN 1 ELSE 0)
           /\ \A j \in DOMAIN RemoveAt(q, i) : \E k \in DOMAIN q : RemoveAt(q, i)[j] = q[k]
<1> DEFINE before == SubSeq(q, 1, i - 1)
           after == SubSeq(q, i + 1, Len(q))
           front == before \o <<q[i]>>
           whole == front \o after
<1>1. /\ Len(q) \in Nat /\ DOMAIN q = 1..Len(q)
      /\ q[i] \in QueueEntry /\ <<q[i]>> \in Queue
  BY QueueSets, ElementOfSeq DEF Queue
<1>2. /\ before \in Queue /\ Len(before) = i - 1
      /\ \A j \in 1..(i - 1) : before[j] = q[j]
  <2>1. 1 \in 1..(Len(q) + 1) /\ i - 1 \in (1 - 1)..Len(q) /\ (i - 1) - 1 + 1 = i - 1
    BY <1>1
  <2>2. /\ before \in Queue /\ Len(before) = (i - 1) - 1 + 1
        /\ \A j \in 1..((i - 1) - 1 + 1) : before[j] = q[1 + j - 1]
    BY <2>1, Sliced
  <2>3. \A j \in 1..(i - 1) : 1 + j - 1 = j
    BY <1>1
  <2> HIDE DEF before
  <2> QED
    BY <2>1, <2>2, <2>3
<1>3. /\ after \in Queue /\ Len(after) = Len(q) - i
      /\ \A j \in 1..(Len(q) - i) : after[j] = q[i + j]
  <2>1. /\ i + 1 \in 1..(Len(q) + 1) /\ Len(q) \in ((i + 1) - 1)..Len(q)
        /\ Len(q) - (i + 1) + 1 = Len(q) - i
    BY <1>1
  <2>2. /\ after \in Queue /\ Len(after) = Len(q) - (i + 1) + 1
        /\ \A j \in 1..(Len(q) - (i + 1) + 1) : after[j] = q[(i + 1) + j - 1]
    BY <2>1, Sliced
  <2>3. \A j \in 1..(Len(q) - i) : (i + 1) + j - 1 = i + j
    BY <1>1
  <2> HIDE DEF after
  <2> QED
    BY <2>1, <2>2, <2>3
<1> HIDE DEF before, after, front, whole
<1>4. /\ front \in Queue /\ Len(front) = i
      /\ \A j \in 1..i : front[j] = q[j]
  <2>1. Len(<<q[i]>>) = 1 /\ <<q[i]>>[1] = q[i]
    OBVIOUS
  <2>2. /\ front \in Queue /\ Len(front) = Len(before) + Len(<<q[i]>>)
        /\ \A j \in 1..Len(before) : front[j] = before[j]
        /\ \A j \in 1..Len(<<q[i]>>) : front[Len(before) + j] = <<q[i]>>[j]
    BY <1>1, <1>2, Joined DEF front
  <2>3. front[i] = q[i]
    <3>1. 1 \in 1..Len(<<q[i]>>) /\ Len(before) + 1 = i
      BY <1>1, <1>2, <2>1
    <3> QED
      BY <2>1, <2>2, <3>1
  <2>4. ASSUME NEW j \in 1..(i - 1) PROVE front[j] = q[j]
    BY <1>2, <2>2
  <2>5. \A j \in 1..i : j = i \/ j \in 1..(i - 1)
    BY <1>1
  <2> QED
    BY <1>1, <1>2, <2>1, <2>2, <2>3, <2>4, <2>5
<1>5. Count(q, u) = Count(before, u) + (IF q[i].fiber.uid = u THEN 1 ELSE 0) + Count(after, u)
  <2>1. /\ whole \in Queue /\ Len(whole) = Len(front) + Len(after)
        /\ \A j \in 1..Len(front) : whole[j] = front[j]
        /\ \A j \in 1..Len(after) : whole[Len(front) + j] = after[j]
    BY <1>3, <1>4, Joined DEF whole
  <2>2. Len(whole) = Len(q)
    BY <1>1, <1>3, <1>4, <2>1
  <2>3. ASSUME NEW j \in 1..Len(q) PROVE whole[j] = q[j]
    <3>1. CASE j <= i
      BY <3>1, <1>1, <1>4, <2>1
    <3>2. CASE ~(j <= i)
      <4>1. j - i \in 1..(Len(q) - i) /\ i + (j - i) = j
        BY <3>2, <1>1
      <4>2. whole[Len(front) + (j - i)] = after[j - i]
        BY <4>1, <1>3, <2>1
      <4>3. after[j - i] = q[i + (j - i)]
        BY <4>1, <1>3
      <4> QED
        BY <4>1, <4>2, <4>3, <1>4
    <3> QED
      BY <3>1, <3>2
  <2>4. Count(whole, u) = Count(q, u)
    BY <2>1, <2>2, <2>3, CountOfSame
  <2>5. Count(whole, u) = Count(front, u) + Count(after, u)
    BY <1>3, <1>4, CountOfConcat DEF whole
  <2>6. Count(front, u) = Count(before, u) + (IF q[i].fiber.uid = u THEN 1 ELSE 0)
    BY <1>1, <1>2, CountOfConcat, CountOfOne DEF front
  <2> QED
    BY <2>4, <2>5, <2>6
<1>6. /\ RemoveAt(q, i) = before \o after
      /\ RemoveAt(q, i) \in Queue /\ Len(RemoveAt(q, i)) = (i - 1) + (Len(q) - i)
      /\ Count(RemoveAt(q, i), u) = Count(before, u) + Count(after, u)
      /\ \A k \in 1..(i - 1) : RemoveAt(q, i)[k] = before[k]
      /\ \A k \in 1..(Len(q) - i) : RemoveAt(q, i)[(i - 1) + k] = after[k]
  <2>1. RemoveAt(q, i) = before \o after
    BY DEF RemoveAt, before, after
  <2>2. /\ before \o after \in Queue /\ Len(before \o after) = Len(before) + Len(after)
        /\ \A k \in 1..Len(before) : (before \o after)[k] = before[k]
        /\ \A k \in 1..Len(after) : (before \o after)[Len(before) + k] = after[k]
    BY <1>2, <1>3, Joined
  <2>3. Count(before \o after, u) = Count(before, u) + Count(after, u)
    BY <1>2, <1>3, CountOfConcat
  <2> QED
    BY <1>2, <1>3, <2>1, <2>2, <2>3
<1>7. ASSUME NEW j \in DOMAIN RemoveAt(q, i)
      PROVE  \E k \in DOMAIN q : RemoveAt(q, i)[j] = q[k]
  <2>1. j \in 1..((i - 1) + (Len(q) - i))
    BY <1>6, <1>7, QueueSets
  <2>2. CASE j <= i - 1
    <3>1. j \in 1..(i - 1) /\ j \in 1..Len(q)
      BY <2>1, <2>2, <1>1
    <3> QED
      BY <3>1, <1>1, <1>2, <1>6
  <2>3. CASE ~(j <= i - 1)
    <3>1. /\ j - (i - 1) \in 1..(Len(q) - i) /\ (i - 1) + (j - (i - 1)) = j
          /\ i + (j - (i - 1)) \in 1..Len(q)
      BY <2>1, <2>3, <1>1
    <3> QED
      BY <3>1, <1>1, <1>3, <1>6
  <2> QED
    BY <2>2, <2>3
<1>8. Count(before, u) \in Nat /\ Count(after, u) \in Nat
  BY <1>2, <1>3, QueueSets
<1> QED
  BY <1>5, <1>6, <1>7, <1>8

LEMMA CountOfTail ==
    ASSUME NEW q \in Queue, q # <<>>, NEW u
    PROVE  /\ Head(q) \in QueueEntry /\ Head(q) = q[1] /\ 1 \in DOMAIN q
           /\ Tail(q) \in Queue
           /\ Count(Tail(q), u) = Count(q, u) - (IF Head(q).fiber.uid = u THEN 1 ELSE 0)
           /\ \A j \in DOMAIN Tail(q) : \E k \in DOMAIN q : Tail(q)[j] = q[k]
<1>1. 1 \in 1..Len(q) /\ Head(q) \in QueueEntry /\ Head(q) = q[1]
  BY EmptySeq, HeadTailProperties DEF Queue
<1>2. Tail(q) = SubSeq(q, 2, Len(q))
  BY TailIsSubSeq DEF Queue
<1>3. RemoveAt(q, 1) = <<>> \o SubSeq(q, 2, Len(q))
  BY SubSeqEmpty DEF RemoveAt
<1>4. Tail(q) \in Queue /\ RemoveAt(q, 1) = Tail(q)
  BY <1>2, <1>3, ConcatEmptySeq, HeadTailProperties DEF Queue
<1>5. DOMAIN q = 1..Len(q)
  BY QueueSets
<1>6. /\ Count(RemoveAt(q, 1), u) = Count(q, u) - (IF q[1].fiber.uid = u THEN 1 ELSE 0)
      /\ \A j \in DOMAIN RemoveAt(q, 1) : \E k \in DOMAIN q : RemoveAt(q, 1)[j] = q[k]
  BY <1>1, CountOfRemoveAt
<1> QED
  BY <1>1, <1>4, <1>5, <1>6

-----------------------------------------------------------------------------
(* Picked(queue, P): the entries at the positions of P, each once.         *)

\* The rank of a position in P is a bijection from P to 1..Cardinality(P).
LEMMA RankIsBijection ==
    ASSUME NEW n \in Nat, NEW P \in SUBSET (1..n)
    PROVE  /\ IsFiniteSet(P) /\ Cardinality(P) \in Nat
           /\ \A i \in P : Rank(P, i) \in 1..Cardinality(P)
           /\ \A i, j \in P : i < j => Rank(P, i) < Rank(P, j)
           /\ \A i, j \in P : Rank(P, i) = Rank(P, j) => i = j
           /\ \A k \in 1..Cardinality(P) : \E i \in P : Rank(P, i) = k
<1> DEFINE upTo(i) == {j \in P : j <= i}
           rank == [i \in P |-> Rank(P, i)]
<1>0. \A i \in P : i \in Int
  OBVIOUS
<1>1. IsFiniteSet(P) /\ Cardinality(P) \in Nat
  <2>1. IsFiniteSet(1..n)
    BY FS_Interval
  <2> QED
    BY <2>1, FS_Subset, FS_CardinalityType
<1>2. ASSUME NEW i \in P
      PROVE  IsFiniteSet(upTo(i)) /\ Rank(P, i) \in 1..Cardinality(P)
  <2>1. upTo(i) \in SUBSET P /\ i \in upTo(i)
    OBVIOUS
  <2>2. IsFiniteSet(upTo(i)) /\ Cardinality(upTo(i)) <= Cardinality(P)
    BY <1>1, <2>1, FS_Subset
  <2>3. Cardinality(upTo(i)) \in Nat /\ Cardinality(upTo(i)) # 0
    BY <2>1, <2>2, FS_CardinalityType, FS_EmptySet
  <2> QED
    BY <1>1, <2>2, <2>3 DEF Rank
<1>3. ASSUME NEW i \in P, NEW j \in P, i < j PROVE Rank(P, i) < Rank(P, j)
  <2>1. upTo(i) \in SUBSET upTo(j)
    <3> SUFFICES ASSUME NEW x \in upTo(i) PROVE x \in upTo(j)
      OBVIOUS
    <3>1. x \in P /\ x <= i /\ x \in Int /\ i \in Int /\ j \in Int
      BY <1>0
    <3> QED
      BY <1>3, <3>1
  <2>2. upTo(i) # upTo(j)
    <3>1. j \in upTo(j) /\ j \notin upTo(i)
      BY <1>3
    <3> QED
      BY <3>1
  <2>3. Cardinality(upTo(i)) <= Cardinality(upTo(j)) /\ Cardinality(upTo(i)) # Cardinality(upTo(j))
    BY <1>2, <2>1, <2>2, FS_Subset
  <2>4. Cardinality(upTo(i)) \in Nat /\ Cardinality(upTo(j)) \in Nat
    BY <1>2, FS_CardinalityType
  <2> QED
    BY <2>3, <2>4 DEF Rank
<1>4. \A i, j \in P : Rank(P, i) = Rank(P, j) => i = j
  <2> SUFFICES ASSUME NEW i \in P, NEW j \in P, Rank(P, i) = Rank(P, j) PROVE i = j
    OBVIOUS
  <2>1. i \in Int /\ j \in Int /\ Rank(P, i) \in Int
    <3>1. Rank(P, i) \in 1..Cardinality(P)
      BY <1>2
    <3> QED
      BY <1>0, <1>1, <3>1
  <2>2. ~(i < j) /\ ~(j < i)
    <3>1. Rank(P, i) < Rank(P, j) => FALSE
      BY <2>1
    <3>2. Rank(P, j) < Rank(P, i) => FALSE
      BY <2>1
    <3> QED
      BY <1>3, <3>1, <3>2
  <2> QED
    BY <2>1, <2>2
<1>5. rank \in Surjection(P, 1..Cardinality(P))
  <2>1. rank \in Injection(P, 1..Cardinality(P))
    BY <1>2, <1>4 DEF Injection, IsInjective
  <2>2. IsFiniteSet(1..Cardinality(P)) /\ Cardinality(1..Cardinality(P)) = Cardinality(P)
    BY <1>1, FS_Interval
  <2> QED
    BY <2>1, <2>2, FS_Injection
<1> QED
  BY <1>1, <1>2, <1>3, <1>4, <1>5 DEF Surjection

LEMMA LeastElement ==
    ASSUME NEW n \in Nat, NEW P \in SUBSET (1..n), P # {}
    PROVE  \E i \in P : \A j \in P : i <= j
<1>1. /\ Cardinality(P) \in Nat /\ Cardinality(P) # 0
      /\ \A i \in P : i \in Int /\ Rank(P, i) \in 1..Cardinality(P)
      /\ \A i, j \in P : i < j => Rank(P, i) < Rank(P, j)
  <2>1. \A i \in P : i \in Int
    OBVIOUS
  <2> QED
    BY <2>1, RankIsBijection, FS_EmptySet
<1>2. PICK i \in P : Rank(P, i) = 1
  <2>1. 1 \in 1..Cardinality(P)
    BY <1>1
  <2> QED
    BY <2>1, RankIsBijection
<1>3. ASSUME NEW j \in P PROVE i <= j
  <2>1. CASE j < i
    <3>1. Rank(P, j) < 1 /\ Rank(P, j) \in 1..Cardinality(P)
      BY <1>1, <1>2, <2>1
    <3> QED
      BY <1>1, <3>1
  <2> QED
    BY <1>1, <2>1
<1> QED
  BY <1>3

LEMMA PickedPositions ==
    ASSUME NEW q \in Queue, NEW P \in SUBSET DOMAIN q
    PROVE  \E pos \in [1..Cardinality(P) -> P] :
              /\ Cardinality(P) \in Nat
              /\ \A k, l \in 1..Cardinality(P) : pos[k] = pos[l] => k = l
              /\ \A i \in P : \E k \in 1..Cardinality(P) : pos[k] = i
              /\ Picked(q, P) = [k \in 1..Cardinality(P) |-> q[pos[k]]]
<1> DEFINE at(k) == CHOOSE i \in P : Rank(P, i) = k
           pos == [k \in 1..Cardinality(P) |-> at(k)]
<1>1. Len(q) \in Nat /\ P \in SUBSET (1..Len(q))
  BY QueueSets
<1>2. /\ Cardinality(P) \in Nat
      /\ \A i \in P : Rank(P, i) \in 1..Cardinality(P)
      /\ \A i, j \in P : Rank(P, i) = Rank(P, j) => i = j
      /\ \A k \in 1..Cardinality(P) : \E i \in P : Rank(P, i) = k
  BY <1>1, RankIsBijection
<1>3. ASSUME NEW k \in 1..Cardinality(P) PROVE at(k) \in P /\ Rank(P, at(k)) = k
  BY <1>2
<1>4. ASSUME NEW i \in P PROVE at(Rank(P, i)) = i
  BY <1>2, <1>3
<1>5. pos \in [1..Cardinality(P) -> P] /\ \A k \in 1..Cardinality(P) : pos[k] = at(k)
  BY <1>3
<1>6. \A k, l \in 1..Cardinality(P) : pos[k] = pos[l] => k = l
  BY <1>3, <1>5
<1>7. \A i \in P : \E k \in 1..Cardinality(P) : pos[k] = i
  BY <1>2, <1>4, <1>5
<1>8. Picked(q, P) = [k \in 1..Cardinality(P) |-> q[pos[k]]]
  BY <1>5 DEF Picked
<1> QED
  BY <1>2, <1>5, <1>6, <1>7, <1>8

LEMMA CountOfPicked ==
    ASSUME NEW q \in Queue, NEW P \in SUBSET DOMAIN q, NEW u
    PROVE  /\ Picked(q, P) \in Queue
           /\ \A k \in DOMAIN Picked(q, P) : \E i \in P : Picked(q, P)[k] = q[i]
           /\ Count(Picked(q, P), u) = Cardinality(InQueue(q, u) \cap P)
<1> DEFINE n == Cardinality(P)
           r == Picked(q, P)
<1>1. PICK pos \in [1..n -> P] :
         /\ n \in Nat
         /\ \A k, l \in 1..n : pos[k] = pos[l] => k = l
         /\ \A i \in P : \E k \in 1..n : pos[k] = i
         /\ r = [k \in 1..n |-> q[pos[k]]]
  BY PickedPositions
<1>2. \A i \in P : i \in DOMAIN q /\ q[i] \in QueueEntry
  BY QueueSets, ElementOfSeq DEF Queue
<1>3. r \in [1..n -> QueueEntry] /\ \A k \in 1..n : pos[k] \in P /\ r[k] = q[pos[k]]
  BY <1>1, <1>2
<1>4. r \in Queue
  BY <1>1, <1>3, SeqDef DEF Queue
<1>5. \A k \in DOMAIN r : \E i \in P : r[k] = q[i]
  BY <1>3
<1> DEFINE move == [k \in InQueue(r, u) |-> pos[k]]
<1>6. ASSUME NEW k PROVE k \in InQueue(r, u) <=> k \in 1..n /\ q[pos[k]].fiber.uid = u
  BY <1>3 DEF InQueue
<1>7. move \in Bijection(InQueue(r, u), InQueue(q, u) \cap P)
  <2>1. ASSUME NEW k \in InQueue(r, u) PROVE move[k] \in InQueue(q, u) \cap P
    BY <1>2, <1>3, <1>6 DEF InQueue
  <2>2. \A k, l \in InQueue(r, u) : move[k] = move[l] => k = l
    BY <1>1, <1>6
  <2>3. ASSUME NEW i \in InQueue(q, u) \cap P PROVE \E k \in InQueue(r, u) : move[k] = i
    <3>1. q[i].fiber.uid = u
      BY DEF InQueue
    <3>2. PICK k \in 1..n : pos[k] = i
      BY <1>1
    <3> QED
      BY <1>6, <3>1, <3>2
  <2> QED
    BY <2>1, <2>2, <2>3 DEF Bijection, Injection, Surjection, IsInjective
<1>8. Cardinality(InQueue(q, u) \cap P) = Cardinality(InQueue(r, u))
  BY <1>4, <1>7, FS_Bijection, QueueSets DEF ExistsBijection
<1> QED
  BY <1>4, <1>5, <1>8 DEF Count

\* A queue split in two keeps every entry.
LEMMA CountOfSplit ==
    ASSUME NEW q \in Queue, NEW P \in SUBSET DOMAIN q, NEW u
    PROVE  Count(q, u) = Count(Picked(q, P), u) + Count(Picked(q, DOMAIN q \ P), u)
<1> DEFINE inside == InQueue(q, u) \cap P
           outside == InQueue(q, u) \cap (DOMAIN q \ P)
<1>1. Count(Picked(q, P), u) = Cardinality(inside)
  BY CountOfPicked
<1>2. Count(Picked(q, DOMAIN q \ P), u) = Cardinality(outside)
  BY CountOfPicked
<1>3. inside \in SUBSET InQueue(q, u) /\ outside \in SUBSET InQueue(q, u)
  OBVIOUS
<1>4. IsFiniteSet(inside) /\ IsFiniteSet(outside)
  BY <1>3, QueueSets, FS_Subset
<1>5. /\ Cardinality(inside \cup outside) =
            Cardinality(inside) + Cardinality(outside) - Cardinality(inside \cap outside)
      /\ Cardinality(inside) \in Nat /\ Cardinality(outside) \in Nat
  BY <1>4, FS_Union, FS_CardinalityType
<1>6. inside \cap outside = {} /\ inside \cup outside = InQueue(q, u)
  BY DEF InQueue
<1> QED
  <2>1. Cardinality(inside \cap outside) = 0 /\ Cardinality(inside \cup outside) = Count(q, u)
    BY <1>6, FS_EmptySet DEF Count
  <2> QED
    BY <1>1, <1>2, <1>5, <2>1

-----------------------------------------------------------------------------
(* The inductive invariant, in named parts.                                *)

\* How many operations fiber u is parked on.
Waits(p, u) == Cardinality({t \in DOMAIN p : p[t].fiber.uid = u})

\* A fiber that can still run has frames and is one of those created.
Live(f) == f.frames /\ f.uid \in Uid

\* Every queue holds live fibers only, and what executes is live.
HoldersOK ==
    /\ Executing => fiber.frames
    /\ fiber.frames => fiber.uid \in Uid
    /\ \A i \in DOMAIN saved : saved[i].fiber.frames => saved[i].fiber.uid \in Uid
    /\ \A i \in DOMAIN ready : Live(ready[i].fiber)
    /\ \A i \in DOMAIN suspended : Live(suspended[i].fiber)
    /\ \A t \in DOMAIN parked : Live(parked[t].fiber)

\* A FiberId is left for every fiber still to come.
RoomOK == nextId + Cardinality(Unborn) <= MaxFibers + 2

\* Tokens are given out in order, and the one noted by last_pending was not
\* parked on yet.
LedgerOK ==
    /\ IoLedger
    /\ \A t \in told : t < nextToken
    /\ lastPending < nextToken /\ lastPending \notin told

\* What run_ready executes is Running.  A main fiber with frames that it passes
\* by or sets aside was left suspended by a synchronous call; none is Parked.
DrainOK ==
    /\ fiber.state # "Parked"
    /\ \A i \in DOMAIN saved : saved[i].fiber.state # "Parked"
    /\ control \in {"main", "ready"} => fiber.state = "Running"
    /\ control = "drain" /\ fiber.frames => fiber.state = "Suspended"
    /\ control = "ready" /\ saved[1].fiber.frames => saved[1].fiber.state = "Suspended"

\* What wait() asked for is the time slept and the time still on the timer.  (A
\* timer may be left over from a wait a synchronous call was made over.)
Sleeps(f) == f.asked > 0 => f.timer > 0 /\ f.slept + f.timer = f.asked
Awake(f) == f.asked = 0 /\ f.slept = 0
SleepOK ==
    /\ Executing \/ ~fiber.frames => Awake(fiber)
    /\ \A i \in DOMAIN saved : ~saved[i].fiber.frames => Awake(saved[i].fiber)
    /\ \A i \in DOMAIN ready : ready[i].fiber.slept >= ready[i].fiber.asked
    /\ \A i \in DOMAIN suspended : Sleeps(suspended[i].fiber)
    /\ \A t \in DOMAIN parked : Awake(parked[t].fiber)

\* All but the ledger, which only AwaitStep needs.
FiberInv == TypeOK /\ HoldersOK /\ RoomOK /\ OnePlace /\ NoFalseReport /\ DrainOK /\ SleepOK

\* Only a host that uses interpret and call has fibers end that it is not told of.
EndOK ==
    /\ control = "sync" => Sync
    /\ ~Sync => \A u \in Uid : fate[u] = "finished" => Reported(u)

IInv == FiberInv /\ LedgerOK /\ EndOK

-----------------------------------------------------------------------------
(* The reports of the fibers that ran to their end.                        *)

LEMMA EndInit == Init => EndOK
BY DEF Init, EndOK

LEMMA EndStep ==
    ASSUME FiberInv, EndOK, [Next]_vars
    PROVE  EndOK'
<1>1. /\ fate \in [Uid -> {"unborn", "alive", "finished", "cancelled", "discarded"}]
      /\ finished \in Seq([id : FiberId, uid : Uid]) /\ currentId \in FiberId
      /\ Executing => fiber.uid \in Uid
  BY DEF FiberInv, TypeOK, HoldersOK, Live
<1>2. ASSUME UNCHANGED finished, control' = "sync" => Sync,
             \A u \in Uid : fate'[u] = "finished" => fate[u] = "finished"
      PROVE  EndOK'
  BY <1>2 DEF EndOK, Reported
<1>3. CASE Load \/ SpawnClosure \/ Interpret \/ CallIn \/ Spawn
  <2>1. \A u \in Uid : fate'[u] = "finished" => fate[u] = "finished"
    BY <1>1, <1>3 DEF Load, SpawnClosure, Interpret, CallIn, Spawn, BornOver, Born
  <2>2. UNCHANGED finished /\ (control' = "sync" => Sync)
    BY <1>3 DEF Load, SpawnClosure, Interpret, CallIn, Spawn, EndOK, queues
  <2> QED
    BY <1>2, <2>1, <2>2
<1>4. ASSUME NEW id \in FiberId, CancelFiber(id) PROVE EndOK'
  <2>1. UNCHANGED <<finished, control>> /\ \E e : fate' = CancelledAt(e)
    BY <1>4 DEF CancelFiber
  <2>2. \A u \in Uid : fate'[u] = "finished" => fate[u] = "finished"
    BY <1>1, <2>1 DEF CancelledAt
  <2> QED
    BY <1>2, <2>1, <2>2 DEF EndOK
<1>5. CASE Finish
  <2>1. CASE control = "sync"
    BY <1>5, <2>1 DEF Finish, ReturnToHost, EndOK
  <2>2. CASE control # "sync"
    <3> DEFINE r == [id |-> currentId, uid |-> fiber.uid]
               R == [id : FiberId, uid : Uid]
    <3>1. /\ finished' = Append(finished, r) /\ control' = "drain"
          /\ fate' = [fate EXCEPT ![fiber.uid] = "finished"]
      BY <1>5, <2>2 DEF Finish, Release, Report
    <3>2. fiber.uid \in Uid
      BY <1>1, <1>5 DEF Finish, MayDo
    <3>3. r \in R /\ r.uid = fiber.uid
      BY <1>1, <3>2
    <3> HIDE DEF r, R
    <3>4. /\ Len(finished) \in Nat /\ DOMAIN finished = 1..Len(finished)
          /\ DOMAIN finished' = 1..(Len(finished) + 1)
          /\ \A i \in 1..Len(finished) : finished'[i] = finished[i]
          /\ finished'[Len(finished) + 1] = r
      BY <1>1, <3>1, <3>3, AppendProperties, LenProperties DEF R
    <3>5. ASSUME NEW u \in Uid, Reported(u) \/ u = fiber.uid PROVE Reported(u)'
      BY <3>3, <3>4, <3>5 DEF Reported
    <3>6. \A u \in Uid : fate'[u] = "finished" => u = fiber.uid \/ fate[u] = "finished"
      BY <1>1, <3>1
    <3> QED
      BY <3>1, <3>5, <3>6 DEF EndOK
  <2> QED
    BY <2>1, <2>2
<1>6. CASE Fail
  <2>1. \A u \in Uid : fate'[u] = "finished" => fate[u] = "finished"
    BY <1>1, <1>6 DEF Fail
  <2> QED
    BY <1>2, <1>6, <2>1 DEF Fail, queues
<1>7. CASE UNCHANGED <<finished, fate>> /\ control' \in {control, "host", "begin", "main", "drain", "ready"}
  BY <1>2, <1>7 DEF EndOK
<1>8. CASE (\E t \in Token : Resume(t)) \/ (\E dt \in Deltas : Promote(dt))
  BY <1>7, <1>8 DEF Resume, Promote
<1>9. CASE RunReady
  BY <1>7, <1>9 DEF RunReady, StartMain, SkipMain, TakeReady, EndRun, queues
<1>10. CASE CallPending \/ PushValue \/ AwaitValue \/ AwaitPending \/ AwaitPendingSync
  BY <1>7, <1>10
     DEF CallPending, PushValue, AwaitValue, AwaitPending, AwaitPendingSync, Release, ReturnToHost, queues
<1>11. CASE Yield \/ \E d \in 0..MaxWait : Wait(d)
  BY <1>7, <1>11 DEF Yield, Wait, Suspend, Release, ReturnToHost
<1>12. CASE UNCHANGED vars
  BY <1>7, <1>12 DEF vars, queues
<1> QED
  BY <1>3, <1>4, <1>5, <1>6, <1>8, <1>9, <1>10, <1>11, <1>12
     DEF Next, Host, Script, Leave

-----------------------------------------------------------------------------
(* The ledger of pending operations.                                       *)

LEMMA LedgerInit == Init => LedgerOK
BY DEF Init, LedgerOK, IoLedger, None

LEMMA LedgerStep ==
    ASSUME TypeOK, LedgerOK, [Next]_vars
    PROVE  LedgerOK'
<1> USE DEF LedgerOK, IoLedger, None
<1>1. /\ nextToken \in 1..(MaxTokens + 1) /\ told \subseteq Token /\ settled \subseteq told
      /\ lastPending \in 0..MaxTokens /\ MaxTokens \in Nat
  BY BoundsAssumption DEF TypeOK
<1>2. 0 \notin Token /\ \A t \in Token : t \in Int /\ t # 0
  BY DEF Token
<1>3. ASSUME NEW t \in Token, Resume(t) PROVE LedgerOK'
  BY <1>1, <1>3 DEF Resume, Without, counters
<1>4. ASSUME NEW id \in FiberId, CancelFiber(id) PROVE LedgerOK'
  <2>1. CASE UNCHANGED <<parked, settled>>
    BY <1>1, <1>4, <2>1 DEF CancelFiber, counters
  <2>2. ASSUME NEW t \in DOMAIN parked, parked' = AfterCancel(t), settled' = SettledByCancel(t)
        PROVE  LedgerOK'
    BY <1>1, <1>4, <2>2 DEF CancelFiber, AfterCancel, SettledByCancel, Without, counters
  <2> QED
    BY <1>4, <2>1, <2>2 DEF CancelFiber
<1>5. CASE CallPending
  <2>1. /\ lastPending' = nextToken /\ nextToken' = nextToken + 1
        /\ UNCHANGED <<told, settled, parked>>
    BY <1>5 DEF CallPending, queues
  <2>2. \A t \in told : t \in Int /\ t < nextToken
    BY <1>1, <1>2
  <2>3. nextToken < nextToken' /\ nextToken \notin told /\ \A t \in told : t < nextToken'
    BY <1>1, <2>1, <2>2
  <2> QED
    BY <2>1, <2>3
<1>6. CASE AwaitPending
  <2>1. /\ lastPending # 0 /\ told' = told \cup {lastPending} /\ lastPending' = 0
        /\ parked' = Put(lastPending, Entry(currentId, [fiber EXCEPT !.state = "Parked"]))
        /\ UNCHANGED <<settled, nextToken>>
    BY <1>6 DEF AwaitPending, ToldOfPending, PendingTaken, counters
  <2>2. DOMAIN parked' = DOMAIN parked \cup {lastPending}
    BY <2>1 DEF Put
  <2>3. told' \ settled' = DOMAIN parked'
    BY <1>1, <2>1, <2>2
  <2>4. 0 \notin told' /\ 0 < nextToken' /\ \A t \in told' : t < nextToken'
    BY <1>1, <1>2, <2>1
  <2> QED
    BY <2>1, <2>3, <2>4
<1>7. CASE AwaitPendingSync
  BY <1>1, <1>2, <1>7 DEF AwaitPendingSync, PendingTaken, counters, queues
<1>8. CASE UNCHANGED <<told, settled, parked, lastPending, nextToken>>
  BY <1>8
<1>9. CASE Load \/ SpawnClosure \/ Interpret \/ CallIn \/ \E dt \in Deltas : Promote(dt)
  BY <1>8, <1>9 DEF Load, SpawnClosure, Interpret, CallIn, Promote, queues, counters, io
<1>10. CASE RunReady
  BY <1>8, <1>10 DEF RunReady, StartMain, SkipMain, TakeReady, EndRun, queues, counters, io
<1>11. CASE Spawn \/ PushValue \/ AwaitValue \/ Fail
  BY <1>8, <1>11 DEF Spawn, PushValue, AwaitValue, Fail, queues, counters, io
<1>12. CASE Yield \/ Finish \/ \E d \in 0..MaxWait : Wait(d)
  BY <1>8, <1>12 DEF Yield, Wait, Finish, Suspend, queues, counters, io
<1>13. CASE UNCHANGED vars
  BY <1>8, <1>13 DEF vars, queues, counters, io
<1> QED
  BY <1>3, <1>4, <1>5, <1>6, <1>7, <1>9, <1>10, <1>11, <1>12, <1>13
     DEF Next, Host, Script, Leave

-----------------------------------------------------------------------------
(* Who holds what.                                                         *)

LEMMA NewUidFresh == Unborn # {} => NewUid \in Uid /\ fate[NewUid] = "unborn"
<1> SUFFICES ASSUME Unborn # {} PROVE NewUid \in Unborn
  BY DEF Unborn
<1>1. Unborn \in SUBSET (1..MaxFibers) /\ MaxFibers \in Nat
  BY BoundsAssumption DEF Unborn, Uid
<1>2. \E u \in Unborn : \A v \in Unborn : u <= v
  BY <1>1, LeastElement
<1> QED
  BY <1>2 DEF NewUid

\* The first entry of a fiber id, as VecDeque::position finds it.
LEMMA FirstIsThere ==
    ASSUME NEW q \in Queue, NEW id, PositionsOf(q, id) # {}
    PROVE  FirstOf(q, id) \in 1..Len(q)
<1>1. Len(q) \in Nat /\ PositionsOf(q, id) \in SUBSET (1..Len(q))
  BY QueueSets DEF PositionsOf
<1>2. \E i \in PositionsOf(q, id) : \A j \in PositionsOf(q, id) : i <= j
  BY <1>1, LeastElement
<1> QED
  BY <1>1, <1>2 DEF FirstOf

\* What Promote makes of ready and suspended.
LEMMA PromoteQueues ==
    ASSUME TypeOK, NEW dt \in Deltas, Promote(dt)
    PROVE  /\ ready' \in Queue /\ suspended' \in Queue
           /\ \A i \in DOMAIN ready' :
                 \/ \E j \in DOMAIN ready : ready'[i] = ready[j]
                 \/ \E j \in DueAt(dt) : ready'[i] = Promoted(suspended[j], dt)
           /\ \A i \in DOMAIN suspended' :
                 \E j \in DOMAIN suspended \ DueAt(dt) : suspended'[i] = Ticked(suspended[j], dt)
           /\ \A u : Count(ready', u) + Count(suspended', u) = Count(ready, u) + Count(suspended, u)
<1> DEFINE due == Picked(suspended, DueAt(dt))
           others == Picked(suspended, DOMAIN suspended \ DueAt(dt))
           promoted == [i \in DOMAIN due |-> Promoted(due[i], dt)]
<1>1. /\ ready \in Queue /\ suspended \in Queue
      /\ DueAt(dt) \in SUBSET DOMAIN suspended
      /\ dt \in Nat /\ MaxWait \in Nat
  BY BoundsAssumption, DeltasAssumption DEF TypeOK, Queue, DueAt
<1>2. /\ due \in Queue /\ others \in Queue
      /\ \A k \in DOMAIN due : \E i \in DueAt(dt) : due[k] = suspended[i]
      /\ \A k \in DOMAIN others : \E i \in DOMAIN suspended \ DueAt(dt) : others[k] = suspended[i]
  <2>1. (DOMAIN suspended \ DueAt(dt)) \in SUBSET DOMAIN suspended
    OBVIOUS
  <2> QED
    BY <1>1, <2>1, CountOfPicked
<1>3. ready' = ready \o promoted /\ suspended' = [i \in DOMAIN others |-> Ticked(others[i], dt)]
  BY DEF Promote
<1>4. \A j \in DOMAIN suspended : suspended[j] \in QueueEntry
  BY <1>1, QueueSets, ElementOfSeq DEF Queue
<1>5. ASSUME NEW e \in QueueEntry
      PROVE  /\ SleptOn(e, dt) \in QueueEntry /\ SleptOn(e, dt).fiber.uid = e.fiber.uid
             /\ SleptOn(e, dt).fiber.timer = e.fiber.timer
             /\ Promoted(e, dt) \in QueueEntry /\ Promoted(e, dt).fiber.uid = e.fiber.uid
  <2>1. /\ e.fiber \in Fiber /\ e.id \in FiberId
        /\ e.fiber.slept \in 0..MaxWait /\ e.fiber.timer \in 0..MaxWait
    BY DEF QueueEntry, Fiber
  <2>2. Lesser(e.fiber.slept + dt, MaxWait) \in 0..MaxWait /\ 0 \in 0..MaxWait
    BY <1>1, <2>1 DEF Lesser
  <2> DEFINE slept == IF e.fiber.asked = 0 THEN 0 ELSE Lesser(e.fiber.slept + dt, MaxWait)
  <2>3. SleptOn(e, dt) = [e EXCEPT !.fiber = [e.fiber EXCEPT !.slept = slept]]
    BY DEF SleptOn, QueueEntry, Fiber
  <2>4. slept \in 0..MaxWait
    BY <2>2
  <2> HIDE DEF slept
  <2>5. [e.fiber EXCEPT !.slept = slept] \in Fiber
    BY <2>1, <2>4 DEF Fiber
  <2>6. SleptOn(e, dt) \in QueueEntry
    BY <2>1, <2>3, <2>5 DEF QueueEntry
  <2>7. /\ SleptOn(e, dt).fiber = [e.fiber EXCEPT !.slept = slept]
        /\ SleptOn(e, dt).fiber.uid = e.fiber.uid /\ SleptOn(e, dt).fiber.timer = e.fiber.timer
    BY <2>1, <2>3 DEF QueueEntry, Fiber
  <2>8. Promoted(e, dt) \in QueueEntry /\ Promoted(e, dt).fiber.uid = SleptOn(e, dt).fiber.uid
    BY <2>2, <2>6 DEF QueueEntry, Fiber, Promoted
  <2> QED
    BY <2>6, <2>7, <2>8
<1>6. ASSUME NEW e \in QueueEntry, ~Due(e, dt)
      PROVE  Ticked(e, dt) \in QueueEntry /\ Ticked(e, dt).fiber.uid = e.fiber.uid
  <2> DEFINE s == SleptOn(e, dt)
  <2>1. s \in QueueEntry /\ s.fiber.uid = e.fiber.uid /\ s.fiber.timer = e.fiber.timer
    BY <1>5
  <2>2. s.fiber.timer - dt \in 0..MaxWait
    BY <1>1, <1>6, <2>1 DEF QueueEntry, Fiber, Due
  <2>3. Ticked(e, dt) = [s EXCEPT !.fiber.timer = s.fiber.timer - dt]
    BY <2>1 DEF Ticked, QueueEntry, Fiber
  <2> HIDE DEF s
  <2> QED
    BY <2>1, <2>2, <2>3 DEF QueueEntry, Fiber
<1>7. /\ promoted \in Queue /\ Len(promoted) = Len(due) /\ DOMAIN promoted = 1..Len(due)
      /\ \A i \in 1..Len(due) : promoted[i] = Promoted(due[i], dt)
                                /\ promoted[i].fiber.uid = due[i].fiber.uid
  <2>1. DOMAIN due = 1..Len(due) /\ Len(due) \in Nat
    BY <1>2, QueueSets
  <2>2. \A i \in 1..Len(due) : due[i] \in QueueEntry
    BY <1>2, ElementOfSeq DEF Queue
  <2>3. promoted \in [1..Len(due) -> QueueEntry]
    BY <2>1, <2>2, <1>5
  <2>4. promoted \in Queue /\ DOMAIN promoted = 1..Len(due)
    BY <2>1, <2>3, SeqDef DEF Queue
  <2> QED
    BY <2>1, <2>2, <2>4, <1>5, QueueSets
<1>8. /\ suspended' \in Queue /\ Len(suspended') = Len(others) /\ DOMAIN suspended' = 1..Len(others)
      /\ DOMAIN others = 1..Len(others)
      /\ \A i \in 1..Len(others) : suspended'[i] = Ticked(others[i], dt)
                                   /\ suspended'[i].fiber.uid = others[i].fiber.uid
  <2>1. DOMAIN others = 1..Len(others) /\ Len(others) \in Nat
    BY <1>2, QueueSets
  <2>2. \A i \in 1..Len(others) : others[i] \in QueueEntry /\ ~Due(others[i], dt)
    BY <1>2, <1>4, <2>1 DEF DueAt
  <2>3. suspended' \in [1..Len(others) -> QueueEntry]
    BY <2>1, <2>2, <1>3, <1>6
  <2>4. suspended' \in Queue /\ DOMAIN suspended' = 1..Len(others)
    BY <2>1, <2>3, SeqDef DEF Queue
  <2>5. Len(suspended') = Len(others)
    BY <2>1, <2>4, QueueSets
  <2>6. ASSUME NEW i \in 1..Len(others)
        PROVE  suspended'[i] = Ticked(others[i], dt) /\ suspended'[i].fiber.uid = others[i].fiber.uid
    BY <2>1, <2>2, <1>3, <1>6
  <2> QED
    BY <2>1, <2>4, <2>5, <2>6
<1>9. ready' \in Queue
  BY <1>1, <1>3, <1>7, Joined
<1>10. ASSUME NEW i \in DOMAIN ready'
       PROVE  \/ \E j \in DOMAIN ready : ready'[i] = ready[j]
              \/ \E j \in DueAt(dt) : ready'[i] = Promoted(suspended[j], dt)
  <2>1. /\ Len(ready') = Len(ready) + Len(promoted)
        /\ \A j \in 1..Len(ready) : ready'[j] = ready[j]
        /\ \A j \in 1..Len(promoted) : ready'[Len(ready) + j] = promoted[j]
    BY <1>1, <1>3, <1>7, Joined
  <2>2. /\ i \in 1..(Len(ready) + Len(due)) /\ Len(ready) \in Nat /\ Len(due) \in Nat
        /\ DOMAIN ready = 1..Len(ready) /\ DOMAIN due = 1..Len(due)
    BY <1>1, <1>2, <1>7, <1>9, <1>10, <2>1, QueueSets
  <2>3. CASE i <= Len(ready)
    BY <2>1, <2>2, <2>3
  <2>4. CASE ~(i <= Len(ready))
    <3>1. i - Len(ready) \in 1..Len(due) /\ Len(ready) + (i - Len(ready)) = i
      BY <2>2, <2>4
    <3>2. ready'[i] = promoted[i - Len(ready)]
      BY <3>1, <2>1, <1>7
    <3>3. PICK j \in DueAt(dt) : due[i - Len(ready)] = suspended[j]
      BY <3>1, <2>2, <1>2
    <3> QED
      BY <3>1, <3>2, <3>3, <1>7
  <2> QED
    BY <2>3, <2>4
<1>11. ASSUME NEW i \in DOMAIN suspended'
       PROVE  \E j \in DOMAIN suspended \ DueAt(dt) : suspended'[i] = Ticked(suspended[j], dt)
  BY <1>2, <1>8, <1>11
<1>12. ASSUME NEW u
       PROVE  Count(ready', u) + Count(suspended', u) = Count(ready, u) + Count(suspended, u)
  <2>1. Count(ready', u) = Count(ready, u) + Count(promoted, u)
    BY <1>1, <1>3, <1>7, CountOfConcat
  <2>2. Count(promoted, u) = Count(due, u)
    BY <1>2, <1>7, CountOfSame
  <2>3. Count(suspended', u) = Count(others, u)
    BY <1>2, <1>8, CountOfSame
  <2>4. Count(suspended, u) = Count(due, u) + Count(others, u)
    BY <1>1, CountOfSplit
  <2>5. Count(ready, u) \in Nat /\ Count(due, u) \in Nat /\ Count(others, u) \in Nat
    BY <1>1, <1>2, QueueSets
  <2> QED
    BY <2>1, <2>2, <2>3, <2>4, <2>5
<1> QED
  BY <1>8, <1>9, <1>10, <1>11, <1>12

\* Places(u), place by place.
Holds(f, u) == IF f.frames /\ f.uid = u THEN 1 ELSE 0
SavedHolds(s, u) == IF \E i \in DOMAIN s : s[i].fiber.frames /\ s[i].fiber.uid = u THEN 1 ELSE 0

LEMMA PlacesSum ==
    ASSUME NEW u
    PROVE  /\ Places(u) = Holds(fiber, u) + SavedHolds(saved, u) + Count(ready, u)
                          + Count(suspended, u) + Waits(parked, u)
           /\ Places(u)' = Holds(fiber', u) + SavedHolds(saved', u) + Count(ready', u)
                           + Count(suspended', u) + Waits(parked', u)
BY DEF Places, Holds, SavedHolds, Count, Waits, InMain, InSaved, InQueue, ParkedOn

LEMMA HoldsTypes ==
    ASSUME NEW u
    PROVE  /\ \A f : Holds(f, u) \in {0, 1}
           /\ \A s : SavedHolds(s, u) \in {0, 1}
BY DEF Holds, SavedHolds

LEMMA WaitsType ==
    ASSUME NEW p, DOMAIN p \subseteq Token, NEW u
    PROVE  /\ IsFiniteSet({t \in DOMAIN p : p[t].fiber.uid = u})
           /\ Waits(p, u) \in Nat
           /\ Waits(p, u) = 0 <=> \A t \in DOMAIN p : p[t].fiber.uid # u
<1>1. IsFiniteSet(Token)
  BY BoundsAssumption, FS_Interval DEF Token
<1>2. {t \in DOMAIN p : p[t].fiber.uid = u} \in SUBSET Token
  OBVIOUS
<1>3. IsFiniteSet({t \in DOMAIN p : p[t].fiber.uid = u})
  BY <1>1, <1>2, FS_Subset
<1> QED
  BY <1>3, FS_CardinalityType, FS_EmptySet DEF Waits

LEMMA WaitsWithout ==
    ASSUME NEW p, DOMAIN p \subseteq Token, NEW t \in DOMAIN p, NEW u
    PROVE  Waits([s \in DOMAIN p \ {t} |-> p[s]], u) =
               Waits(p, u) - (IF p[t].fiber.uid = u THEN 1 ELSE 0)
<1> DEFINE before == {s \in DOMAIN p : p[s].fiber.uid = u}
           r == [s \in DOMAIN p \ {t} |-> p[s]]
<1>1. {s \in DOMAIN r : r[s].fiber.uid = u} = before \ {t}
  OBVIOUS
<1>2. IsFiniteSet(before)
  BY WaitsType
<1>3. Cardinality(before \ {t}) = IF t \in before THEN Cardinality(before) - 1 ELSE Cardinality(before)
  BY <1>2, FS_RemoveElement
<1>4. Waits(p, u) = Cardinality(before) /\ Waits(p, u) \in Nat
  BY WaitsType DEF Waits
<1>5. Waits(r, u) = Cardinality(before \ {t})
  BY <1>1 DEF Waits
<1> QED
  BY <1>3, <1>4, <1>5

LEMMA WaitsPut ==
    ASSUME NEW p, DOMAIN p \subseteq Token, NEW t \in Token, t \notin DOMAIN p, NEW e, NEW u
    PROVE  Waits([s \in DOMAIN p \cup {t} |-> IF s = t THEN e ELSE p[s]], u) =
               Waits(p, u) + (IF e.fiber.uid = u THEN 1 ELSE 0)
<1> DEFINE before == {s \in DOMAIN p : p[s].fiber.uid = u}
           r == [s \in DOMAIN p \cup {t} |-> IF s = t THEN e ELSE p[s]]
           after == {s \in DOMAIN r : r[s].fiber.uid = u}
<1>1. after = IF e.fiber.uid = u THEN before \cup {t} ELSE before
  OBVIOUS
<1>2. IsFiniteSet(before) /\ t \notin before
  BY WaitsType
<1>3. Cardinality(before \cup {t}) = Cardinality(before) + 1
  BY <1>2, FS_AddElement
<1>4. Waits(p, u) = Cardinality(before) /\ Waits(p, u) \in Nat
  BY WaitsType DEF Waits
<1>5. Waits(r, u) = Cardinality(after)
  BY DEF Waits
<1> HIDE DEF before, after
<1> QED
  BY <1>1, <1>3, <1>4, <1>5

\* The counts of one fiber, in a state of the invariant.
LEMMA PlaceTypes ==
    ASSUME TypeOK, NEW u
    PROVE  /\ Count(ready, u) \in Nat /\ Count(suspended, u) \in Nat /\ Waits(parked, u) \in Nat
           /\ Holds(fiber, u) \in {0, 1} /\ SavedHolds(saved, u) \in {0, 1}
BY QueueSets, WaitsType, HoldsTypes DEF TypeOK, Queue

\* Whoever is in some place is alive.
LEMMA HoldersAlive ==
    ASSUME TypeOK, HoldersOK, OnePlace
    PROVE  /\ fiber.frames => fate[fiber.uid] = "alive"
           /\ \A i \in DOMAIN saved : saved[i].fiber.frames => fate[saved[i].fiber.uid] = "alive"
           /\ \A i \in DOMAIN ready : fate[ready[i].fiber.uid] = "alive"
           /\ \A i \in DOMAIN suspended : fate[suspended[i].fiber.uid] = "alive"
           /\ \A t \in DOMAIN parked : fate[parked[t].fiber.uid] = "alive"
<1>1. /\ ready \in Queue /\ suspended \in Queue /\ DOMAIN parked \subseteq Token
  BY DEF TypeOK, Queue
<1>2. ASSUME NEW u \in Uid, Places(u) # 0 PROVE fate[u] = "alive"
  BY <1>2 DEF OnePlace
<1>3. ASSUME NEW u \in Uid,
             \/ Holds(fiber, u) = 1 \/ SavedHolds(saved, u) = 1 \/ Count(ready, u) # 0
             \/ Count(suspended, u) # 0 \/ Waits(parked, u) # 0
      PROVE  fate[u] = "alive"
  BY <1>2, <1>3, PlacesSum, PlaceTypes
<1>4. fiber.frames => fate[fiber.uid] = "alive"
  BY <1>3 DEF HoldersOK, Holds
<1>5. \A i \in DOMAIN saved : saved[i].fiber.frames => fate[saved[i].fiber.uid] = "alive"
  BY <1>3 DEF HoldersOK, SavedHolds
<1>6. \A i \in DOMAIN ready : fate[ready[i].fiber.uid] = "alive"
  BY <1>1, <1>3, QueueSets DEF HoldersOK, Live
<1>7. \A i \in DOMAIN suspended : fate[suspended[i].fiber.uid] = "alive"
  BY <1>1, <1>3, QueueSets DEF HoldersOK, Live
<1>8. \A t \in DOMAIN parked : fate[parked[t].fiber.uid] = "alive"
  BY <1>1, <1>3, WaitsType DEF HoldersOK, Live
<1> QED
  BY <1>4, <1>5, <1>6, <1>7, <1>8

-----------------------------------------------------------------------------
(* Facts several steps share.                                              *)

LEMMA FiberTypes ==
    /\ Empty \in Fiber /\ ~Empty.frames
    /\ \A u \in Uid : NewFiber(u) \in Fiber /\ Live(NewFiber(u)) /\ NewFiber(u).uid = u
                      /\ Awake(NewFiber(u)) /\ NewFiber(u).state = "Created"
    /\ \A f \in Fiber : Running(f) \in Fiber /\ Running(f).frames = f.frames
                        /\ Running(f).uid = f.uid /\ Running(f).state = "Running"
                        /\ Awake(Running(f))
<1>1. /\ 0 \in 0..MaxWait /\ 0 \in 0..MaxTokens /\ 0 \in 0..MaxFibers
      /\ \A u \in Uid : u \in 0..MaxFibers
  BY BoundsAssumption DEF Uid
<1>2. Empty \in Fiber /\ ~Empty.frames
  BY <1>1 DEF Empty, Fiber, None
<1>3. ASSUME NEW u \in Uid
      PROVE  NewFiber(u) \in Fiber /\ Live(NewFiber(u)) /\ NewFiber(u).uid = u
             /\ Awake(NewFiber(u)) /\ NewFiber(u).state = "Created"
  <2>1. NewFiber(u) \in Fiber
    BY <1>1 DEF Fiber, NewFiber, Empty, None
  <2> QED
    BY <2>1 DEF NewFiber, Empty, Live, Awake
<1>4. ASSUME NEW f \in Fiber
      PROVE  Running(f) \in Fiber /\ Running(f).frames = f.frames /\ Running(f).uid = f.uid
             /\ Running(f).state = "Running" /\ Awake(Running(f))
  <2>1. Running(f) \in Fiber
    BY <1>1 DEF Fiber, Running
  <2> QED
    BY <2>1 DEF Fiber, Running, Awake
<1> QED
  BY <1>2, <1>3, <1>4

\* A new fiber finds a FiberId left.
LEMMA RoomForOne ==
    ASSUME TypeOK, RoomOK
    PROVE  /\ IsFiniteSet(Unborn) /\ Cardinality(Unborn) \in Nat
           /\ Unborn # {} => nextId \in FiberId
<1>1. Unborn \in SUBSET Uid /\ IsFiniteSet(Uid)
  BY BoundsAssumption, FS_Interval DEF Unborn, Uid
<1>2. IsFiniteSet(Unborn) /\ Cardinality(Unborn) \in Nat
  BY <1>1, FS_Subset, FS_CardinalityType
<1>3. Unborn # {} => Cardinality(Unborn) # 0
  BY <1>2, FS_EmptySet
<1> QED
  BY <1>2, <1>3, BoundsAssumption DEF RoomOK, TypeOK, FiberId

LEMMA RoomStep ==
    ASSUME TypeOK, RoomOK, Unborn' \subseteq Unborn,
           \/ nextId' = nextId
           \/ nextId' = nextId + 1 /\ Unborn # {} /\ NewUid \notin Unborn'
    PROVE  RoomOK' /\ nextId' \in FiberId \cup {MaxFibers + 2}
<1>1. /\ IsFiniteSet(Unborn) /\ Cardinality(Unborn) \in Nat
      /\ nextId \in FiberId \cup {MaxFibers + 2} /\ MaxFibers \in Nat
  BY RoomForOne, BoundsAssumption DEF TypeOK
<1>2. CASE nextId' = nextId
  <2>1. Unborn' \in SUBSET Unborn
    OBVIOUS
  <2>2. IsFiniteSet(Unborn') /\ Cardinality(Unborn') <= Cardinality(Unborn)
    BY <1>1, <2>1, FS_Subset
  <2>3. Cardinality(Unborn') \in Nat
    BY <2>2, FS_CardinalityType
  <2> QED
    BY <1>1, <1>2, <2>2, <2>3 DEF RoomOK, FiberId
<1>3. CASE nextId' = nextId + 1 /\ Unborn # {} /\ NewUid \notin Unborn'
  <2>1. NewUid \in Unborn
    BY <1>3, NewUidFresh DEF Unborn
  <2>2. IsFiniteSet(Unborn \ {NewUid}) /\ Cardinality(Unborn \ {NewUid}) = Cardinality(Unborn) - 1
    BY <1>1, <2>1, FS_RemoveElement
  <2>3. Unborn' \in SUBSET (Unborn \ {NewUid})
    BY <1>3
  <2>4. IsFiniteSet(Unborn') /\ Cardinality(Unborn') <= Cardinality(Unborn) - 1
    BY <2>2, <2>3, FS_Subset
  <2>5. Cardinality(Unborn') \in Nat
    BY <2>4, FS_CardinalityType
  <2> QED
    BY <1>1, <1>3, <2>4, <2>5 DEF RoomOK, FiberId
<1> QED
  BY <1>2, <1>3

LEMMA FinishedStep ==
    ASSUME TypeOK, NoFalseReport, finished' = finished,
           \A u \in Uid : fate[u] = "finished" => fate'[u] = "finished"
    PROVE  NoFalseReport'
<1>1. \A i \in DOMAIN finished : finished[i].uid \in Uid
  <2> DEFINE R == [id : FiberId, uid : Uid]
  <2>1. finished \in Seq(R) /\ DOMAIN finished = 1..Len(finished)
    BY LenProperties DEF TypeOK
  <2> HIDE DEF R
  <2>2. \A i \in DOMAIN finished : finished[i] \in R
    BY <2>1, ElementOfSeq
  <2> QED
    BY <2>2 DEF R
<1> QED
  BY <1>1 DEF NoFalseReport

-----------------------------------------------------------------------------
(* One lemma for every action that touches more than the top of a stack.   *)

LEMMA LoadStep ==
    ASSUME FiberInv, Load
    PROVE  FiberInv'
<1> DEFINE n == NewUid
<1>1. /\ TypeOK /\ HoldersOK /\ RoomOK /\ OnePlace /\ NoFalseReport /\ DrainOK /\ SleepOK
      /\ control = "host" /\ Unborn # {}
      /\ fiber' = NewFiber(n) /\ currentId' = nextId /\ nextId' = nextId + 1
      /\ fate' = BornOver(n)
      /\ UNCHANGED <<saved, ready, suspended, parked, finished, lastPending, control,
                     nextToken, caller, told, settled>>
  BY DEF FiberInv, Load, LoadId, queues, io
<1>2. n \in Uid /\ fate[n] = "unborn"
  BY <1>1, NewUidFresh
<1>3. fiber.frames => fiber.uid \in Uid /\ fate[fiber.uid] = "alive" /\ fiber.uid # n
  BY <1>1, <1>2, HoldersAlive DEF HoldersOK
<1>4. /\ fate' \in [Uid -> {"unborn", "alive", "finished", "cancelled", "discarded"}]
      /\ fate'[n] = "alive"
      /\ \A u \in Uid \ {n} : fate'[u] = IF fiber.frames /\ fiber.uid = u THEN "discarded" ELSE fate[u]
  BY <1>1, <1>2, <1>3 DEF TypeOK, BornOver, Born, MainHeld
<1> HIDE DEF n
<1>5. Unborn' \subseteq Unborn /\ n \notin Unborn'
  BY <1>2, <1>4 DEF Unborn
<1>6. RoomOK' /\ nextId' \in FiberId \cup {MaxFibers + 2}
  BY <1>1, <1>5, RoomStep DEF n
<1>7. fiber' \in Fiber /\ Live(fiber') /\ fiber'.uid = n /\ fiber'.state = "Created"
  BY <1>1, <1>2, FiberTypes
<1>8. TypeOK'
  BY <1>1, <1>4, <1>6, <1>7, RoomForOne DEF TypeOK
<1>9. HoldersOK'
  BY <1>1, <1>7 DEF HoldersOK, Live, Executing
<1>10. OnePlace'
  <2> SUFFICES ASSUME NEW u \in Uid
               PROVE  Places(u)' = IF fate'[u] = "alive" THEN 1 ELSE 0
    BY DEF OnePlace
  <2>1. Places(u) = IF fate[u] = "alive" THEN 1 ELSE 0
    BY <1>1 DEF OnePlace
  <2>2. Places(u)' = Places(u) - Holds(fiber, u) + Holds(fiber', u)
    BY <1>1, PlacesSum, PlaceTypes, HoldsTypes
  <2>3. CASE u = n
    BY <2>1, <2>2, <2>3, <1>2, <1>3, <1>4, <1>7 DEF Holds, Live
  <2>4. CASE u # n
    BY <2>1, <2>2, <2>4, <1>3, <1>4, <1>7 DEF Holds, Live
  <2> QED
    BY <2>3, <2>4
<1>11. NoFalseReport'
  BY <1>1, <1>2, <1>3, <1>4, FinishedStep
<1>12. DrainOK' /\ SleepOK'
  BY <1>1, <1>7 DEF DrainOK, SleepOK, Executing, Live
<1> QED
  BY <1>6, <1>8, <1>9, <1>10, <1>11, <1>12 DEF FiberInv

\* spawn_closure, spawn_call and the spawn instruction.
LEMMA SpawnStep ==
    ASSUME FiberInv, SpawnClosure \/ Spawn
    PROVE  FiberInv'
<1> DEFINE n == NewUid
           e == Entry(nextId, NewFiber(n))
<1>1. /\ TypeOK /\ HoldersOK /\ RoomOK /\ OnePlace /\ NoFalseReport /\ DrainOK /\ SleepOK
      /\ Unborn # {}
      /\ ready' = Append(ready, e) /\ nextId' = nextId + 1 /\ fate' = Born(n)
      /\ UNCHANGED <<fiber, currentId, saved, suspended, parked, finished, lastPending, control,
                     nextToken, caller, told, settled>>
  BY DEF FiberInv, SpawnClosure, Spawn, io
<1>2. n \in Uid /\ fate[n] = "unborn"
  BY <1>1, NewUidFresh
<1>3. /\ fate' \in [Uid -> {"unborn", "alive", "finished", "cancelled", "discarded"}]
      /\ fate'[n] = "alive" /\ \A u \in Uid \ {n} : fate'[u] = fate[u]
  BY <1>1, <1>2 DEF TypeOK, Born
<1>4. e \in QueueEntry /\ e.fiber.uid = n /\ Live(e.fiber) /\ Awake(e.fiber)
  BY <1>1, <1>2, FiberTypes, RoomForOne DEF QueueEntry, Entry
<1> HIDE DEF n, e
<1>5. Unborn' \subseteq Unborn /\ n \notin Unborn'
  BY <1>2, <1>3 DEF Unborn
<1>6. RoomOK' /\ nextId' \in FiberId \cup {MaxFibers + 2}
  BY <1>1, <1>5, RoomStep DEF n
<1>7. ready \in Queue /\ ready' \in Queue
  BY <1>1, <1>4, CountOfAppend DEF TypeOK, Queue
<1>8. \A i \in DOMAIN ready' : ready'[i] = e \/ \E j \in DOMAIN ready : ready'[i] = ready[j]
  BY <1>1, <1>4, <1>7, AppendProperties, QueueSets DEF Queue
<1>9. TypeOK'
  BY <1>1, <1>3, <1>6, <1>7 DEF TypeOK, Queue
<1>10. HoldersOK'
  BY <1>1, <1>4, <1>8 DEF HoldersOK, Executing
<1>11. OnePlace'
  <2> SUFFICES ASSUME NEW u \in Uid
               PROVE  Places(u)' = IF fate'[u] = "alive" THEN 1 ELSE 0
    BY DEF OnePlace
  <2>1. Places(u) = IF fate[u] = "alive" THEN 1 ELSE 0
    BY <1>1 DEF OnePlace
  <2>2. Count(ready', u) = Count(ready, u) + (IF n = u THEN 1 ELSE 0)
    BY <1>1, <1>4, <1>7, CountOfAppend
  <2>3. UNCHANGED <<fiber, saved, suspended, parked>> /\ TypeOK
    BY <1>1
  <2>4. Places(u)' = Places(u) + (IF n = u THEN 1 ELSE 0)
    BY <2>2, <2>3, PlacesSum, PlaceTypes
  <2> QED
    BY <2>1, <2>4, <1>2, <1>3
<1>12. NoFalseReport'
  BY <1>1, <1>2, <1>3, FinishedStep
<1>13. DrainOK' /\ SleepOK'
  BY <1>1, <1>4, <1>8 DEF DrainOK, SleepOK, Executing, Awake
<1> QED
  BY <1>6, <1>9, <1>10, <1>11, <1>12, <1>13 DEF FiberInv

LEMMA InterpretStep ==
    ASSUME FiberInv, Interpret
    PROVE  FiberInv'
<1> DEFINE n == NewUid
<1>1. /\ TypeOK /\ HoldersOK /\ RoomOK /\ OnePlace /\ NoFalseReport /\ DrainOK /\ SleepOK
      /\ control = "host" /\ control' = "sync" /\ Unborn # {}
      /\ fiber' = [NewFiber(n) EXCEPT !.state = "Running"] /\ fate' = BornOver(n)
      /\ UNCHANGED <<currentId, saved, ready, suspended, parked, finished, lastPending,
                     nextId, nextToken, caller, told, settled>>
  BY DEF FiberInv, Interpret, queues, counters, io
<1>2. n \in Uid /\ fate[n] = "unborn"
  BY <1>1, NewUidFresh
<1>3. fiber.frames => fiber.uid \in Uid /\ fate[fiber.uid] = "alive" /\ fiber.uid # n
  BY <1>1, <1>2, HoldersAlive DEF HoldersOK
<1>4. /\ fate' \in [Uid -> {"unborn", "alive", "finished", "cancelled", "discarded"}]
      /\ fate'[n] = "alive"
      /\ \A u \in Uid \ {n} : fate'[u] = IF fiber.frames /\ fiber.uid = u THEN "discarded" ELSE fate[u]
  BY <1>1, <1>2, <1>3 DEF TypeOK, BornOver, Born, MainHeld
<1> HIDE DEF n
<1>5. Unborn' \subseteq Unborn
  BY <1>2, <1>4 DEF Unborn
<1>6. RoomOK' /\ nextId' \in FiberId \cup {MaxFibers + 2}
  BY <1>1, <1>5, RoomStep
<1>7. fiber' \in Fiber /\ Live(fiber') /\ fiber'.uid = n /\ Awake(fiber')
  <2>1. /\ NewFiber(n) \in Fiber /\ Live(NewFiber(n)) /\ NewFiber(n).uid = n
        /\ Awake(NewFiber(n))
    BY <1>2, FiberTypes
  <2> QED
    BY <2>1, <1>1 DEF Fiber, Live, Awake
<1>8. TypeOK'
  BY <1>1, <1>4, <1>6, <1>7 DEF TypeOK
<1>9. HoldersOK'
  BY <1>1, <1>7 DEF HoldersOK, Live, Executing
<1>10. OnePlace'
  <2> SUFFICES ASSUME NEW u \in Uid
               PROVE  Places(u)' = IF fate'[u] = "alive" THEN 1 ELSE 0
    BY DEF OnePlace
  <2>1. Places(u) = IF fate[u] = "alive" THEN 1 ELSE 0
    BY <1>1 DEF OnePlace
  <2>2. Places(u)' = Places(u) - Holds(fiber, u) + Holds(fiber', u)
    BY <1>1, PlacesSum, PlaceTypes, HoldsTypes
  <2>3. CASE u = n
    BY <2>1, <2>2, <2>3, <1>2, <1>3, <1>4, <1>7 DEF Holds, Live
  <2>4. CASE u # n
    BY <2>1, <2>2, <2>4, <1>3, <1>4, <1>7 DEF Holds, Live
  <2> QED
    BY <2>3, <2>4
<1>11. NoFalseReport'
  BY <1>1, <1>2, <1>3, <1>4, FinishedStep
<1>12. DrainOK' /\ SleepOK'
  BY <1>1, <1>7 DEF DrainOK, SleepOK, Executing, Live
<1> QED
  BY <1>6, <1>8, <1>9, <1>10, <1>11, <1>12 DEF FiberInv

\* call() on top of what the main slot holds, or on an empty one.
LEMMA CallInStep ==
    ASSUME FiberInv, CallIn
    PROVE  FiberInv'
<1>1. /\ TypeOK /\ HoldersOK /\ RoomOK /\ OnePlace /\ NoFalseReport /\ DrainOK /\ SleepOK
      /\ control = "host" /\ control' = "sync"
      /\ UNCHANGED <<currentId, saved, ready, suspended, parked, finished, lastPending,
                     nextId, nextToken, caller, told, settled>>
  BY DEF FiberInv, CallIn, queues, counters, io
<1>2. 0 \in 0..MaxWait /\ 0 \in 0..MaxTokens /\ fiber \in Fiber
  BY <1>1, BoundsAssumption DEF TypeOK
<1>3. CASE fiber.frames
  <2>1. fiber' = [fiber EXCEPT !.top = 0, !.asked = 0, !.slept = 0] /\ fate' = fate
    BY <1>3 DEF CallIn, MainHeld, None
  <2>2. /\ fiber' \in Fiber /\ fiber'.frames /\ fiber'.uid = fiber.uid /\ Awake(fiber')
    BY <1>2, <1>3, <2>1 DEF Fiber, Awake
  <2>3. TypeOK'
    BY <1>1, <2>1, <2>2 DEF TypeOK
  <2>4. HoldersOK'
    BY <1>1, <1>3, <2>2 DEF HoldersOK, Executing
  <2>5. OnePlace'
    <3>1. \A u : Holds(fiber', u) = Holds(fiber, u)
      BY <1>3, <2>2 DEF Holds
    <3> QED
      BY <1>1, <2>1, <3>1, PlacesSum DEF OnePlace
  <2>6. RoomOK' /\ NoFalseReport' /\ DrainOK' /\ SleepOK'
    BY <1>1, <2>1, <2>2 DEF RoomOK, Unborn, NoFalseReport, DrainOK, SleepOK, Executing
  <2> QED
    BY <2>3, <2>4, <2>5, <2>6 DEF FiberInv
<1>4. CASE ~fiber.frames
  <2> DEFINE n == NewUid
  <2>1. /\ fiber' = [fiber EXCEPT !.uid = n, !.frames = TRUE, !.top = 0]
        /\ fate' = Born(n) /\ Unborn # {}
    BY <1>4 DEF CallIn, MainHeld, None
  <2>2. n \in Uid /\ fate[n] = "unborn" /\ n \in 0..MaxFibers
    BY <2>1, NewUidFresh, BoundsAssumption DEF Uid
  <2> HIDE DEF n
  <2>3. /\ fiber' \in Fiber /\ fiber'.frames /\ fiber'.uid = n
        /\ fiber'.asked = fiber.asked /\ fiber'.slept = fiber.slept /\ fiber'.state = fiber.state
    BY <1>2, <2>1, <2>2 DEF Fiber
  <2>4. /\ fate' \in [Uid -> {"unborn", "alive", "finished", "cancelled", "discarded"}]
        /\ fate'[n] = "alive" /\ \A u \in Uid \ {n} : fate'[u] = fate[u]
    BY <1>1, <2>1, <2>2 DEF TypeOK, Born
  <2>5. Unborn' \subseteq Unborn
    BY <2>2, <2>4 DEF Unborn
  <2>6. RoomOK' /\ nextId' \in FiberId \cup {MaxFibers + 2}
    BY <1>1, <2>5, RoomStep
  <2>7. TypeOK'
    BY <1>1, <2>3, <2>4, <2>6 DEF TypeOK
  <2>8. HoldersOK'
    BY <1>1, <2>2, <2>3 DEF HoldersOK, Executing
  <2>9. OnePlace'
    <3> SUFFICES ASSUME NEW u \in Uid
                 PROVE  Places(u)' = IF fate'[u] = "alive" THEN 1 ELSE 0
      BY DEF OnePlace
    <3>1. Places(u) = IF fate[u] = "alive" THEN 1 ELSE 0
      BY <1>1 DEF OnePlace
    <3>2. Places(u)' = Places(u) + Holds(fiber', u) /\ Holds(fiber, u) = 0
      BY <1>1, <1>4, PlacesSum, PlaceTypes, HoldsTypes DEF Holds
    <3>3. Holds(fiber', u) = IF u = n THEN 1 ELSE 0
      BY <2>3 DEF Holds
    <3>4. fate'[u] = IF u = n THEN "alive" ELSE fate[u]
      BY <2>4
    <3> QED
      BY <3>1, <3>2, <3>3, <3>4, <2>2
  <2>10. NoFalseReport'
    BY <1>1, <2>2, <2>4, FinishedStep
  <2>11. DrainOK' /\ SleepOK'
    BY <1>1, <1>4, <2>3 DEF DrainOK, SleepOK, Executing, Awake
  <2> QED
    BY <2>6, <2>7, <2>8, <2>9, <2>10, <2>11 DEF FiberInv
<1> QED
  BY <1>3, <1>4

LEMMA ResumeStep ==
    ASSUME FiberInv, LedgerOK, NEW t \in Token, Resume(t)
    PROVE  FiberInv'
<1> DEFINE e == [parked[t] EXCEPT !.fiber.top = None, !.fiber.state = "Created"]
<1>1. /\ TypeOK /\ HoldersOK /\ RoomOK /\ OnePlace /\ NoFalseReport /\ DrainOK /\ SleepOK
      /\ control = "host" /\ t \in DOMAIN parked /\ parked' = Without(t)
      /\ ready' = Append(ready, e) /\ settled' = settled \cup {t}
      /\ UNCHANGED <<fiber, currentId, saved, suspended, finished, lastPending, control, nextId,
                     nextToken, fate, caller, told>>
  BY DEF FiberInv, Resume, counters
<1>2. parked[t] \in QueueEntry /\ Live(parked[t].fiber) /\ Awake(parked[t].fiber)
  BY <1>1 DEF TypeOK, HoldersOK, SleepOK
<1>3. /\ e \in QueueEntry /\ e.fiber.uid = parked[t].fiber.uid /\ Live(e.fiber)
      /\ e.fiber.slept >= e.fiber.asked
  <2>1. 0 \in 0..MaxTokens
    BY BoundsAssumption
  <2>2. e.fiber = [parked[t].fiber EXCEPT !.top = 0, !.state = "Created"] /\ e.id = parked[t].id
    BY <1>2 DEF QueueEntry, Fiber, None
  <2>3. e.fiber \in Fiber /\ e.fiber.uid = parked[t].fiber.uid /\ Live(e.fiber) /\ Awake(e.fiber)
    BY <1>2, <2>1, <2>2 DEF QueueEntry, Fiber, Live, Awake
  <2>4. e = [parked[t] EXCEPT !.fiber = [parked[t].fiber EXCEPT !.top = 0, !.state = "Created"]]
    BY <1>2 DEF QueueEntry, Fiber, None
  <2>5. [parked[t].fiber EXCEPT !.top = 0, !.state = "Created"] \in Fiber
    BY <2>2, <2>3
  <2>6. e \in QueueEntry
    BY <1>2, <2>4, <2>5 DEF QueueEntry
  <2> QED
    BY <2>3, <2>6 DEF Awake
<1> HIDE DEF e
<1>4. ready \in Queue /\ ready' \in Queue
  BY <1>1, <1>3, CountOfAppend DEF TypeOK, Queue
<1>5. \A i \in DOMAIN ready' : ready'[i] = e \/ \E j \in DOMAIN ready : ready'[i] = ready[j]
  BY <1>1, <1>3, <1>4, AppendProperties, QueueSets DEF Queue
<1>6. /\ DOMAIN parked \subseteq Token /\ DOMAIN parked' = DOMAIN parked \ {t}
      /\ parked' = [s \in DOMAIN parked \ {t} |-> parked[s]]
      /\ \A s \in DOMAIN parked' : s \in DOMAIN parked /\ parked'[s] = parked[s]
  BY <1>1 DEF Without, TypeOK
<1>7. settled' \subseteq told'
  BY <1>1 DEF LedgerOK, IoLedger, TypeOK
<1>8. parked' \in [DOMAIN parked' -> QueueEntry]
  BY <1>1, <1>6 DEF TypeOK
<1>9. TypeOK'
  BY <1>1, <1>4, <1>6, <1>7, <1>8 DEF TypeOK, Queue
<1>10. HoldersOK'
  BY <1>1, <1>3, <1>5, <1>6 DEF HoldersOK, Executing
<1>11. OnePlace'
  <2> SUFFICES ASSUME NEW u \in Uid PROVE Places(u)' = Places(u)
    BY <1>1 DEF OnePlace
  <2>1. Count(ready', u) = Count(ready, u) + (IF parked[t].fiber.uid = u THEN 1 ELSE 0)
    BY <1>1, <1>3, <1>4, CountOfAppend
  <2>2. Waits(parked', u) = Waits(parked, u) - (IF parked[t].fiber.uid = u THEN 1 ELSE 0)
    <3>1. t \in DOMAIN parked
      BY <1>1
    <3> QED
      BY <1>6, <3>1, WaitsWithout
  <2>3. UNCHANGED <<fiber, saved, suspended>> /\ TypeOK
    BY <1>1
  <2> QED
    BY <2>1, <2>2, <2>3, PlacesSum, PlaceTypes
<1>12. RoomOK' /\ NoFalseReport' /\ DrainOK'
  BY <1>1 DEF RoomOK, Unborn, NoFalseReport, DrainOK
<1>13. SleepOK'
  BY <1>1, <1>3, <1>5, <1>6 DEF SleepOK, Executing
<1> QED
  BY <1>9, <1>10, <1>11, <1>12, <1>13 DEF FiberInv

\* cancel_fiber, wherever it finds the fiber.
LEMMA CancelStep ==
    ASSUME FiberInv, LedgerOK, NEW id \in FiberId, CancelFiber(id)
    PROVE  FiberInv'
<1>1. /\ TypeOK /\ HoldersOK /\ RoomOK /\ OnePlace /\ NoFalseReport /\ DrainOK /\ SleepOK
      /\ control = "host"
      /\ UNCHANGED <<fiber, currentId, saved, finished, lastPending, control, nextId,
                     nextToken, caller, told>>
  BY DEF FiberInv, CancelFiber, counters
<1>2. ready \in Queue /\ suspended \in Queue /\ DOMAIN parked \subseteq Token
  BY <1>1 DEF TypeOK, Queue
<1>3. ASSUME NEW c \in Uid, fate[c] = "alive", fate' = [fate EXCEPT ![c] = "cancelled"]
      PROVE  /\ fate' \in [Uid -> {"unborn", "alive", "finished", "cancelled", "discarded"}]
             /\ fate'[c] = "cancelled" /\ \A u \in Uid \ {c} : fate'[u] = fate[u]
             /\ RoomOK' /\ NoFalseReport'
  <2>1. /\ fate' \in [Uid -> {"unborn", "alive", "finished", "cancelled", "discarded"}]
        /\ fate'[c] = "cancelled" /\ \A u \in Uid \ {c} : fate'[u] = fate[u]
    BY <1>1, <1>3 DEF TypeOK
  <2>2. Unborn' \subseteq Unborn
    BY <2>1 DEF Unborn
  <2>3. RoomOK'
    BY <1>1, <2>2, RoomStep
  <2>4. NoFalseReport'
    BY <1>1, <1>3, <2>1, FinishedStep
  <2> QED
    BY <2>1, <2>3, <2>4
<1>4. ASSUME NEW c \in Uid, fate[c] = "alive", fate' = [fate EXCEPT ![c] = "cancelled"],
             \A u \in Uid : Places(u)' = Places(u) - (IF c = u THEN 1 ELSE 0)
      PROVE  OnePlace'
  <2> SUFFICES ASSUME NEW u \in Uid
               PROVE  Places(u)' = IF fate'[u] = "alive" THEN 1 ELSE 0
    BY DEF OnePlace
  <2>1. Places(u) = IF fate[u] = "alive" THEN 1 ELSE 0
    BY <1>1 DEF OnePlace
  <2>2. fate'[c] = "cancelled" /\ \A v \in Uid \ {c} : fate'[v] = fate[v]
    BY <1>3, <1>4
  <2>3. Places(u)' = Places(u) - (IF c = u THEN 1 ELSE 0)
    BY <1>4
  <2> QED
    BY <2>1, <2>2, <2>3, <1>4
<1>5. CASE PositionsOf(ready, id) # {}
  <2> DEFINE i == FirstOf(ready, id)
             c == ready[i].fiber.uid
  <2>1. /\ ready' = RemoveAt(ready, i) /\ fate' = [fate EXCEPT ![c] = "cancelled"]
        /\ UNCHANGED <<suspended, parked, settled>>
    BY <1>5 DEF CancelFiber, CancelledAt
  <2>2. i \in 1..Len(ready) /\ i \in DOMAIN ready
    BY <1>2, <1>5, FirstIsThere, QueueSets
  <2>3. c \in Uid /\ fate[c] = "alive"
    BY <1>1, <2>2, HoldersAlive DEF HoldersOK, Live
  <2> HIDE DEF i
  <2>4. /\ ready' \in Queue
        /\ \A j \in DOMAIN ready' : \E k \in DOMAIN ready : ready'[j] = ready[k]
    BY <1>2, <2>1, <2>2, CountOfRemoveAt
  <2>5. \A u : Count(ready', u) = Count(ready, u) - (IF c = u THEN 1 ELSE 0)
    BY <1>2, <2>1, <2>2, CountOfRemoveAt
  <2> HIDE DEF c
  <2>6. OnePlace'
    <3>1. ASSUME NEW u \in Uid PROVE Places(u)' = Places(u) - (IF c = u THEN 1 ELSE 0)
      <4>1. UNCHANGED <<fiber, saved, suspended, parked>> /\ TypeOK
        BY <1>1, <2>1
      <4> QED
        BY <4>1, <2>5, PlacesSum, PlaceTypes
    <3> QED
      BY <2>1, <2>3, <3>1, <1>4
  <2>7. TypeOK'
    BY <1>1, <1>3, <2>1, <2>3, <2>4 DEF TypeOK, Queue
  <2>8. HoldersOK' /\ DrainOK' /\ SleepOK'
    BY <1>1, <2>1, <2>4 DEF HoldersOK, DrainOK, SleepOK, Executing
  <2> QED
    BY <1>3, <2>1, <2>3, <2>6, <2>7, <2>8 DEF FiberInv
<1>6. CASE PositionsOf(ready, id) = {} /\ PositionsOf(suspended, id) # {}
  <2> DEFINE i == FirstOf(suspended, id)
             c == suspended[i].fiber.uid
  <2>1. /\ suspended' = RemoveAt(suspended, i) /\ fate' = [fate EXCEPT ![c] = "cancelled"]
        /\ UNCHANGED <<ready, parked, settled>>
    BY <1>6 DEF CancelFiber, CancelledAt
  <2>2. i \in 1..Len(suspended) /\ i \in DOMAIN suspended
    BY <1>2, <1>6, FirstIsThere, QueueSets
  <2>3. c \in Uid /\ fate[c] = "alive"
    BY <1>1, <2>2, HoldersAlive DEF HoldersOK, Live
  <2> HIDE DEF i
  <2>4. /\ suspended' \in Queue
        /\ \A j \in DOMAIN suspended' : \E k \in DOMAIN suspended : suspended'[j] = suspended[k]
    BY <1>2, <2>1, <2>2, CountOfRemoveAt
  <2>5. \A u : Count(suspended', u) = Count(suspended, u) - (IF c = u THEN 1 ELSE 0)
    BY <1>2, <2>1, <2>2, CountOfRemoveAt
  <2> HIDE DEF c
  <2>6. OnePlace'
    <3>1. ASSUME NEW u \in Uid PROVE Places(u)' = Places(u) - (IF c = u THEN 1 ELSE 0)
      <4>1. UNCHANGED <<fiber, saved, ready, parked>> /\ TypeOK
        BY <1>1, <2>1
      <4> QED
        BY <4>1, <2>5, PlacesSum, PlaceTypes
    <3> QED
      BY <2>1, <2>3, <3>1, <1>4
  <2>7. TypeOK'
    BY <1>1, <1>3, <2>1, <2>3, <2>4 DEF TypeOK, Queue
  <2>8. HoldersOK' /\ DrainOK' /\ SleepOK'
    BY <1>1, <2>1, <2>4 DEF HoldersOK, DrainOK, SleepOK, Executing
  <2> QED
    BY <1>3, <2>1, <2>3, <2>6, <2>7, <2>8 DEF FiberInv
<1>7. CASE PositionsOf(ready, id) = {} /\ PositionsOf(suspended, id) = {}
  <2>1. PICK t \in DOMAIN parked :
           /\ parked' = Without(t) /\ settled' = settled \cup {t}
           /\ fate' = [fate EXCEPT ![parked[t].fiber.uid] = "cancelled"]
           /\ UNCHANGED <<ready, suspended>>
    BY <1>7 DEF CancelFiber, CancelledAt, AfterCancel, SettledByCancel
  <2> DEFINE c == parked[t].fiber.uid
  <2>2. c \in Uid /\ fate[c] = "alive"
    BY <1>1, HoldersAlive DEF HoldersOK, Live
  <2>3. /\ DOMAIN parked' = DOMAIN parked \ {t}
        /\ parked' = [s \in DOMAIN parked \ {t} |-> parked[s]]
        /\ \A s \in DOMAIN parked' : s \in DOMAIN parked /\ parked'[s] = parked[s]
    BY <2>1 DEF Without
  <2>4. \A u : Waits(parked', u) = Waits(parked, u) - (IF c = u THEN 1 ELSE 0)
    BY <1>2, <2>3, WaitsWithout
  <2> HIDE DEF c
  <2>5. OnePlace'
    <3>1. ASSUME NEW u \in Uid PROVE Places(u)' = Places(u) - (IF c = u THEN 1 ELSE 0)
      <4>1. UNCHANGED <<fiber, saved, ready, suspended>> /\ TypeOK
        BY <1>1, <2>1
      <4> QED
        BY <4>1, <2>4, PlacesSum, PlaceTypes
    <3> QED
      BY <2>1, <2>2, <3>1, <1>4 DEF c
  <2>6. settled' \subseteq told' /\ parked' \in [DOMAIN parked' -> QueueEntry]
    BY <1>1, <2>1, <2>3 DEF LedgerOK, IoLedger, TypeOK
  <2>7. TypeOK'
    BY <1>1, <1>2, <1>3, <2>1, <2>2, <2>3, <2>6 DEF TypeOK, c
  <2>8. HoldersOK' /\ DrainOK' /\ SleepOK'
    BY <1>1, <2>1, <2>3 DEF HoldersOK, DrainOK, SleepOK, Executing
  <2> QED
    BY <1>3, <2>1, <2>2, <2>5, <2>7, <2>8 DEF FiberInv, c
<1> QED
  BY <1>5, <1>6, <1>7

LEMMA PromoteStep ==
    ASSUME FiberInv, NEW dt \in Deltas, Promote(dt)
    PROVE  FiberInv'
<1>1. /\ TypeOK /\ HoldersOK /\ RoomOK /\ OnePlace /\ NoFalseReport /\ DrainOK /\ SleepOK
      /\ control = "host" /\ control' = "begin"
      /\ UNCHANGED <<fiber, currentId, saved, parked, finished, lastPending, nextId, nextToken,
                     fate, caller, told, settled>>
  BY DEF FiberInv, Promote, counters, io
<1>2. /\ ready' \in Queue /\ suspended' \in Queue
      /\ \A i \in DOMAIN ready' :
            \/ \E j \in DOMAIN ready : ready'[i] = ready[j]
            \/ \E j \in DueAt(dt) : ready'[i] = Promoted(suspended[j], dt)
      /\ \A i \in DOMAIN suspended' :
            \E j \in DOMAIN suspended \ DueAt(dt) : suspended'[i] = Ticked(suspended[j], dt)
      /\ \A u : Count(ready', u) + Count(suspended', u) = Count(ready, u) + Count(suspended, u)
  BY <1>1, PromoteQueues
<1>3. /\ dt \in Nat /\ MaxWait \in Nat
      /\ \A j \in DOMAIN suspended : suspended[j] \in QueueEntry
      /\ \A j \in DOMAIN suspended : Live(suspended[j].fiber) /\ Sleeps(suspended[j].fiber)
      /\ \A j \in DueAt(dt) : j \in DOMAIN suspended /\ Due(suspended[j], dt)
      /\ \A j \in DOMAIN suspended \ DueAt(dt) : ~Due(suspended[j], dt)
  BY <1>1, BoundsAssumption, DeltasAssumption, ElementOfSeq, QueueSets
     DEF TypeOK, HoldersOK, SleepOK, DueAt, Queue
<1>4. ASSUME NEW e \in QueueEntry, Live(e.fiber), Sleeps(e.fiber)
      PROVE  /\ Due(e, dt) => Live(Promoted(e, dt).fiber)
                              /\ Promoted(e, dt).fiber.slept >= Promoted(e, dt).fiber.asked
             /\ ~Due(e, dt) => Live(Ticked(e, dt).fiber) /\ Sleeps(Ticked(e, dt).fiber)
  <2> DEFINE slept == IF e.fiber.asked = 0 THEN 0 ELSE Lesser(e.fiber.slept + dt, MaxWait)
             s == SleptOn(e, dt)
  <2>1. /\ e.fiber \in Fiber /\ e.fiber.asked \in 0..MaxWait
        /\ e.fiber.slept \in 0..MaxWait /\ e.fiber.timer \in 0..MaxWait
    BY DEF QueueEntry, Fiber
  <2>2. s = [e EXCEPT !.fiber = [e.fiber EXCEPT !.slept = slept]]
    BY DEF SleptOn, QueueEntry, Fiber
  <2> HIDE DEF slept
  <2>3. s.fiber = [e.fiber EXCEPT !.slept = slept] /\ s = [e EXCEPT !.fiber = s.fiber]
    BY <2>2 DEF QueueEntry
  <2>4. /\ s.fiber.slept = slept /\ s.fiber.asked = e.fiber.asked /\ s.fiber.timer = e.fiber.timer
        /\ s.fiber.uid = e.fiber.uid /\ s.fiber.frames = e.fiber.frames
    BY <2>1, <2>3 DEF Fiber
  <2>5. /\ Promoted(e, dt) = [s EXCEPT !.fiber.timer = 0, !.fiber.state = "Created"]
        /\ Ticked(e, dt) = [s EXCEPT !.fiber.timer = s.fiber.timer - dt]
    BY <2>3 DEF Promoted, Ticked, QueueEntry
  <2> HIDE DEF s
  <2>6. /\ Promoted(e, dt).fiber = [s.fiber EXCEPT !.timer = 0, !.state = "Created"]
        /\ Ticked(e, dt).fiber = [s.fiber EXCEPT !.timer = s.fiber.timer - dt]
    BY <2>3, <2>5 DEF QueueEntry
  <2>7. /\ Promoted(e, dt).fiber.slept = slept /\ Promoted(e, dt).fiber.asked = e.fiber.asked
        /\ Live(Promoted(e, dt).fiber) /\ Live(Ticked(e, dt).fiber)
        /\ Ticked(e, dt).fiber.slept = slept /\ Ticked(e, dt).fiber.asked = e.fiber.asked
        /\ Ticked(e, dt).fiber.timer = e.fiber.timer - dt
    BY <1>4, <2>1, <2>3, <2>4, <2>6 DEF Fiber, Live
  <2>8. Due(e, dt) => slept >= e.fiber.asked
    BY <1>3, <1>4, <2>1 DEF slept, Due, Sleeps, Lesser
  <2>9. ~Due(e, dt) => /\ e.fiber.timer - dt > 0
                       /\ e.fiber.asked > 0 => slept + (e.fiber.timer - dt) = e.fiber.asked
    BY <1>3, <1>4, <2>1 DEF slept, Due, Sleeps, Lesser
  <2> QED
    BY <2>7, <2>8, <2>9 DEF Sleeps
<1>5. \A i \in DOMAIN ready' : Live(ready'[i].fiber) /\ ready'[i].fiber.slept >= ready'[i].fiber.asked
  BY <1>1, <1>2, <1>3, <1>4 DEF HoldersOK, SleepOK
<1>6. \A i \in DOMAIN suspended' : Live(suspended'[i].fiber) /\ Sleeps(suspended'[i].fiber)
  BY <1>2, <1>3, <1>4
<1>7. TypeOK'
  BY <1>1, <1>2 DEF TypeOK, Queue
<1>8. HoldersOK' /\ SleepOK'
  BY <1>1, <1>5, <1>6 DEF HoldersOK, SleepOK, Executing
<1>9. OnePlace'
  <2> SUFFICES ASSUME NEW u \in Uid PROVE Places(u)' = Places(u)
    BY <1>1 DEF OnePlace
  <2>1. UNCHANGED <<fiber, saved, parked>> /\ TypeOK
    BY <1>1
  <2>2. Count(ready', u) \in Nat /\ Count(suspended', u) \in Nat
    BY <1>2, QueueSets
  <2> QED
    BY <1>2, <2>1, <2>2, PlacesSum, PlaceTypes
<1>10. RoomOK' /\ NoFalseReport' /\ DrainOK'
  BY <1>1 DEF RoomOK, Unborn, NoFalseReport, DrainOK
<1> QED
  BY <1>7, <1>8, <1>9, <1>10 DEF FiberInv

\* run_ready turns to the main fiber, past it, or is done.
LEMMA MainStep ==
    ASSUME FiberInv, StartMain \/ SkipMain \/ EndRun
    PROVE  FiberInv'
<1>1. /\ TypeOK /\ HoldersOK /\ RoomOK /\ OnePlace /\ NoFalseReport /\ DrainOK /\ SleepOK
      /\ UNCHANGED <<currentId, saved, ready, suspended, parked, finished, lastPending,
                     nextId, nextToken, fate, caller, told, settled>>
      /\ fiber \in Fiber
  BY DEF FiberInv, StartMain, SkipMain, EndRun, queues, counters, io, TypeOK
<1>2. CASE StartMain
  <2>1. control = "begin" /\ control' = "main" /\ fiber.frames /\ fiber' = Running(fiber)
    BY <1>2 DEF StartMain, MainIsReady
  <2>2. /\ fiber' \in Fiber /\ fiber'.frames /\ fiber'.uid = fiber.uid /\ Awake(fiber')
        /\ fiber'.state = "Running"
    BY <1>1, <2>1, FiberTypes
  <2>3. TypeOK'
    BY <1>1, <2>1, <2>2 DEF TypeOK
  <2>4. HoldersOK' /\ SleepOK' /\ DrainOK'
    <3>1. HoldersOK' /\ SleepOK'
      BY <1>1, <2>1, <2>2 DEF HoldersOK, SleepOK, Executing
    <3>2. fiber'.state # "Parked" /\ control' = "main" /\ fiber'.state = "Running"
      BY <2>1, <2>2
    <3> QED
      BY <1>1, <3>1, <3>2 DEF DrainOK
  <2>5. OnePlace'
    <3>1. \A u : Holds(fiber', u) = Holds(fiber, u)
      BY <2>1, <2>2 DEF Holds
    <3> QED
      BY <1>1, <3>1, PlacesSum DEF OnePlace
  <2>6. RoomOK' /\ NoFalseReport'
    BY <1>1 DEF RoomOK, Unborn, NoFalseReport
  <2> QED
    BY <2>3, <2>4, <2>5, <2>6 DEF FiberInv
<1>3. CASE SkipMain \/ EndRun
  <2>1. /\ fiber' = fiber
        /\ \/ control = "begin" /\ control' = "drain" /\ ~MainIsReady
           \/ control = "drain" /\ control' = "host"
    BY <1>3 DEF SkipMain, EndRun
  <2>2. TypeOK'
    BY <1>1, <2>1 DEF TypeOK
  <2>3. DrainOK'
    BY <1>1, <2>1 DEF DrainOK, MainIsReady
  <2>4. HoldersOK' /\ SleepOK'
    BY <1>1, <2>1 DEF HoldersOK, SleepOK, Executing
  <2>5. OnePlace'
    BY <1>1, <2>1, PlacesSum DEF OnePlace
  <2>6. RoomOK' /\ NoFalseReport'
    BY <1>1 DEF RoomOK, Unborn, NoFalseReport
  <2> QED
    BY <2>2, <2>3, <2>4, <2>5, <2>6 DEF FiberInv
<1> QED
  BY <1>2, <1>3

\* The main slot is set aside for the first of the ready queue.
LEMMA TakeStep ==
    ASSUME FiberInv, TakeReady
    PROVE  FiberInv'
<1> DEFINE h == Head(ready)
<1>1. /\ TypeOK /\ HoldersOK /\ RoomOK /\ OnePlace /\ NoFalseReport /\ DrainOK /\ SleepOK
      /\ control = "drain" /\ control' = "ready" /\ ready # <<>>
      /\ saved' = <<Entry(currentId, fiber)>>
      /\ fiber' = Running(h.fiber) /\ currentId' = h.id /\ ready' = Tail(ready)
      /\ UNCHANGED <<suspended, parked, finished, lastPending, nextId, nextToken, fate,
                     caller, told, settled>>
      /\ ready \in Queue /\ fiber \in Fiber /\ currentId \in FiberId
  BY DEF FiberInv, TakeReady, counters, io, TypeOK, Queue
<1>2. /\ h \in QueueEntry /\ h = ready[1] /\ 1 \in DOMAIN ready /\ Tail(ready) \in Queue
      /\ \A u : Count(Tail(ready), u) = Count(ready, u) - (IF h.fiber.uid = u THEN 1 ELSE 0)
      /\ \A j \in DOMAIN Tail(ready) : \E k \in DOMAIN ready : Tail(ready)[j] = ready[k]
  BY <1>1, CountOfTail
<1>3. h.fiber \in Fiber /\ h.id \in FiberId /\ Live(h.fiber)
  BY <1>1, <1>2 DEF QueueEntry, HoldersOK
<1> HIDE DEF h
<1>4. /\ fiber' \in Fiber /\ Live(fiber') /\ fiber'.uid = h.fiber.uid /\ Awake(fiber')
      /\ fiber'.state = "Running"
  BY <1>1, <1>3, FiberTypes DEF Live
<1>5. /\ saved' \in Queue /\ Len(saved') = 1 /\ DOMAIN saved' = {1} /\ saved'[1].fiber = fiber
  <2>1. Entry(currentId, fiber) \in QueueEntry /\ Entry(currentId, fiber).fiber = fiber
    BY <1>1 DEF Entry, QueueEntry
  <2> QED
    BY <1>1, <2>1 DEF Queue
<1>6. TypeOK'
  BY <1>1, <1>2, <1>3, <1>4, <1>5 DEF TypeOK, Queue
<1>7. HoldersOK' /\ SleepOK' /\ DrainOK'
  BY <1>1, <1>2, <1>4, <1>5 DEF HoldersOK, SleepOK, DrainOK, Executing, Live
<1>8. OnePlace'
  <2> SUFFICES ASSUME NEW u \in Uid PROVE Places(u)' = Places(u)
    BY <1>1 DEF OnePlace
  <2>1. SavedHolds(saved, u) = 0
    <3>1. saved = <<>>
      BY <1>1, EmptySeq DEF TypeOK
    <3> QED
      BY <3>1 DEF SavedHolds
  <2>2. SavedHolds(saved', u) = Holds(fiber, u)
    BY <1>5 DEF SavedHolds, Holds
  <2>3. Holds(fiber', u) = IF h.fiber.uid = u THEN 1 ELSE 0
    BY <1>4 DEF Holds, Live
  <2>4. Count(ready', u) = Count(ready, u) - (IF h.fiber.uid = u THEN 1 ELSE 0)
    BY <1>1, <1>2
  <2>5. UNCHANGED <<suspended, parked>> /\ TypeOK
    BY <1>1
  <2> QED
    BY <2>1, <2>2, <2>3, <2>4, <2>5, PlacesSum, PlaceTypes
<1>9. RoomOK' /\ NoFalseReport'
  BY <1>1 DEF RoomOK, Unborn, NoFalseReport
<1> QED
  BY <1>6, <1>7, <1>8, <1>9 DEF FiberInv

\* Instructions that change the top of the stack, and an await that fails.
LEMMA TopStep ==
    ASSUME FiberInv, CallPending \/ PushValue \/ AwaitValue \/ AwaitPendingSync
    PROVE  FiberInv'
<1>1. /\ TypeOK /\ HoldersOK /\ RoomOK /\ OnePlace /\ NoFalseReport /\ DrainOK /\ SleepOK
      /\ Executing /\ fiber \in Fiber /\ fiber.frames /\ fiber.uid \in Uid /\ Awake(fiber)
      /\ UNCHANGED <<currentId, saved, ready, suspended, parked, finished, nextId, fate,
                     told, settled>>
  BY DEF FiberInv, CallPending, PushValue, AwaitValue, AwaitPendingSync, ReturnToHost, queues,
         counters, io, TypeOK, MayDo, Executing, HoldersOK, SleepOK
<1>2. /\ 0 \in 0..MaxTokens /\ MaxTokens \in Nat /\ nextToken \in 1..(MaxTokens + 1)
      /\ 0 \in 0..MaxFibers /\ \A u \in Uid : u \in 0..MaxFibers
  BY <1>1, BoundsAssumption DEF TypeOK, Uid
<1>3. /\ \E t \in 0..MaxTokens : fiber' = [fiber EXCEPT !.top = t]
      /\ lastPending' \in 0..MaxTokens /\ nextToken' \in 1..(MaxTokens + 1)
      /\ caller' \in 0..MaxFibers
      /\ control' = control \/ (control = "sync" /\ control' = "host")
  <2>1. CASE CallPending
    <3>1. nextToken \in 0..MaxTokens /\ nextToken + 1 \in 1..(MaxTokens + 1)
      BY <1>2, <2>1 DEF CallPending
    <3> QED
      BY <1>1, <1>2, <2>1, <3>1 DEF CallPending
  <2>2. CASE PushValue \/ AwaitValue
    BY <1>1, <1>2, <2>2 DEF PushValue, AwaitValue, counters, io, None, TypeOK
  <2>3. CASE AwaitPendingSync
    BY <1>1, <1>2, <2>3
       DEF AwaitPendingSync, ReturnToHost, PendingTaken, counters, None, TypeOK
  <2> QED
    BY <2>1, <2>2, <2>3
<1>4. /\ fiber' \in Fiber /\ fiber'.frames /\ fiber'.uid = fiber.uid /\ Awake(fiber')
      /\ fiber'.state = fiber.state
  BY <1>1, <1>3 DEF Fiber, Awake
<1>5. TypeOK'
  BY <1>1, <1>3, <1>4 DEF TypeOK
<1>6. HoldersOK' /\ SleepOK' /\ DrainOK'
  BY <1>1, <1>3, <1>4 DEF HoldersOK, SleepOK, DrainOK, Executing
<1>7. OnePlace'
  <2>1. \A u : Holds(fiber', u) = Holds(fiber, u)
    BY <1>1, <1>4 DEF Holds
  <2> QED
    BY <1>1, <2>1, PlacesSum DEF OnePlace
<1>8. RoomOK' /\ NoFalseReport'
  BY <1>1 DEF RoomOK, Unborn, NoFalseReport
<1> QED
  BY <1>5, <1>6, <1>7, <1>8 DEF FiberInv

\* The executing fiber is gone from the main slot, and the main fiber is back.
LEMMA ReleaseStep ==
    ASSUME FiberInv, control \in {"main", "ready"},
           NEW f \in Fiber, ~f.frames, Awake(f), f.state # "Parked", Release(f)
    PROVE  /\ fiber' \in Fiber /\ currentId' \in FiberId /\ saved' = <<>> /\ control' = "drain"
           /\ fiber'.frames => fiber'.uid \in Uid /\ fiber'.state = "Suspended"
           /\ fiber'.state # "Parked"
           /\ ~fiber'.frames => Awake(fiber')
           /\ \A u : Holds(fiber', u) + SavedHolds(saved', u) =
                         Holds(fiber, u) + SavedHolds(saved, u) - (IF fiber.uid = u THEN 1 ELSE 0)
<1>1. /\ TypeOK /\ HoldersOK /\ DrainOK /\ SleepOK /\ control' = "drain" /\ fiber.frames
      /\ saved \in Queue
  BY DEF FiberInv, Release, HoldersOK, Executing, TypeOK, Queue
<1>2. SavedHolds(<<>>, 0) = 0 /\ \A u : SavedHolds(<<>>, u) = 0
  BY DEF SavedHolds
<1>3. \A u : Holds(fiber, u) = (IF fiber.uid = u THEN 1 ELSE 0) /\ Holds(f, u) = 0
  BY <1>1 DEF Holds
<1>4. CASE control = "main"
  <2>1. fiber' = f /\ currentId' = currentId /\ saved' = saved
    BY <1>4 DEF Release
  <2>2. saved = <<>>
    BY <1>1, <1>4, EmptySeq DEF TypeOK
  <2> QED
    BY <1>1, <1>2, <1>3, <2>1, <2>2 DEF TypeOK
<1>5. CASE control = "ready"
  <2>1. fiber' = saved[1].fiber /\ currentId' = saved[1].id /\ saved' = <<>>
    BY <1>5 DEF Release
  <2>2. DOMAIN saved = 1..1 /\ Len(saved) = 1 /\ saved[1] \in QueueEntry
    <3>1. Len(saved) = 1
      BY <1>1, <1>5 DEF TypeOK
    <3>2. DOMAIN saved = 1..1 /\ 1 \in 1..Len(saved)
      BY <1>1, <3>1, QueueSets
    <3> QED
      BY <1>1, <3>1, <3>2, ElementOfSeq DEF Queue
  <2>3. /\ fiber' \in Fiber /\ currentId' \in FiberId
        /\ fiber'.frames => fiber'.uid \in Uid /\ fiber'.state = "Suspended"
        /\ fiber'.state # "Parked"
        /\ ~fiber'.frames => Awake(fiber')
    BY <1>1, <1>5, <2>1, <2>2 DEF QueueEntry, HoldersOK, DrainOK, SleepOK
  <2>4. \A u : SavedHolds(saved, u) = Holds(fiber', u)
    BY <2>1, <2>2 DEF SavedHolds, Holds
  <2>5. \A u : Holds(fiber', u) \in {0, 1}
    BY HoldsTypes
  <2> QED
    BY <1>1, <1>2, <1>3, <2>1, <2>3, <2>4, <2>5
<1> QED
  BY <1>4, <1>5

LEMMA AwaitStep ==
    ASSUME FiberInv, LedgerOK, AwaitPending
    PROVE  FiberInv'
<1> DEFINE e == Entry(currentId, [fiber EXCEPT !.state = "Parked"])
           t == lastPending
<1>1. /\ TypeOK /\ HoldersOK /\ RoomOK /\ OnePlace /\ NoFalseReport /\ DrainOK /\ SleepOK
      /\ control \in {"main", "ready"} /\ t # 0
      /\ parked' = Put(t, e) /\ told' = told \cup {t} /\ lastPending' = 0 /\ caller' = 0
      /\ Release(Empty)
      /\ UNCHANGED <<ready, suspended, finished, nextId, nextToken, fate, settled>>
      /\ fiber \in Fiber /\ currentId \in FiberId /\ Live(fiber) /\ Awake(fiber)
  BY DEF FiberInv, AwaitPending, ToldOfPending, PendingTaken, None, counters, TypeOK,
         HoldersOK, SleepOK, Executing, Live
<1>2. Empty \in Fiber /\ ~Empty.frames /\ Awake(Empty) /\ Empty.state # "Parked"
  BY FiberTypes DEF Empty, Awake
<1>3. /\ fiber' \in Fiber /\ currentId' \in FiberId /\ saved' = <<>> /\ control' = "drain"
      /\ fiber'.frames => fiber'.uid \in Uid /\ fiber'.state = "Suspended"
      /\ fiber'.state # "Parked"
      /\ ~fiber'.frames => Awake(fiber')
      /\ \A u : Holds(fiber', u) + SavedHolds(saved', u) =
                    Holds(fiber, u) + SavedHolds(saved, u) - (IF fiber.uid = u THEN 1 ELSE 0)
  BY <1>1, <1>2, ReleaseStep
<1>4. /\ e \in QueueEntry /\ e.fiber.uid = fiber.uid /\ Live(e.fiber) /\ Awake(e.fiber)
  BY <1>1 DEF Entry, QueueEntry, Fiber, Live, Awake
<1> HIDE DEF e
<1>5. t \in Token /\ t \notin DOMAIN parked /\ DOMAIN parked \subseteq Token
  BY <1>1, BoundsAssumption DEF TypeOK, LedgerOK, IoLedger, Token
<1>6. /\ DOMAIN parked' = DOMAIN parked \cup {t}
      /\ parked' = [s \in DOMAIN parked \cup {t} |-> IF s = t THEN e ELSE parked[s]]
      /\ \A s \in DOMAIN parked' : parked'[s] = e \/ (s \in DOMAIN parked /\ parked'[s] = parked[s])
  BY <1>1 DEF Put
<1>7. TypeOK'
  <2>1. parked' \in [DOMAIN parked' -> QueueEntry]
    BY <1>1, <1>4, <1>6 DEF TypeOK
  <2>2. told' \subseteq Token /\ settled' \subseteq told' /\ 0 \in 0..MaxTokens /\ 0 \in 0..MaxFibers
    BY <1>1, <1>5, BoundsAssumption DEF TypeOK
  <2>3. saved' \in Seq(QueueEntry) /\ Len(saved') = 0
    BY <1>3, EmptySeq
  <2> QED
    BY <1>1, <1>3, <1>5, <1>6, <2>1, <2>2, <2>3 DEF TypeOK
<1>8. HoldersOK' /\ SleepOK' /\ DrainOK'
  BY <1>1, <1>3, <1>4, <1>6 DEF HoldersOK, SleepOK, DrainOK, Executing
<1>9. OnePlace'
  <2> SUFFICES ASSUME NEW u \in Uid PROVE Places(u)' = Places(u)
    BY <1>1 DEF OnePlace
  <2>1. Waits(parked', u) = Waits(parked, u) + (IF fiber.uid = u THEN 1 ELSE 0)
    BY <1>4, <1>5, <1>6, WaitsPut
  <2>2. Holds(fiber', u) + SavedHolds(saved', u) =
            Holds(fiber, u) + SavedHolds(saved, u) - (IF fiber.uid = u THEN 1 ELSE 0)
    BY <1>3
  <2>3. UNCHANGED <<ready, suspended>> /\ TypeOK
    BY <1>1
  <2> QED
    BY <2>1, <2>2, <2>3, PlacesSum, PlaceTypes, HoldsTypes
<1>10. RoomOK' /\ NoFalseReport'
  BY <1>1 DEF RoomOK, Unborn, NoFalseReport
<1> QED
  BY <1>7, <1>8, <1>9, <1>10 DEF FiberInv

\* yield and wait, from run_ready or from a synchronous call.
LEMMA SuspendStep ==
    ASSUME FiberInv, Yield \/ \E d \in 0..MaxWait : Wait(d)
    PROVE  FiberInv'
<1>1. /\ TypeOK /\ HoldersOK /\ RoomOK /\ OnePlace /\ NoFalseReport /\ DrainOK /\ SleepOK
      /\ Executing /\ fiber \in Fiber /\ currentId \in FiberId /\ Live(fiber) /\ Awake(fiber)
      /\ UNCHANGED <<ready, parked, finished, lastPending, nextId, nextToken, fate,
                     caller, told, settled>>
  BY DEF FiberInv, Yield, Wait, Suspend, MayDo, TypeOK, HoldersOK, SleepOK, Executing, Live,
         counters, io
<1>2. PICK f \in Fiber : Suspend(f) /\ Live(f) /\ f.uid = fiber.uid /\ Sleeps(f)
                         /\ f.state = "Suspended"
  <2>1. 0 \in 0..MaxTokens /\ 0 \in 0..MaxWait
    BY BoundsAssumption
  <2>2. CASE Yield
    <3> DEFINE f == [fiber EXCEPT !.state = "Suspended", !.top = None]
    <3>1. f \in Fiber /\ Live(f) /\ f.uid = fiber.uid /\ Sleeps(f) /\ f.state = "Suspended"
      <4>1. f \in Fiber /\ f.uid = fiber.uid /\ f.asked = 0
        BY <1>1, <2>1 DEF Fiber, Awake, None
      <4>2. Live(f) /\ f.state = "Suspended"
        BY <1>1 DEF Fiber, Live, None
      <4> QED
        BY <4>1, <4>2 DEF Sleeps
    <3>2. Suspend(f)
      BY <2>2 DEF Yield
    <3> HIDE DEF f
    <3> QED
      BY <3>1, <3>2 DEF Live
  <2>3. ASSUME NEW d \in 0..MaxWait, Wait(d)
        PROVE  \E f \in Fiber : Suspend(f) /\ Live(f) /\ f.uid = fiber.uid /\ Sleeps(f)
                                /\ f.state = "Suspended"
    <3> DEFINE f == [fiber EXCEPT !.state = "Suspended", !.top = None, !.timer = d, !.asked = d]
    <3>1. f \in Fiber /\ Live(f) /\ f.uid = fiber.uid /\ Sleeps(f) /\ f.state = "Suspended"
      <4>1. f \in Fiber /\ f.uid = fiber.uid /\ f.asked = d /\ f.timer = d /\ f.slept = 0
        BY <1>1, <2>1 DEF Fiber, Awake, None
      <4>2. Live(f) /\ f.state = "Suspended"
        BY <1>1 DEF Fiber, Live, None
      <4>3. d \in Nat
        BY BoundsAssumption
      <4> HIDE DEF f
      <4> QED
        BY <4>1, <4>2, <4>3 DEF Sleeps
    <3>2. Suspend(f)
      BY <2>3 DEF Wait
    <3> HIDE DEF f
    <3> QED
      BY <3>1, <3>2 DEF Live
  <2> QED
    BY <2>2, <2>3
<1>3. RoomOK' /\ NoFalseReport'
  BY <1>1 DEF RoomOK, Unborn, NoFalseReport
<1>4. CASE control = "sync"
  <2>1. control' = "host" /\ fiber' = f /\ UNCHANGED <<currentId, saved, suspended>>
    BY <1>2, <1>4 DEF Suspend, ReturnToHost
  <2>2. TypeOK'
    BY <1>1, <1>2, <1>4, <2>1 DEF TypeOK
  <2>3. HoldersOK' /\ SleepOK' /\ DrainOK'
    BY <1>1, <1>2, <1>4, <2>1 DEF HoldersOK, SleepOK, DrainOK, Executing, Live
  <2>4. OnePlace'
    <3>1. \A u : Holds(fiber', u) = Holds(fiber, u)
      BY <1>1, <1>2, <2>1 DEF Holds, Live
    <3> QED
      BY <1>1, <2>1, <3>1, PlacesSum DEF OnePlace
  <2> QED
    BY <1>3, <2>2, <2>3, <2>4 DEF FiberInv
<1>5. CASE control # "sync"
  <2> DEFINE e == Entry(currentId, f)
  <2>1. control \in {"main", "ready"} /\ Release(Empty) /\ suspended' = Append(suspended, e)
    BY <1>1, <1>2, <1>5 DEF Suspend, Executing
  <2>2. Empty \in Fiber /\ ~Empty.frames /\ Awake(Empty) /\ Empty.state # "Parked"
    BY FiberTypes DEF Empty, Awake
  <2>3. /\ fiber' \in Fiber /\ currentId' \in FiberId /\ saved' = <<>> /\ control' = "drain"
        /\ fiber'.frames => fiber'.uid \in Uid /\ fiber'.state = "Suspended"
        /\ fiber'.state # "Parked"
        /\ ~fiber'.frames => Awake(fiber')
        /\ \A u : Holds(fiber', u) + SavedHolds(saved', u) =
                      Holds(fiber, u) + SavedHolds(saved, u) - (IF fiber.uid = u THEN 1 ELSE 0)
    BY <2>1, <2>2, ReleaseStep
  <2>4. e \in QueueEntry /\ e.fiber = f
    BY <1>1, <1>2 DEF Entry, QueueEntry
  <2> HIDE DEF e
  <2>5. suspended \in Queue /\ suspended' \in Queue
    BY <1>1, <2>1, <2>4, CountOfAppend DEF TypeOK, Queue
  <2>6. \A i \in DOMAIN suspended' :
            suspended'[i] = e \/ \E j \in DOMAIN suspended : suspended'[i] = suspended[j]
    BY <2>1, <2>4, <2>5, AppendProperties, QueueSets DEF Queue
  <2>7. TypeOK'
    <3>1. saved' \in Seq(QueueEntry) /\ Len(saved') = 0
      BY <2>3, EmptySeq
    <3> QED
      BY <1>1, <2>3, <2>5, <3>1 DEF TypeOK, Queue
  <2>8. HoldersOK' /\ SleepOK' /\ DrainOK'
    BY <1>1, <1>2, <2>3, <2>4, <2>6 DEF HoldersOK, SleepOK, DrainOK, Executing
  <2>9. OnePlace'
    <3> SUFFICES ASSUME NEW u \in Uid PROVE Places(u)' = Places(u)
      BY <1>1 DEF OnePlace
    <3>1. Count(suspended', u) = Count(suspended, u) + (IF fiber.uid = u THEN 1 ELSE 0)
      BY <1>2, <2>1, <2>4, <2>5, CountOfAppend
    <3>2. Holds(fiber', u) + SavedHolds(saved', u) =
              Holds(fiber, u) + SavedHolds(saved, u) - (IF fiber.uid = u THEN 1 ELSE 0)
      BY <2>3
    <3>3. UNCHANGED <<ready, parked>> /\ TypeOK
      BY <1>1
    <3> QED
      BY <3>1, <3>2, <3>3, PlacesSum, PlaceTypes, HoldsTypes
  <2> QED
    BY <1>3, <2>7, <2>8, <2>9 DEF FiberInv
<1> QED
  BY <1>4, <1>5

LEMMA FinishStep ==
    ASSUME FiberInv, Finish
    PROVE  FiberInv'
<1> DEFINE over == [fiber EXCEPT !.frames = FALSE, !.top = None]
           c == fiber.uid
<1>1. /\ TypeOK /\ HoldersOK /\ RoomOK /\ OnePlace /\ NoFalseReport /\ DrainOK /\ SleepOK
      /\ Executing /\ fiber \in Fiber /\ currentId \in FiberId /\ Live(fiber) /\ Awake(fiber)
      /\ fate' = [fate EXCEPT ![c] = "finished"] /\ fate[c] = "alive"
      /\ UNCHANGED <<ready, suspended, parked, lastPending, nextId, nextToken,
                     caller, told, settled>>
  BY HoldersAlive
     DEF FiberInv, Finish, MayDo, TypeOK, HoldersOK, SleepOK, Executing, Live, counters, io
<1>2. /\ fate' \in [Uid -> {"unborn", "alive", "finished", "cancelled", "discarded"}]
      /\ c \in Uid /\ fate'[c] = "finished" /\ \A u \in Uid \ {c} : fate'[u] = fate[u]
  BY <1>1 DEF TypeOK, Live
<1>3. over \in Fiber /\ ~over.frames /\ Awake(over) /\ over.state # "Parked"
  <2>1. 0 \in 0..MaxTokens
    BY BoundsAssumption
  <2> QED
    BY <1>1, <2>1 DEF Fiber, Awake, None, DrainOK
<1>4. RoomOK'
  <2>1. Unborn' \subseteq Unborn
    BY <1>2 DEF Unborn
  <2> QED
    BY <1>1, <2>1, RoomStep
<1>5. ASSUME \A u \in Uid : Places(u)' = Places(u) - (IF c = u THEN 1 ELSE 0)
      PROVE  OnePlace'
  <2> SUFFICES ASSUME NEW u \in Uid
               PROVE  Places(u)' = IF fate'[u] = "alive" THEN 1 ELSE 0
    BY DEF OnePlace
  <2>1. Places(u) = IF fate[u] = "alive" THEN 1 ELSE 0
    BY <1>1 DEF OnePlace
  <2>2. Places(u)' = Places(u) - (IF c = u THEN 1 ELSE 0)
    BY <1>5
  <2> QED
    BY <2>1, <2>2, <1>1, <1>2
<1>6. CASE control = "sync"
  <2>1. /\ control' = "host" /\ fiber' = over /\ UNCHANGED <<currentId, saved, finished>>
    BY <1>6 DEF Finish, ReturnToHost
  <2> HIDE DEF over
  <2>2. TypeOK'
    BY <1>1, <1>2, <1>3, <1>6, <2>1 DEF TypeOK
  <2>3. HoldersOK' /\ SleepOK' /\ DrainOK'
    BY <1>1, <1>3, <2>1 DEF HoldersOK, SleepOK, DrainOK, Executing
  <2>4. OnePlace'
    <3>1. ASSUME NEW u \in Uid PROVE Places(u)' = Places(u) - (IF c = u THEN 1 ELSE 0)
      <4>1. Holds(fiber', u) = 0 /\ Holds(fiber, u) = IF c = u THEN 1 ELSE 0
        BY <1>1, <1>3, <2>1 DEF Holds, Live
      <4>2. UNCHANGED <<saved, ready, suspended, parked>> /\ TypeOK
        BY <1>1, <2>1
      <4> QED
        BY <4>1, <4>2, PlacesSum, PlaceTypes
    <3> QED
      BY <3>1, <1>5
  <2>5. NoFalseReport'
    BY <1>1, <1>2, <2>1, FinishedStep
  <2> QED
    BY <1>4, <2>2, <2>3, <2>4, <2>5 DEF FiberInv
<1>7. CASE control # "sync"
  <2> DEFINE f == [over EXCEPT !.state = "Finished"]
             r == [id |-> currentId, uid |-> c]
             R == [id : FiberId, uid : Uid]
  <2>1. control \in {"main", "ready"} /\ Release(f) /\ finished' = Append(finished, r)
    BY <1>1, <1>7 DEF Finish, Executing, Report
  <2>2. f \in Fiber /\ ~f.frames /\ Awake(f) /\ f.state # "Parked"
    BY <1>3 DEF Fiber, Awake
  <2> HIDE DEF f
  <2>3. /\ fiber' \in Fiber /\ currentId' \in FiberId /\ saved' = <<>> /\ control' = "drain"
        /\ fiber'.frames => fiber'.uid \in Uid /\ fiber'.state = "Suspended"
        /\ fiber'.state # "Parked"
        /\ ~fiber'.frames => Awake(fiber')
        /\ \A u : Holds(fiber', u) + SavedHolds(saved', u) =
                      Holds(fiber, u) + SavedHolds(saved, u) - (IF c = u THEN 1 ELSE 0)
    BY <2>1, <2>2, ReleaseStep
  <2>4. r \in R /\ r.uid = c /\ finished \in Seq(R)
    BY <1>1, <1>2 DEF TypeOK
  <2> HIDE DEF r, R
  <2>5. /\ finished' \in Seq(R) /\ Len(finished') = Len(finished) + 1
        /\ \A i \in 1..Len(finished) : finished'[i] = finished[i]
        /\ finished'[Len(finished) + 1] = r
        /\ Len(finished) \in Nat /\ DOMAIN finished = 1..Len(finished)
        /\ DOMAIN finished' = 1..(Len(finished) + 1)
    BY <2>1, <2>4, AppendProperties, LenProperties
  <2>6. TypeOK'
    <3>1. saved' \in Seq(QueueEntry) /\ Len(saved') = 0
      BY <2>3, EmptySeq
    <3> QED
      BY <1>1, <1>2, <2>3, <2>5, <3>1 DEF TypeOK, R
  <2>7. HoldersOK' /\ SleepOK' /\ DrainOK'
    BY <1>1, <2>3 DEF HoldersOK, SleepOK, DrainOK, Executing
  <2>8. OnePlace'
    <3>1. ASSUME NEW u \in Uid PROVE Places(u)' = Places(u) - (IF c = u THEN 1 ELSE 0)
      <4>1. Holds(fiber', u) + SavedHolds(saved', u) =
                Holds(fiber, u) + SavedHolds(saved, u) - (IF c = u THEN 1 ELSE 0)
        BY <2>3
      <4>2. UNCHANGED <<ready, suspended, parked>> /\ TypeOK
        BY <1>1
      <4> QED
        BY <4>1, <4>2, PlacesSum, PlaceTypes, HoldsTypes
    <3> QED
      BY <3>1, <1>5
  <2>9. NoFalseReport'
    <3>1. \A i \in DOMAIN finished : finished[i].uid \in Uid /\ fate[finished[i].uid] = "finished"
      <4>1. \A i \in DOMAIN finished : finished[i] \in R
        BY <2>4, <2>5, ElementOfSeq
      <4> QED
        BY <1>1, <4>1 DEF NoFalseReport, R
    <3>2. \A i \in DOMAIN finished : finished[i].uid # c
      BY <1>1, <3>1
    <3>3. \A i \in DOMAIN finished' :
              \/ i \in DOMAIN finished /\ finished'[i] = finished[i]
              \/ i = Len(finished) + 1 /\ finished'[i] = r
      BY <2>5
    <3> QED
      BY <1>1, <1>2, <2>4, <3>1, <3>2, <3>3 DEF NoFalseReport
  <2> QED
    BY <1>4, <2>6, <2>7, <2>8, <2>9 DEF FiberInv
<1> QED
  BY <1>6, <1>7

\* A runtime error: a main fiber that was set aside is gone.
LEMMA FailStep ==
    ASSUME FiberInv, Fail
    PROVE  FiberInv'
<1> DEFINE m == saved[1].fiber
<1>1. /\ TypeOK /\ HoldersOK /\ RoomOK /\ OnePlace /\ NoFalseReport /\ DrainOK /\ SleepOK
      /\ Executing /\ fiber.frames /\ control' = "host" /\ saved' = <<>> /\ saved \in Queue
      /\ fate' = IF saved # <<>> /\ m.frames THEN [fate EXCEPT ![m.uid] = "discarded"] ELSE fate
      /\ UNCHANGED <<fiber, currentId, ready, suspended, parked, finished, lastPending, nextId,
                     nextToken, caller, told, settled>>
  BY DEF FiberInv, Fail, HoldersOK, TypeOK, Queue, counters, io, queues
<1>2. /\ saved # <<>> => DOMAIN saved = {1}
      /\ saved = <<>> => DOMAIN saved = {}
  BY <1>1, QueueSets, EmptySeq DEF TypeOK
<1>3. saved # <<>> /\ m.frames => m.uid \in Uid /\ fate[m.uid] = "alive"
  BY <1>1, <1>2, HoldersAlive DEF HoldersOK
<1>4. \A u : SavedHolds(saved, u) = (IF saved # <<>> /\ m.frames /\ m.uid = u THEN 1 ELSE 0)
  BY <1>2 DEF SavedHolds
<1> HIDE DEF m
<1>5. /\ fate' \in [Uid -> {"unborn", "alive", "finished", "cancelled", "discarded"}]
      /\ \A u \in Uid : fate'[u] = IF saved # <<>> /\ m.frames /\ m.uid = u
                                   THEN "discarded" ELSE fate[u]
  BY <1>1, <1>3 DEF TypeOK
<1>6. TypeOK'
  <2>1. saved' \in Seq(QueueEntry) /\ Len(saved') = 0
    BY <1>1, EmptySeq
  <2> QED
    BY <1>1, <1>5, <2>1 DEF TypeOK
<1>7. HoldersOK' /\ SleepOK' /\ DrainOK'
  BY <1>1 DEF HoldersOK, SleepOK, DrainOK, Executing
<1>8. RoomOK'
  <2>1. Unborn' \subseteq Unborn
    BY <1>5 DEF Unborn
  <2> QED
    BY <1>1, <2>1, RoomStep
<1>9. NoFalseReport'
  BY <1>1, <1>3, <1>5, FinishedStep
<1>10. OnePlace'
  <2> SUFFICES ASSUME NEW u \in Uid
               PROVE  Places(u)' = IF fate'[u] = "alive" THEN 1 ELSE 0
    BY DEF OnePlace
  <2>1. Places(u) = IF fate[u] = "alive" THEN 1 ELSE 0
    BY <1>1 DEF OnePlace
  <2>2. SavedHolds(saved', u) = 0
    BY <1>1 DEF SavedHolds
  <2>3. UNCHANGED <<fiber, ready, suspended, parked>> /\ TypeOK
    BY <1>1
  <2>4. Places(u)' = Places(u) - SavedHolds(saved, u)
    BY <2>2, <2>3, PlacesSum, PlaceTypes
  <2> QED
    BY <2>1, <2>4, <1>3, <1>4, <1>5
<1> QED
  BY <1>6, <1>7, <1>8, <1>9, <1>10 DEF FiberInv

-----------------------------------------------------------------------------
(* The invariant, and what follows from it.                                *)

LEMMA FiberInit == Init => FiberInv
<1> SUFFICES ASSUME Init PROVE FiberInv
  OBVIOUS
<1>1. /\ fiber = Empty /\ currentId = 1 /\ saved = <<>> /\ ready = <<>> /\ suspended = <<>>
      /\ finished = <<>> /\ parked = [t \in {} |-> 0] /\ lastPending = 0 /\ control = "host"
      /\ nextId = 2 /\ nextToken = 1 /\ fate = [u \in Uid |-> "unborn"]
      /\ caller = 0 /\ told = {} /\ settled = {}
  BY DEF Init, None
<1>2. /\ 1 \in FiberId /\ 2 \in FiberId \cup {MaxFibers + 2} /\ MaxFibers \in Nat
      /\ 0 \in 0..MaxTokens /\ 0 \in 0..MaxFibers /\ 1 \in 1..(MaxTokens + 1)
  BY BoundsAssumption DEF FiberId
<1>3. Empty \in Fiber /\ ~Empty.frames /\ Awake(Empty) /\ Empty.state # "Parked"
  BY FiberTypes DEF Empty, Awake
<1>4. \A S : <<>> \in Seq(S) /\ Len(<<>>) = 0
  BY EmptySeq
<1>5. DOMAIN parked = {} /\ parked \in [DOMAIN parked -> QueueEntry]
  BY <1>1
<1>6. TypeOK
  BY <1>1, <1>2, <1>3, <1>4, <1>5 DEF TypeOK
<1>7. HoldersOK /\ SleepOK /\ DrainOK
  BY <1>1, <1>3, <1>5 DEF HoldersOK, SleepOK, DrainOK, Executing
<1>8. RoomOK
  <2>1. Unborn = 1..MaxFibers
    BY <1>1 DEF Unborn, Uid
  <2>2. Cardinality(1..MaxFibers) = MaxFibers
    BY <1>2, BoundsAssumption, FS_Interval
  <2> QED
    BY <1>1, <1>2, <2>1, <2>2 DEF RoomOK
<1>9. OnePlace
  <2> SUFFICES ASSUME NEW u \in Uid PROVE Places(u) = 0
    BY <1>1 DEF OnePlace
  <2>1. Holds(fiber, u) = 0 /\ SavedHolds(saved, u) = 0
    BY <1>1, <1>3 DEF Holds, SavedHolds
  <2>2. Count(ready, u) = 0 /\ Count(suspended, u) = 0
    <3>1. ready \in Queue /\ suspended \in Queue
      BY <1>1, <1>4 DEF Queue
    <3>2. DOMAIN ready = {} /\ DOMAIN suspended = {}
      BY <1>1
    <3> QED
      BY <3>1, <3>2, QueueSets
  <2>3. Waits(parked, u) = 0
    BY <1>5, WaitsType
  <2> QED
    BY <2>1, <2>2, <2>3, PlacesSum
<1>10. NoFalseReport
  BY <1>1 DEF NoFalseReport
<1> QED
  BY <1>6, <1>7, <1>8, <1>9, <1>10 DEF FiberInv

LEMMA FiberStep ==
    ASSUME FiberInv, LedgerOK, [Next]_vars
    PROVE  FiberInv'
<1>1. CASE UNCHANGED vars
  <2>1. UNCHANGED <<fiber, currentId, saved, ready, suspended, parked, finished, lastPending,
                    control, nextId, nextToken, fate, caller, told, settled>>
    BY <1>1 DEF vars, queues, counters, io
  <2>2. TypeOK' /\ HoldersOK' /\ RoomOK' /\ NoFalseReport' /\ DrainOK' /\ SleepOK'
    BY <2>1 DEF FiberInv, TypeOK, HoldersOK, RoomOK, Unborn, NoFalseReport, DrainOK, SleepOK, Executing
  <2>3. OnePlace'
    BY <2>1, PlacesSum DEF FiberInv, OnePlace
  <2> QED
    BY <2>2, <2>3 DEF FiberInv
<1>2. CASE Host
  BY <1>2, LoadStep, SpawnStep, InterpretStep, CallInStep, ResumeStep, CancelStep, PromoteStep
     DEF Host
<1>3. CASE RunReady
  BY <1>3, MainStep, TakeStep DEF RunReady
<1>4. CASE Script
  BY <1>4, SpawnStep, TopStep, AwaitStep, SuspendStep, FinishStep, FailStep DEF Script, Leave
<1> QED
  BY <1>1, <1>2, <1>3, <1>4 DEF Next

\* The inductive invariant: every action of the host, run_ready and scripts keeps
\* the queues, the ledger, the timers and the main slot consistent.
THEOREM InvariantHolds == Spec => []IInv
<1>1. Init => IInv
  BY FiberInit, LedgerInit, EndInit DEF IInv
<1>2. IInv /\ [Next]_vars => IInv'
  BY FiberStep, LedgerStep, EndStep DEF IInv, FiberInv
<1> QED
  BY <1>1, <1>2, PTL DEF Spec

\* Every variable keeps its type, and there is a FiberId left for every fiber.
THEOREM TypeCorrect == Spec => []TypeOK
<1>1. IInv => TypeOK
  BY DEF IInv, FiberInv
<1> QED
  BY <1>1, InvariantHolds, PTL

\* For any number of fibers and any use of the host API a live fiber is in
\* exactly one place and an ended one in none: spawn, yield, wait, await, late
\* answers, cancellations and errors lose no fiber and double none.
THEOREM FiberInOnePlace == Spec => []OnePlace
<1>1. IInv => OnePlace
  BY DEF IInv, FiberInv
<1> QED
  BY <1>1, InvariantHolds, PTL

\* finished_fibers never reports a fiber twice, nor one that did not run to its
\* end, and it reports every one that did, unless the host uses interpret or
\* call, which hand the result back instead.
THEOREM ResultReportedOnce == Spec => []FinishedOnce
<1>1. IInv => FinishedOnce
  BY DEF IInv, FiberInv, EndOK, FinishedOnce
<1> QED
  BY <1>1, InvariantHolds, PTL

\* The operations the IoProvider was told of and that are not settled are
\* exactly those a fiber is parked on.
THEOREM LedgerExact == Spec => []IoLedger
<1>1. IInv => IoLedger
  BY DEF IInv, LedgerOK
<1> QED
  BY <1>1, InvariantHolds, PTL

\* No fiber that asked to wait is ready early, or kept once its time is over.
THEOREM WaitsKept == Spec => []WaitsAsAsked
<1>1. IInv => WaitsAsAsked
  <2> SUFFICES ASSUME FiberInv PROVE WaitsAsAsked
    BY DEF IInv
  <2>1. suspended \in Queue /\ SleepOK
    BY DEF FiberInv, TypeOK, Queue
  <2>2. ASSUME NEW i \in DOMAIN suspended, suspended[i].fiber.asked > 0
        PROVE  suspended[i].fiber.slept < suspended[i].fiber.asked
    <3>1. suspended[i] \in QueueEntry
      BY <2>1, QueueSets, ElementOfSeq DEF Queue
    <3>2. /\ suspended[i].fiber.slept \in Int /\ suspended[i].fiber.timer \in Int
          /\ suspended[i].fiber.asked \in Int
      BY <3>1, BoundsAssumption DEF QueueEntry, Fiber
    <3> QED
      BY <2>1, <2>2, <3>2 DEF SleepOK, Sleeps
  <2> QED
    BY <2>1, <2>2 DEF WaitsAsAsked, SleepOK
<1> QED
  BY <1>1, InvariantHolds, PTL

\* What run_ready returns is true: AllDone if and only if no fiber is left,
\* AllParked only when every one that is left waits for an answer.
THEOREM StatusIsTrue == Spec => []StatusTruthful
<1>1. IInv => StatusTruthful
  <2> SUFFICES ASSUME FiberInv, control = "drain", ready = <<>>
               PROVE  /\ Status = "AllDone" <=> \A u \in Uid : fate[u] # "alive"
                      /\ Status = "AllParked" =>
                             \A u \in Uid : fate[u] = "alive" => ParkedOn(u) # {}
                      /\ Status = "Suspended" => suspended # <<>>
    BY DEF StatusTruthful, IInv
  <2>1. /\ TypeOK /\ HoldersOK /\ OnePlace /\ DrainOK
        /\ suspended \in Queue /\ ready \in Queue /\ DOMAIN parked \subseteq Token
    BY DEF FiberInv, TypeOK, Queue
  <2>2. saved = <<>>
    BY <2>1, EmptySeq DEF TypeOK
  <2>3. \A u \in Uid : Count(ready, u) = 0 /\ SavedHolds(saved, u) = 0
    BY <2>1, <2>2, QueueSets DEF SavedHolds
  <2>4. MainActive <=> fiber.frames
    BY <2>1 DEF MainActive, DrainOK
  <2>5. ASSUME suspended = <<>>, ~fiber.frames, NEW u \in Uid, fate[u] = "alive"
        PROVE  ParkedOn(u) # {}
    <3>1. Places(u) = 1
      BY <2>1, <2>5 DEF OnePlace
    <3>2. Count(suspended, u) = 0 /\ Holds(fiber, u) = 0
      BY <2>1, <2>5, QueueSets DEF Holds
    <3>3. Waits(parked, u) = 1
      BY <2>3, <3>1, <3>2, <2>1, PlacesSum, PlaceTypes
    <3>4. DOMAIN parked \subseteq Token
      BY <2>1
    <3>5. Waits(parked, u) = 0 <=> \A t \in DOMAIN parked : parked[t].fiber.uid # u
      BY <3>4, WaitsType
    <3> QED
      BY <3>3, <3>5 DEF ParkedOn
  <2>6. Status = "AllDone" => suspended = <<>> /\ ~fiber.frames /\ DOMAIN parked = {}
    BY <2>4 DEF Status
  <2>7. Status = "AllParked" => suspended = <<>> /\ ~fiber.frames
    BY <2>4 DEF Status
  <2>8. Status = "Suspended" => suspended # <<>>
    BY DEF Status
  <2>9. Status = "AllDone" => \A u \in Uid : fate[u] # "alive"
    BY <2>5, <2>6 DEF ParkedOn
  <2>10. ASSUME \A u \in Uid : fate[u] # "alive" PROVE Status = "AllDone"
    <3>1. ~fiber.frames /\ DOMAIN parked = {} /\ DOMAIN suspended = {}
      <4>1. ~fiber.frames
        BY <2>1, <2>10, HoldersAlive DEF HoldersOK
      <4>2. ASSUME NEW i \in DOMAIN suspended PROVE FALSE
        BY <2>1, <2>10, HoldersAlive DEF HoldersOK, Live
      <4>3. ASSUME NEW t \in DOMAIN parked PROVE FALSE
        BY <2>1, <2>10, HoldersAlive DEF HoldersOK, Live
      <4> QED
        BY <4>1, <4>2, <4>3
    <3>2. suspended = <<>>
      BY <2>1, <3>1, QueueSets, EmptySeq DEF Queue
    <3> QED
      BY <2>4, <3>1, <3>2 DEF Status
  <2> QED
    BY <2>5, <2>7, <2>8, <2>9, <2>10
<1> QED
  BY <1>1, InvariantHolds, PTL
=============================================================================
