--------------------------- MODULE VmMemoryProofs ---------------------------
(***************************************************************************)
(* Proofs about VmMemory, for every limit, threshold and heap: driven by   *)
(* run_fiber and the host's gc_* calls, the heap keeps the invariant that  *)
(* GcHeapProofs shows for the heap alone and stays an ObjectStore; a       *)
(* collection always leaves the object count below the new threshold       *)
(* (CollectorKeepsUp); and as long as objects do not change their size,    *)
(* bytes_allocated is what the heap owns (BytesExact) and the memory limit *)
(* holds between instructions (MemoryCeiling).                             *)
(***************************************************************************)
EXTENDS VmMemory, GcHeapProofs

\* Except for gc_set_threshold, whatever the interpreter loop and the host do
\* is, to the heap, a step of GcHeap or none.
LEMMA HeapStepOrThreshold ==
  ASSUME [MemoryNext]_memoryVars
  PROVE  [Next]_vars \/ \E n \in Thresholds : GcSetThreshold(n)
  <1>1. CASE EnterFiber \/ EndInstruction \/ LeaveFiber \/ FailOnLimit \/ NextInstruction
    BY <1>1 DEF EnterFiber, EndInstruction, LeaveFiber, FailOnLimit, NextInstruction
  <1>2. CASE Instruction \/ CollectAfterInstruction \/ CollectorStep \/ GcCollect
    BY <1>2 DEF Instruction, CollectAfterInstruction, CollectorStep, GcCollect, Next
  <1>3. ASSUME NEW b \in BOOLEAN, GcEnable(b)
        PROVE  UNCHANGED vars
    BY <1>3 DEF GcEnable
  <1>4. CASE UNCHANGED memoryVars
    BY <1>4 DEF memoryVars
  <1> QED BY <1>1, <1>2, <1>3, <1>4 DEF MemoryNext

\* gc_set_threshold touches nothing else the invariants speak of, and nothing the
\* store shows.
LEMMA ThresholdStep ==
  ASSUME StoreInv, NEW n \in Thresholds, GcSetThreshold(n)
  PROVE  StoreInv' /\ UNCHANGED Store!vars
  <1>1. /\ UNCHANGED <<slots, pushed, generations, freeList, objectCount, bytesAllocated>>
        /\ UNCHANGED <<roots, phase, rootsLeft, worklist, cursor, allocations, issued>>
        /\ threshold' \in Nat
    BY HostThresholdAssumption DEF GcSetThreshold, heapVars, ghosts
  <1>2. HeapInv /\ TypeOK /\ MarksOK /\ IdsOK
    BY DEF StoreInv, CollectInv, HeapInv
  <1>3. TypeOK'
    BY <1>1, <1>2 DEF TypeOK
  <1>4. SlotsAccounted'
    BY <1>1, <1>2 DEF HeapInv, SlotsAccounted
  <1>5. GenerationsOK' /\ IssuedOK' /\ PhaseOK'
    BY <1>1, <1>2 DEF HeapInv, GenerationsOK, IssuedOK, RefTo, PhaseOK
  <1>6. TriColor'
    BY <1>1, <1>2 DEF HeapInv, TriColor, Live, Marked, Survives
  <1>7. MarksOK'
    <2>1. Reachable' = Reachable
      BY <1>1, <1>2, <1>3, SameReachable DEF Live, Get
    <2> QED BY <1>1, <1>2, <2>1 DEF MarksOK, RefTo
  <1>8. IdsOK'
    BY <1>1, <1>2 DEF IdsOK
  <1>9. UNCHANGED Store!vars
    BY <1>1 DEF Store!vars
  <1> QED BY <1>3, <1>4, <1>5, <1>6, <1>7, <1>8, <1>9 DEF StoreInv, CollectInv, HeapInv

\* The invariant of the heap, with run_fiber and the host as its callers.
LEMMA MemoryInvariant == MemorySpec => []StoreInv
  <1>1. MemoryInit => StoreInv
    BY HeapInvInit DEF MemoryInit, StoreInv, CollectInv, MarksOK, IdsOK, Init
  <1>2. StoreInv /\ [MemoryNext]_memoryVars => StoreInv'
    <2> SUFFICES ASSUME StoreInv, [MemoryNext]_memoryVars
                 PROVE  StoreInv'
      OBVIOUS
    <2>1. CASE [Next]_vars
      BY <2>1, TypeStep, AccountStep, GenerationsStep, IssuedStep, PhaseStep, TriColorStep,
         MarksStep, IdsStep
         DEF StoreInv, CollectInv, HeapInv
    <2>2. CASE \E n \in Thresholds : GcSetThreshold(n)
      BY <2>2, ThresholdStep
    <2> QED BY <2>1, <2>2, HeapStepOrThreshold
  <1> QED BY <1>1, <1>2, PTL DEF MemorySpec

\* Whenever the limit fails an instruction, the host collects, or the host sets
\* the threshold: references never find a later object, the slots stay accounted
\* for, and a collection frees exactly the garbage.
THEOREM MemoryKeepsHeap ==
  MemorySpec => [](HeapInv /\ NoAlias /\ SlotsAccounted /\ CollectsExactlyGarbage)
  <1>1. StoreInv => HeapInv /\ CollectInv
    BY DEF StoreInv, CollectInv
  <1>2. HeapInv => NoAlias
    BY HeapInvNoAlias
  <1>3. HeapInv => SlotsAccounted
    BY DEF HeapInv
  <1>4. CollectInv => CollectsExactlyGarbage
    BY CollectInvExact
  <1> QED BY <1>1, <1>2, <1>3, <1>4, MemoryInvariant, PTL

\* With the interpreter loop and the host as its callers, the heap is still the
\* store of never-reused objects.
THEOREM MemoryImplementsStore == MemorySpec => ImplementsStore
  <1>1. StoreInv /\ StoreInv' /\ [MemoryNext]_memoryVars => [Store!Next]_(Store!vars)
    BY StoreStep, HeapStepOrThreshold, ThresholdStep
  <1>2. MemoryInit => Store!Init
    BY StoreInit DEF MemoryInit
  <1> QED BY <1>1, <1>2, MemoryInvariant, PTL DEF MemorySpec, ImplementsStore, Store!Spec

-----------------------------------------------------------------------------
\* Of a collection's steps only the end of the sweep returns to the program.
LEMMA ReturnIsEndSweep ==
  ASSUME Collect, CollectorDone
  PROVE  EndSweep
  <1>1. ASSUME NEW r, MarkRoot(r) \/ MarkStep(r)
        PROVE  phase' = "mark"
    BY <1>1 DEF MarkRoot, MarkStep
  <1>2. CASE StartSweep \/ SweepSlot
    BY <1>2 DEF StartSweep, SweepSlot, CollectorDone
  <1> QED BY <1>1, <1>2 DEF Collect, CollectorDone

\* What sweep() sets the threshold to is more than the objects it left.
LEMMA NextThresholdAbove ==
  ASSUME NEW n \in Nat
  PROVE  n < Greater(n * Growth, MinThreshold)
  <1>1. Growth \in Nat /\ Growth >= 2 /\ MinThreshold \in Nat /\ MinThreshold >= 1
    BY ThresholdAssumption, GrowthAssumption
  <1>2. CASE n = 0
    BY <1>1, <1>2 DEF Greater
  <1>3. CASE n > 0
    <2>1. n * Growth \in Nat /\ n * Growth >= 2 * n
      BY <1>1
    <2> QED BY <1>1, <1>3, <2>1 DEF Greater
  <1> QED BY <1>2, <1>3

\* For every limit, every threshold the host sets, every object graph: with gc
\* enabled run_fiber begins an instruction below the threshold, be it after a
\* collection (sweep recomputes it) or after none (should_collect).
THEOREM CollectorAlwaysKeepsUp == MemorySpec => CollectorKeepsUp
  <1>1. HeapInv /\ [MemoryNext]_memoryVars =>
           [GoesOn /\ gcEnabled => objectCount' < threshold']_memoryVars
    <2> SUFFICES ASSUME HeapInv, MemoryNext, GoesOn, gcEnabled
                 PROVE  objectCount' < threshold'
      OBVIOUS
    <2>1. objectCount \in Nat /\ threshold \in Nat
      BY DEF HeapInv, TypeOK
    <2>2. NextInstruction \/ (CollectorStep /\ CollectorDone)
      BY DEF GoesOn, MemoryNext, EnterFiber, Instruction, EndInstruction, LeaveFiber,
             FailOnLimit, CollectAfterInstruction, CollectorStep, GcCollect, GcEnable,
             GcSetThreshold
    <2>3. CASE NextInstruction
      <3>1. UNCHANGED <<objectCount, threshold>> /\ ~ShouldCollect
        BY <2>3 DEF NextInstruction, vars, heapVars, collectorVars
      <3> QED BY <2>1, <3>1 DEF ShouldCollect
    <2>4. CASE CollectorStep /\ CollectorDone
      <3>1. EndSweep
        BY <2>4, ReturnIsEndSweep DEF CollectorStep
      <3>2. objectCount' = objectCount /\ threshold' = Greater(objectCount * Growth, MinThreshold)
        BY <3>1 DEF EndSweep, NextThreshold, heapVars
      <3> QED BY <2>1, <3>2, NextThresholdAbove
    <2> QED BY <2>2, <2>3, <2>4
  <1> QED BY <1>1, MemoryKeepsHeap, PTL DEF MemorySpec, CollectorKeepsUp

-----------------------------------------------------------------------------
(* Sums over a finite set, as the community modules compute them: one      *)
(* element after another, in the order CHOOSE gives.                       *)

Pick(s) == CHOOSE x \in s : TRUE

IsSum(t, v, S) ==
    t = [s \in SUBSET S |-> IF s = {} THEN 0 ELSE v[Pick(s)] + t[s \ {Pick(s)}]]

\* What is true of the subsets of S by induction on their size.
LEMMA SizeInduction ==
  ASSUME NEW S, IsFiniteSet(S), NEW P \in SUBSET SUBSET S, {} \in P,
         \A s \in SUBSET S : s # {} /\ (\A r \in SUBSET s : r # s => r \in P) => s \in P
  PROVE  P = SUBSET S
  <1> DEFINE Q == {k \in Nat : \A s \in SUBSET S : Cardinality(s) <= k => s \in P}
  <1>1. \A s \in SUBSET S : IsFiniteSet(s) /\ Cardinality(s) \in Nat
    BY FS_Subset, FS_CardinalityType
  <1>2. 0 \in Q
    <2>1. ASSUME NEW s \in SUBSET S, Cardinality(s) <= 0
          PROVE  s = {}
      BY <1>1, <2>1, FS_EmptySet
    <2> QED BY <2>1
  <1>3. ASSUME NEW k \in Nat, k \in Q
        PROVE  k + 1 \in Q
    <2> SUFFICES ASSUME NEW s \in SUBSET S, Cardinality(s) <= k + 1
                 PROVE  s \in P
      OBVIOUS
    <2>1. ASSUME NEW r \in SUBSET s, r # s
          PROVE  r \in P
      <3>1. Cardinality(r) <= Cardinality(s) /\ Cardinality(r) # Cardinality(s)
        BY <1>1, <2>1, FS_Subset
      <3>2. Cardinality(r) <= k
        BY <1>1, <3>1
      <3> QED BY <1>3, <3>2
    <2> QED BY <2>1
  <1> HIDE DEF Q
  <1>4. Nat \subseteq Q
    BY <1>2, <1>3, SetInduction
  <1>5. ASSUME NEW s \in SUBSET S
        PROVE  s \in P
    BY <1>1, <1>4 DEF Q
  <1> QED BY <1>5

\* The sum of a finite set exists.
LEMMA SumExists ==
  ASSUME NEW S, IsFiniteSet(S), NEW v
  PROVE  \E t : IsSum(t, v, S)
  <1> DEFINE Up(k) == {s \in SUBSET S : Cardinality(s) <= k}
             F(t, s) == IF s = {} THEN 0 ELSE v[Pick(s)] + t[s \ {Pick(s)}]
             Q == {k \in Nat : \E t : t = [s \in Up(k) |-> F(t, s)]}
  <1>1. \A s \in SUBSET S : IsFiniteSet(s) /\ Cardinality(s) \in Nat
    BY FS_Subset, FS_CardinalityType
  <1>2. 0 \in Q
    <2>1. \A s \in Up(0) : s = {}
      BY <1>1, FS_EmptySet
    <2> DEFINE t == [s \in Up(0) |-> 0]
    <2>2. t = [s \in Up(0) |-> F(t, s)]
      BY <2>1
    <2> QED BY <2>2
  <1>3. ASSUME NEW k \in Nat, k \in Q
        PROVE  k + 1 \in Q
    <2>1. PICK t : t = [s \in Up(k) |-> F(t, s)]
      BY <1>3
    <2> DEFINE u == [s \in Up(k + 1) |-> F(t, s)]
    <2>2. ASSUME NEW s \in Up(k + 1), s # {}
          PROVE  s \ {Pick(s)} \in Up(k) \cap Up(k + 1)
      <3>1. Pick(s) \in s
        BY <2>2 DEF Pick
      <3>2. Cardinality(s \ {Pick(s)}) = Cardinality(s) - 1
        BY <1>1, <3>1, FS_RemoveElement
      <3> QED BY <1>1, <3>2
    <2>3. \A s \in Up(k) \cap Up(k + 1) : t[s] = u[s]
      <3> HIDE DEF F, Up
      <3> QED BY <2>1
    <2>4. \A s \in Up(k + 1) : F(t, s) = F(u, s)
      <3> HIDE DEF u, Up
      <3> QED BY <2>2, <2>3
    <2>5. u = [s \in Up(k + 1) |-> F(u, s)]
      <3> HIDE DEF F, Up
      <3> QED BY <2>4
    <2> HIDE DEF u, F, Up
    <2> QED BY <2>5
  <1> HIDE DEF Q
  <1>4. Nat \subseteq Q
    BY <1>2, <1>3, SetInduction
  <1>5. PICK t : t = [s \in Up(Cardinality(S)) |-> F(t, s)]
    BY <1>1, <1>4 DEF Q
  <1>6. Up(Cardinality(S)) = SUBSET S
    BY FS_Subset
  <1> HIDE DEF Up
  <1>7. IsSum(t, v, S)
    BY <1>5, <1>6 DEF IsSum
  <1> QED BY <1>7

\* A sum is a number, and any element may be taken out first.
LEMMA SumTakeOut ==
  ASSUME NEW S, IsFiniteSet(S), NEW v, \A x \in S : v[x] \in Nat, NEW t, IsSum(t, v, S)
  PROVE  /\ t[{}] = 0
         /\ \A s \in SUBSET S : t[s] \in Nat
         /\ \A s \in SUBSET S : \A x \in s : t[s] = v[x] + t[s \ {x}]
  <1>1. t[{}] = 0
    BY DEF IsSum
  <1>2. \A s \in SUBSET S : s # {} => Pick(s) \in s /\ t[s] = v[Pick(s)] + t[s \ {Pick(s)}]
    BY DEF IsSum, Pick
  <1> DEFINE P == {s \in SUBSET S : t[s] \in Nat /\ \A x \in s : t[s] = v[x] + t[s \ {x}]}
  <1>3. {} \in P
    BY <1>1
  <1>4. ASSUME NEW s \in SUBSET S, s # {}, \A r \in SUBSET s : r # s => r \in P
        PROVE  s \in P
    <2> DEFINE y == Pick(s)
    <2>1. y \in s /\ t[s] = v[y] + t[s \ {y}] /\ v[y] \in Nat
      BY <1>2, <1>4
    <2> HIDE DEF y
    <2>2. \A x \in s : s \ {x} \in P
      BY <1>4
    <2>3. t[s] \in Nat
      BY <2>1, <2>2
    <2>4. ASSUME NEW x \in s
          PROVE  t[s] = v[x] + t[s \ {x}]
      <3>1. CASE x = y
        BY <2>1, <3>1
      <3>2. CASE x # y
        <4>1. x \in s \ {y} /\ y \in s \ {x} /\ (s \ {y}) \ {x} = (s \ {x}) \ {y}
          BY <2>1, <3>2
        <4>2. t[s \ {y}] = v[x] + t[(s \ {y}) \ {x}] /\ t[s \ {x}] = v[y] + t[(s \ {x}) \ {y}]
          BY <2>1, <2>2, <4>1
        <4>3. (s \ {x}) \ {y} \in P
          BY <1>4, <2>1
        <4>4. t[(s \ {x}) \ {y}] \in Nat /\ v[x] \in Nat
          BY <4>3
        <4>5. PICK a, b, c \in Nat : a = v[x] /\ b = v[y] /\ c = t[(s \ {x}) \ {y}]
          BY <2>1, <4>4
        <4>6. t[s] = b + (a + c)
          BY <2>1, <4>1, <4>2, <4>5
        <4>7. t[s \ {x}] = b + c
          BY <4>2, <4>5
        <4>8. t[s] = a + t[s \ {x}]
          BY <4>6, <4>7
        <4> QED BY <4>5, <4>8
      <3> QED BY <3>1, <3>2
    <2> QED BY <2>3, <2>4
  <1>5. P \in SUBSET SUBSET S
    OBVIOUS
  <1> HIDE DEF P
  <1>6. P = SUBSET S
    BY <1>3, <1>4, <1>5, SizeInduction
  <1> QED BY <1>1, <1>6 DEF P

\* Sums of the same numbers are the same.
LEMMA SumAgrees ==
  ASSUME NEW S, IsFiniteSet(S), NEW v, \A x \in S : v[x] \in Nat, NEW t, IsSum(t, v, S),
         NEW T, S \subseteq T, NEW w, NEW u, IsSum(u, w, T), \A x \in S : w[x] = v[x]
  PROVE  t[S] = u[S]
  <1> DEFINE P == {s \in SUBSET S : t[s] = u[s]}
  <1>1. t[{}] = 0 /\ u[{}] = 0
    BY DEF IsSum
  <1>2. ASSUME NEW s \in SUBSET S, s # {}, \A r \in SUBSET s : r # s => r \in P
        PROVE  s \in P
    <2>1. Pick(s) \in s
      BY <1>2 DEF Pick
    <2>2. t[s] = v[Pick(s)] + t[s \ {Pick(s)}]
      BY <1>2 DEF IsSum
    <2>3. u[s] = w[Pick(s)] + u[s \ {Pick(s)}]
      BY <1>2 DEF IsSum
    <2>4. s \ {Pick(s)} \in P
      BY <1>2, <2>1
    <2> QED BY <2>1, <2>2, <2>3, <2>4
  <1>3. {} \in P /\ P \in SUBSET SUBSET S
    BY <1>1
  <1> HIDE DEF P
  <1>4. P = SUBSET S
    BY <1>2, <1>3, SizeInduction
  <1> QED BY <1>4 DEF P

-----------------------------------------------------------------------------
(* bytes_allocated and the bytes the heap owns.                            *)

SizeOf == [i \in DOMAIN slots |-> slots[i].object.size]

\* OwnedBytes is the sum of the sizes of the objects.
OwnedIsSum ==
    /\ \A i \in DOMAIN slots : SizeOf[i] \in Nat
    /\ IsFiniteSet(DOMAIN slots)
    /\ \E t : IsSum(t, SizeOf, DOMAIN slots) /\ OwnedBytes = t[DOMAIN slots]

LEMMA OwnedBytesSum == HeapInv => OwnedIsSum
  <1> SUFFICES ASSUME HeapInv
               PROVE  OwnedIsSum
    OBVIOUS
  <1> DEFINE D == DOMAIN slots
             I(t) == t = [s \in SUBSET D |->
                            IF s = {} THEN 0
                            ELSE slots[CHOOSE x \in s : TRUE].object.size
                                   + t[s \ {CHOOSE x \in s : TRUE}]]
  <1>1. \A i \in D : SizeOf[i] \in Nat
    BY SizesAssumption DEF HeapInv, TypeOK, GcSlot, NiObject, SizeOf
  <1>2. IsFiniteSet(D)
    BY SlotsFinite
  <1>3. OwnedBytes = (CHOOSE t : I(t))[D]
    BY DEF OwnedBytes, MapThenSumSet, MapThenFoldSet
  <1>4. \A t : I(t) <=> IsSum(t, SizeOf, D)
    <2> DEFINE F(t, s) == IF s = {} THEN 0 ELSE slots[Pick(s)].object.size + t[s \ {Pick(s)}]
               G(t, s) == IF s = {} THEN 0 ELSE SizeOf[Pick(s)] + t[s \ {Pick(s)}]
    <2>1. \A s \in SUBSET D : s # {} => SizeOf[Pick(s)] = slots[Pick(s)].object.size
      BY DEF SizeOf, Pick
    <2>2. \A t : \A s \in SUBSET D : F(t, s) = G(t, s)
      BY <2>1
    <2>3. \A t : I(t) <=> t = [s \in SUBSET D |-> F(t, s)]
      BY DEF Pick
    <2>4. \A t : IsSum(t, SizeOf, D) <=> t = [s \in SUBSET D |-> G(t, s)]
      BY DEF IsSum
    <2> HIDE DEF F, G, I
    <2>5. ASSUME NEW t
          PROVE  [s \in SUBSET D |-> F(t, s)] = [s \in SUBSET D |-> G(t, s)]
      BY <2>2
    <2> QED BY <2>3, <2>4, <2>5
  <1> HIDE DEF I
  <1>5. \E t : I(t)
    BY <1>2, <1>4, SumExists
  <1>6. \E t : I(t) /\ OwnedBytes = t[D]
    BY <1>3, <1>5
  <1> QED BY <1>1, <1>2, <1>4, <1>6 DEF OwnedIsSum

\* A new object adds its size to what the heap owns, and one that is freed takes
\* its size away: the two directions of one equation.
LEMMA OneMoreObject ==
  ASSUME NEW D, IsFiniteSet(D), NEW v, NEW t, IsSum(t, v, D),
         NEW E, IsFiniteSet(E), NEW w, NEW u, IsSum(u, w, E),
         \A x \in E : w[x] \in Nat,
         NEW i \in E, D = E \ {i}, \A x \in D : w[x] = v[x]
  PROVE  u[E] = t[D] + w[i] /\ t[D] \in Nat
  <1>1. u[E] = w[i] + u[D] /\ u[D] \in Nat
    BY SumTakeOut
  <1>2. \A x \in D : v[x] \in Nat
    OBVIOUS
  <1>3. t[D] = u[D]
    <2>1. D \subseteq E /\ \A x \in D : w[x] = v[x]
      OBVIOUS
    <2> QED BY <1>2, <2>1, SumAgrees
  <1> QED BY <1>1, <1>3

\* What a step does to the bytes owned, by what it does to the slots.
LEMMA OwnedStep ==
  ASSUME OwnedIsSum, OwnedIsSum',
         \A j \in DOMAIN slots \cap DOMAIN slots' : slots'[j].object.size = slots[j].object.size
  PROVE  /\ DOMAIN slots' = DOMAIN slots => OwnedBytes' = OwnedBytes
         /\ \A i : DOMAIN slots' = DOMAIN slots \cup {i} /\ i \notin DOMAIN slots =>
                      OwnedBytes' = OwnedBytes + slots'[i].object.size
         /\ \A i \in DOMAIN slots : DOMAIN slots' = DOMAIN slots \ {i} =>
                      /\ OwnedBytes = OwnedBytes' + slots[i].object.size
                      /\ OwnedBytes' \in Nat
  <1>1. PICK t : IsSum(t, SizeOf, DOMAIN slots) /\ OwnedBytes = t[DOMAIN slots]
    BY DEF OwnedIsSum
  <1>2. PICK u : IsSum(u, SizeOf', DOMAIN slots') /\ OwnedBytes' = u[DOMAIN slots']
    BY DEF OwnedIsSum
  <1>3. PICK D, v, E, w : D = DOMAIN slots /\ v = SizeOf /\ E = DOMAIN slots' /\ w = SizeOf'
    OBVIOUS
  <1>4. /\ IsFiniteSet(D) /\ \A x \in D : v[x] \in Nat /\ v[x] = slots[x].object.size
        /\ IsFiniteSet(E) /\ \A x \in E : w[x] \in Nat /\ w[x] = slots'[x].object.size
    BY <1>3 DEF OwnedIsSum, SizeOf
  <1>5. \A x \in D \cap E : w[x] = v[x]
    BY <1>3, <1>4
  <1>6. IsSum(t, v, D) /\ IsSum(u, w, E) /\ OwnedBytes = t[D] /\ OwnedBytes' = u[E]
    BY <1>1, <1>2, <1>3
  <1>7. ASSUME D = E
        PROVE  OwnedBytes' = OwnedBytes
    <2>1. t[D] = u[D]
      BY <1>4, <1>5, <1>6, <1>7, SumAgrees
    <2> QED BY <1>6, <1>7, <2>1
  <1>8. ASSUME NEW i, E = D \cup {i}, i \notin D
        PROVE  OwnedBytes' = OwnedBytes + slots'[i].object.size
    <2>1. i \in E /\ D = E \ {i} /\ \A x \in D : w[x] = v[x]
      BY <1>5, <1>8
    <2>2. u[E] = t[D] + w[i]
      BY <1>4, <1>6, <2>1, OneMoreObject
    <2> QED BY <1>4, <1>6, <2>1, <2>2
  <1>9. ASSUME NEW i \in D, E = D \ {i}
        PROVE  OwnedBytes = OwnedBytes' + slots[i].object.size /\ OwnedBytes' \in Nat
    <2>1. \A x \in E : v[x] = w[x]
      BY <1>5, <1>9
    <2>2. t[D] = u[E] + v[i] /\ u[E] \in Nat
      BY <1>4, <1>6, <1>9, <2>1, OneMoreObject
    <2> QED BY <1>4, <1>6, <2>2
  <1> QED BY <1>3, <1>7, <1>8, <1>9

\* bytes_allocated changes when an object is made and when one is freed.
LEMMA BytesCases ==
  ASSUME HeapInv, [Next]_vars
  PROVE  \/ \E S \in SUBSET Reachable, sz \in Sizes : Alloc(S, sz)
         \/ cursor \in DOMAIN slots /\ SweepSlot /\ Free(cursor)
         \/ DOMAIN slots' = DOMAIN slots /\ bytesAllocated' = bytesAllocated
  <1>1. CASE UNCHANGED heapVars
    BY <1>1 DEF heapVars
  <1>2. ASSUME NEW r, NEW S, NEW sz, SetObject(r, S, sz)
        PROVE  DOMAIN slots' = DOMAIN slots /\ bytesAllocated' = bytesAllocated
    BY <1>2 DEF SetObject
  <1>3. ASSUME NEW r, MarkStep(r)
        PROVE  DOMAIN slots' = DOMAIN slots /\ bytesAllocated' = bytesAllocated
    BY <1>3 DEF MarkStep
  <1>4. ASSUME SweepSlot, ~(cursor \in DOMAIN slots /\ Free(cursor))
        PROVE  DOMAIN slots' = DOMAIN slots /\ bytesAllocated' = bytesAllocated
    BY <1>4 DEF SweepSlot, Unmark
  <1> QED BY <1>1, <1>2, <1>3, <1>4
          DEF Next, Program, Collect, AddRoot, DropRoot, StartCollect, MarkRoot,
              StartSweep, EndSweep, vars

\* Without growth in place an object keeps its size as long as it lives.
LEMMA SizesKept ==
  ASSUME HeapInv, [MemoryNext]_memoryVars, ~InPlaceGrowth
  PROVE  \A i \in DOMAIN slots \cap DOMAIN slots' :
            slots'[i].object.size = slots[i].object.size
  <1> DEFINE Kept == \A i \in DOMAIN slots \cap DOMAIN slots' :
                        slots'[i].object.size = slots[i].object.size
  <1>1. CASE Instruction
    BY <1>1 DEF Instruction
  <1>2. CASE UNCHANGED slots
    BY <1>2
  <1>3. CASE Collect
    <2>1. slots \in [DOMAIN slots -> GcSlot]
      BY DEF HeapInv, TypeOK
    <2>2. ASSUME NEW r \in GcRef, MarkStep(r)
          PROVE  Kept
      BY <2>1, <2>2 DEF MarkStep, NeedsVisit, Live, GcSlot
    <2>3. ASSUME SweepSlot
          PROVE  Kept
      BY <2>1, <2>3 DEF SweepSlot, Free, Unmark, GcSlot
    <2>4. ASSUME NEW r, MarkRoot(r)
          PROVE  Kept
      BY <2>4 DEF MarkRoot, heapVars
    <2>5. CASE StartSweep \/ EndSweep
      BY <2>5 DEF StartSweep, EndSweep, heapVars
    <2> QED BY <1>3, <2>2, <2>3, <2>4, <2>5 DEF Collect
  <1>4. \/ Instruction \/ Collect \/ UNCHANGED slots
    BY DEF MemoryNext, memoryVars, EnterFiber, EndInstruction, LeaveFiber, FailOnLimit,
           CollectAfterInstruction, NextInstruction, CollectorStep, GcCollect, GcEnable,
           GcSetThreshold, StartCollect, vars, heapVars
  <1> QED BY <1>1, <1>2, <1>3, <1>4

\* Allocating adds an object's size to both sides, freeing takes it from both.
LEMMA BytesExactStep ==
  ASSUME HeapInv, HeapInv', BytesExact, [MemoryNext]_memoryVars
  PROVE  BytesExact'
  <1> SUFFICES ASSUME ~InPlaceGrowth
               PROVE  bytesAllocated' = OwnedBytes'
    BY DEF BytesExact
  <1>1. bytesAllocated = OwnedBytes /\ bytesAllocated \in Nat
    BY DEF BytesExact, HeapInv, TypeOK
  <1>2. OwnedIsSum /\ OwnedIsSum'
    <2>1. HeapInv' => OwnedIsSum'
      BY OwnedBytesSum, PTL
    <2> QED BY <2>1, OwnedBytesSum
  <1>3. \A i \in DOMAIN slots \cap DOMAIN slots' :
           slots'[i].object.size = slots[i].object.size
    BY SizesKept
  <1>4. CASE DOMAIN slots' = DOMAIN slots /\ bytesAllocated' = bytesAllocated
    BY <1>1, <1>2, <1>3, <1>4, OwnedStep
  <1>5. ASSUME NEW S \in SUBSET Reachable, NEW sz \in Sizes, Alloc(S, sz)
        PROVE  bytesAllocated' = OwnedBytes'
    <2>1. PICK i : i = AllocIndex
      OBVIOUS
    <2>2. DOMAIN slots' = DOMAIN slots \cup {i} /\ i \notin DOMAIN slots
      BY <1>5, <2>1, AllocEffect, AllocTarget
    <2>3. slots'[i].object.size = sz /\ bytesAllocated' = bytesAllocated + sz
      BY <1>5, <2>1 DEF Alloc
    <2>4. OwnedBytes' = OwnedBytes + slots'[i].object.size
      BY <1>2, <1>3, <2>2, OwnedStep
    <2> QED BY <1>1, <2>3, <2>4
  <1>6. CASE cursor \in DOMAIN slots /\ Free(cursor)
    <2>1. PICK i : i = cursor
      OBVIOUS
    <2>2. /\ i \in DOMAIN slots /\ DOMAIN slots' = DOMAIN slots \ {i}
          /\ bytesAllocated' = Greater(bytesAllocated - slots[i].object.size, 0)
      BY <1>6, <2>1 DEF Free
    <2>3. OwnedBytes = OwnedBytes' + slots[i].object.size /\ OwnedBytes' \in Nat
      BY <1>2, <1>3, <2>2, OwnedStep
    <2>4. slots[i].object.size \in Nat
      BY <1>2, <2>2 DEF OwnedIsSum, SizeOf
    <2> QED BY <1>1, <2>2, <2>3, <2>4 DEF Greater
  <1>7. CASE \E n \in Thresholds : GcSetThreshold(n)
    BY <1>4, <1>7 DEF GcSetThreshold, heapVars
  <1> QED BY <1>4, <1>5, <1>6, <1>7, BytesCases, HeapStepOrThreshold

\* A collection starts only below the limit, and gives bytes back.
LEMMA GcBelowLimitStep ==
  ASSUME HeapInv, at = "gc" => bytesAllocated <= MemoryLimit, [MemoryNext]_memoryVars
  PROVE  at' = "gc" => bytesAllocated' <= MemoryLimit
  <1> SUFFICES ASSUME at' = "gc"
               PROVE  bytesAllocated' <= MemoryLimit
    OBVIOUS
  <1>1. bytesAllocated \in Nat /\ MemoryLimit \in Nat
    BY LimitAssumption DEF HeapInv, TypeOK
  <1>2. CASE CollectAfterInstruction
    BY <1>1, <1>2 DEF CollectAfterInstruction, LimitExceeded, StartCollect, heapVars
  <1>3. CASE CollectorStep
    <2>1. at = "gc" /\ Collect
      BY <1>3 DEF CollectorStep
    <2>2. bytesAllocated' = bytesAllocated \/ (cursor \in DOMAIN slots /\ Free(cursor))
      BY <2>1 DEF Collect, MarkRoot, MarkStep, StartSweep, SweepSlot, EndSweep, Unmark, heapVars
    <2>3. ASSUME cursor \in DOMAIN slots, Free(cursor)
          PROVE  bytesAllocated' <= bytesAllocated
      <3>1. slots[cursor].object.size \in Nat
        BY <2>3, SizesAssumption DEF HeapInv, TypeOK, GcSlot, NiObject
      <3>2. bytesAllocated' = Greater(bytesAllocated - slots[cursor].object.size, 0)
        BY <2>3 DEF Free
      <3> QED BY <1>1, <3>1, <3>2 DEF Greater
    <2>4. bytesAllocated' \in Int
      BY <1>1, <2>2, SizesAssumption DEF HeapInv, TypeOK, GcSlot, NiObject, Free, Greater
    <2> QED BY <1>1, <2>1, <2>2, <2>3, <2>4
  <1>4. CASE UNCHANGED memoryVars
    BY <1>4 DEF memoryVars, vars, heapVars
  <1> QED BY <1>2, <1>3, <1>4
          DEF MemoryNext, EnterFiber, Instruction, EndInstruction, LeaveFiber, FailOnLimit,
              NextInstruction, GcCollect, GcEnable, GcSetThreshold

\* For every sequence of allocations, collections, failed instructions and host
\* calls: as long as no object changes its size in place, bytes_allocated is the sum
\* of size_bytes() over the objects in the heap, so the saturating subtraction of
\* sweep() never hides anything (alloc, sweep).
THEOREM BytesAreExact == MemorySpec => []BytesExact
  <1>1. HeapInv /\ MemoryInit => BytesExact
    <2> SUFFICES ASSUME HeapInv, MemoryInit
                 PROVE  bytesAllocated = OwnedBytes
      BY DEF BytesExact
    <2>1. OwnedIsSum
      BY OwnedBytesSum
    <2>2. PICK t : IsSum(t, SizeOf, DOMAIN slots) /\ OwnedBytes = t[DOMAIN slots]
      BY <2>1 DEF OwnedIsSum
    <2>3. DOMAIN slots = {} /\ bytesAllocated = 0
      BY DEF MemoryInit, Init
    <2>4. t[{}] = 0
      BY <2>2 DEF IsSum
    <2> QED BY <2>2, <2>3, <2>4
  <1>2. HeapInv /\ HeapInv' /\ BytesExact /\ [MemoryNext]_memoryVars => BytesExact'
    BY BytesExactStep
  <1> QED BY <1>1, <1>2, MemoryKeepsHeap, PTL DEF MemorySpec

\* As long as no object changes its size in place, run_fiber goes from one
\* instruction to the next only while the heap owns no more than memory_limit,
\* whether it collected in between or not.  With growth in place it does not hold,
\* as a run shows.
THEOREM LimitIsCeiling == ~InPlaceGrowth => (MemorySpec => MemoryCeiling)
  <1> SUFFICES ASSUME ~InPlaceGrowth
               PROVE  MemorySpec => MemoryCeiling
    OBVIOUS
  <1> DEFINE GcBelow == at = "gc" => bytesAllocated <= MemoryLimit
  <1>1. MemoryInit => GcBelow
    BY DEF MemoryInit
  <1>2. HeapInv /\ GcBelow /\ [MemoryNext]_memoryVars => GcBelow'
    BY GcBelowLimitStep
  <1>3. HeapInv /\ GcBelow /\ BytesExact /\ BytesExact' /\ [MemoryNext]_memoryVars =>
           [GoesOn => OwnedBytes' <= MemoryLimit]_memoryVars
    <2> SUFFICES ASSUME HeapInv, GcBelow, BytesExact, BytesExact', MemoryNext, GoesOn
                 PROVE  OwnedBytes' <= MemoryLimit
      OBVIOUS
    <2>1. bytesAllocated' = OwnedBytes'
      BY DEF BytesExact
    <2>2. NextInstruction \/ (CollectorStep /\ CollectorDone /\ at = "gc")
      BY DEF GoesOn, MemoryNext, EnterFiber, Instruction, EndInstruction, LeaveFiber,
             FailOnLimit, CollectAfterInstruction, CollectorStep, GcCollect, GcEnable,
             GcSetThreshold
    <2>3. bytesAllocated' = bytesAllocated
      <3>1. CASE NextInstruction
        BY <3>1 DEF NextInstruction, vars, heapVars
      <3>2. CASE CollectorStep /\ CollectorDone
        BY <3>2, ReturnIsEndSweep DEF CollectorStep, EndSweep, heapVars
      <3> QED BY <2>2, <3>1, <3>2
    <2>4. bytesAllocated <= MemoryLimit
      <3>1. CASE NextInstruction
        <4>1. ~(bytesAllocated > MemoryLimit)
          BY <3>1 DEF NextInstruction, LimitExceeded
        <4>2. bytesAllocated \in Nat /\ MemoryLimit \in Nat
          BY LimitAssumption DEF HeapInv, TypeOK
        <4> QED BY <4>1, <4>2
      <3> QED BY <2>2, <3>1
    <2> QED BY <2>1, <2>3, <2>4
  <1> HIDE DEF GcBelow
  <1> QED BY <1>1, <1>2, <1>3, MemoryKeepsHeap, BytesAreExact, PTL DEF MemorySpec, MemoryCeiling

=============================================================================
