---------------------------- MODULE GcHeapProofs ----------------------------
(***************************************************************************)
(* Proofs about GcHeap, for every value of its bounds: the types, that a   *)
(* reference never finds a later object (NoAlias), the accounting of slots *)
(* (SlotsAccounted), and that a collection never frees an object a root or *)
(* a surviving object holds (HeldRefsSurvive).  They follow from one       *)
(* inductive invariant, HeapInv, of five named parts.                      *)
(*                                                                         *)
(* Then what a collection keeps and what it frees, for every object graph: *)
(* a collection of gc.rs frees exactly the objects no root leads to        *)
(* (CollectsExactlyGarbage), and the heap implements the store of          *)
(* never-reused objects (ImplementsStore).  Both rest on a fact about      *)
(* Reachable, which the code computes by a worklist and the specifications *)
(* define by a bounded walk: it is the least set that holds the roots and  *)
(* the references of its own objects.                                      *)
(***************************************************************************)
EXTENDS GcHeap, FiniteSetTheorems, SequenceTheorems, WellFoundedInduction, TLAPS

\* Generations count the uses of an index: 0 above the arena, and in a slot in
\* use that of the last alloc.
GenerationsOK ==
    /\ \A i \in Index : generations[i] = 0 <=> i >= pushed
    /\ \A i \in DOMAIN slots : i < pushed /\ slots[i].generation = generations[i]

\* The reference to the object in slot i that alloc gave out.
RefTo(i) == [index |-> i, generation |-> slots[i].generation]

\* No reference has a generation that is still to come, and the objects in the
\* heap are those their references were first given out for.
IssuedOK ==
    /\ \A r \in DOMAIN issued : r.generation <= generations[r.index]
    /\ \A i \in DOMAIN slots : RefTo(i) \in DOMAIN issued
                               /\ issued[RefTo(i)] = slots[i].object.id

\* A mark exists only where the collector is, or is still to sweep.
PhaseOK ==
    /\ phase # "sweep" => cursor = 0
    /\ phase # "mark" => worklist = {} /\ rootsLeft = {}
    /\ phase = "program" => \A i \in DOMAIN slots : ~slots[i].marked
    /\ phase = "sweep" => /\ cursor <= pushed
                          /\ \A i \in DOMAIN slots : i < cursor => ~slots[i].marked

\* The object behind r will outlive this collection, or is about to be marked.
Marked(r) == slots[r.index].marked \/ r \in worklist
Survives(r) == slots[r.index].marked \/ r.index < cursor

\* The collector's obligation.  While it marks, everything a root it has looked
\* at, or a marked object, refers to is marked or on the worklist; while it
\* sweeps, everything a root or a survivor refers to survives.
TriColor ==
    /\ phase = "mark" =>
          /\ \A r \in roots \ rootsLeft : Live(r) => Marked(r)
          /\ \A i \in DOMAIN slots : slots[i].marked =>
                \A r \in slots[i].object.refs : Live(r) => Marked(r)
    /\ phase = "sweep" =>
          /\ \A r \in roots : Live(r) => Survives(r)
          /\ \A i \in DOMAIN slots : slots[i].marked \/ i < cursor =>
                \A r \in slots[i].object.refs : Live(r) => Survives(r)

HeapInv == TypeOK /\ SlotsAccounted /\ GenerationsOK /\ IssuedOK /\ PhaseOK /\ TriColor

-----------------------------------------------------------------------------
(* Facts about the definitions the steps are made of.                      *)

\* What the program can reach are references (MarkStep and Program pick from it).
LEMMA ReachableType == Reachable \subseteq GcRef
  BY DEF Reachable

\* What is known of a sequence without its last element.
LEMMA PopLast ==
  ASSUME NEW T, NEW s \in Seq(T), s # <<>>
  PROVE  /\ Len(s) \in Nat \ {0}
         /\ s[Len(s)] \in T
         /\ SubSeq(s, 1, Len(s) - 1) \in Seq(T)
         /\ Len(SubSeq(s, 1, Len(s) - 1)) = Len(s) - 1
         /\ \A k \in 1..(Len(s) - 1) : SubSeq(s, 1, Len(s) - 1)[k] = s[k]
  <1>1. Len(s) \in Nat \ {0}
    BY EmptySeq
  <1>2. \A k \in 1..Len(s) : s[k] \in T
    BY ElementOfSeq
  <1>3. \A k \in 1..(Len(s) - 1) : s[k] \in T
    BY <1>1, <1>2
  <1> DEFINE n == Len(s) - 1
  <1>4. n \in Nat /\ \A k \in 1..n : s[k] \in T
    BY <1>1, <1>3
  <1> HIDE DEF n
  <1>5. /\ SubSeq(s, 1, n) \in Seq(T)
        /\ Len(SubSeq(s, 1, n)) = IF 1 <= n THEN n - 1 + 1 ELSE 0
        /\ \A k \in 1..(n - 1 + 1) : SubSeq(s, 1, n)[k] = s[1 + k - 1]
    BY <1>4, SubSeqProperties
  <1>6. /\ SubSeq(s, 1, n) \in Seq(T)
        /\ Len(SubSeq(s, 1, n)) = n
        /\ \A k \in 1..n : SubSeq(s, 1, n)[k] = s[k]
    BY <1>4, <1>5
  <1> QED BY <1>1, <1>2, <1>6 DEF n

\* The slot alloc takes is inside the bounds and empty.
LEMMA AllocTarget ==
  ASSUME HeapInv, NEW S, NEW sz, Alloc(S, sz)
  PROVE  /\ AllocIndex \in Index \ DOMAIN slots
         /\ AllocIndex < pushed'
         /\ pushed \in Nat /\ pushed' \in 0..MaxSlots
         /\ pushed' = IF AllocIndex = pushed THEN pushed + 1 ELSE pushed
         /\ freeList = <<>> <=> AllocIndex = pushed
  <1>1. pushed \in 0..MaxSlots /\ MaxSlots \in Nat
    BY BoundsAssumption DEF HeapInv, TypeOK
  <1>2. CASE freeList = <<>>
    <2>1. AllocIndex = pushed /\ pushed' = pushed + 1 /\ pushed < MaxSlots
      BY <1>2 DEF Alloc, AllocIndex
    <2>2. pushed \notin DOMAIN slots
      BY <1>1 DEF HeapInv, GenerationsOK
    <2> QED BY <1>1, <1>2, <2>1, <2>2 DEF Index
  <1>3. CASE freeList # <<>>
    <2>1. AllocIndex = freeList[Len(freeList)] /\ pushed' = pushed
      BY <1>3 DEF Alloc, AllocIndex
    <2>2. freeList \in Seq(Index)
      BY DEF HeapInv, TypeOK
    <2>3. Len(freeList) \in 1..Len(freeList)
      BY <1>3, <2>2, PopLast
    <2>4. AllocIndex \in (0..(pushed - 1)) \ DOMAIN slots
      BY <2>1, <2>3 DEF HeapInv, SlotsAccounted
    <2> QED BY <1>1, <1>3, <2>1, <2>4 DEF Index
  <1> QED BY <1>2, <1>3

\* The generation alloc gives it was never given out for that slot.
LEMMA AllocGeneration ==
  ASSUME HeapInv, NEW S, NEW sz, Alloc(S, sz)
  PROVE  LET i == AllocIndex
             g == NextGeneration(i)
         IN  /\ g \in 1..MaxGeneration
             /\ \A r \in DOMAIN issued : r.index = i => r.generation < g
             /\ [index |-> i, generation |-> g] \in GcRef
             /\ [index |-> i, generation |-> g] \notin DOMAIN issued
  <1> DEFINE i == AllocIndex
             g == NextGeneration(i)
  <1>1. i \in Index
    BY AllocTarget
  <1>2. generations[i] \in 0..MaxGeneration /\ MaxGeneration \in Nat
    BY <1>1, BoundsAssumption DEF HeapInv, TypeOK
  <1>3. g = generations[i] + 1 /\ g <= MaxGeneration
    BY DEF NextGeneration, Alloc
  <1>4. g \in 1..MaxGeneration
    BY <1>2, <1>3
  <1>5. ASSUME NEW r \in DOMAIN issued, r.index = i
        PROVE  r.generation < g
    <2>1. r.generation <= generations[i]
      BY <1>5 DEF HeapInv, IssuedOK
    <2>2. r.generation \in 1..MaxGeneration
      BY DEF HeapInv, TypeOK, GcRef
    <2> QED BY <1>2, <1>3, <2>1, <2>2
  <1>6. [index |-> i, generation |-> g] \in GcRef
    BY <1>1, <1>4 DEF GcRef
  <1>7. [index |-> i, generation |-> g] \notin DOMAIN issued
    <2> SUFFICES ASSUME [index |-> i, generation |-> g] \in DOMAIN issued
                 PROVE  FALSE
      OBVIOUS
    <2> DEFINE r == [index |-> i, generation |-> g]
    <2>1. r.generation < g /\ r.generation = g
      BY <1>5
    <2> QED BY <1>2, <1>3, <2>1
  <1> QED BY <1>4, <1>5, <1>6, <1>7

-----------------------------------------------------------------------------
(* The types are kept.  objectCount stays a number because a slot that is  *)
(* freed was counted (SlotsAccounted).                                     *)

\* The arena is finite, so the object count is a number.
LEMMA SlotsFinite ==
  ASSUME HeapInv
  PROVE  IsFiniteSet(DOMAIN slots) /\ Cardinality(DOMAIN slots) \in Nat
  <1>1. IsFiniteSet(Index)
    BY FS_Interval, BoundsAssumption DEF Index
  <1> QED BY <1>1, FS_Subset, FS_CardinalityType DEF HeapInv, TypeOK

\* alloc, the program, mark and sweep keep every variable in its type.
LEMMA TypeStep == HeapInv /\ [Next]_vars => TypeOK'
  <1> SUFFICES ASSUME HeapInv, [Next]_vars
               PROVE  TypeOK'
    OBVIOUS
  <1> USE BoundsAssumption, SizesAssumption, ThresholdAssumption
  <1>1. ASSUME NEW S \in SUBSET Reachable, NEW sz \in Sizes, Alloc(S, sz)
        PROVE  TypeOK'
    <2> DEFINE i == AllocIndex
               g == NextGeneration(i)
               o == [refs |-> S, size |-> sz, id |-> allocations + 1]
    <2>1. i \in Index /\ pushed' \in 0..MaxSlots
      BY <1>1, AllocTarget
    <2>2. g \in 1..MaxGeneration /\ [index |-> i, generation |-> g] \in GcRef
      BY <1>1, AllocGeneration
    <2>3. allocations' = allocations + 1 /\ allocations' \in 1..MaxObjects
      <3>1. allocations' = allocations + 1 /\ allocations < MaxObjects
        BY <1>1 DEF Alloc
      <3>2. allocations \in 0..MaxObjects
        BY DEF HeapInv, TypeOK
      <3> QED BY <3>1, <3>2
    <2>4. o \in NiObject
      BY <2>3, ReachableType DEF NiObject
    <2>5. DOMAIN slots' \subseteq Index /\ slots' \in [DOMAIN slots' -> GcSlot]
      <3>1. [object |-> o, generation |-> g, marked |-> FALSE] \in GcSlot
        BY <2>2, <2>4 DEF GcSlot
      <3>2. slots' = [j \in DOMAIN slots \cup {i} |->
                        IF j = i THEN [object |-> o, generation |-> g, marked |-> FALSE]
                        ELSE slots[j]]
        BY <1>1 DEF Alloc
      <3>3. DOMAIN slots \subseteq Index /\ slots \in [DOMAIN slots -> GcSlot]
        BY DEF HeapInv, TypeOK
      <3> HIDE DEF o, g, i
      <3> QED BY <3>1, <3>2, <3>3, <2>1
    <2>6. generations' \in [Index -> 0..MaxGeneration]
      <3>1. generations' = [generations EXCEPT ![i] = g]
        BY <1>1 DEF Alloc
      <3>2. generations \in [Index -> 0..MaxGeneration]
        BY DEF HeapInv, TypeOK
      <3> HIDE DEF i, g
      <3> QED BY <2>1, <2>2, <3>1, <3>2
    <2>7. freeList' \in Seq(Index)
      <3>1. freeList \in Seq(Index)
        BY DEF HeapInv, TypeOK
      <3>2. CASE freeList # <<>>
        BY <1>1, <3>1, <3>2, PopLast DEF Alloc, FreeListPopped
      <3>3. CASE freeList = <<>>
        BY <1>1, <3>1, <3>3 DEF Alloc
      <3> QED BY <3>2, <3>3
    <2>8. objectCount' \in Nat /\ bytesAllocated' \in Nat
      <3>1. objectCount' = objectCount + 1 /\ bytesAllocated' = bytesAllocated + sz
        BY <1>1 DEF Alloc
      <3>2. objectCount \in Nat /\ bytesAllocated \in Nat
        BY DEF HeapInv, TypeOK
      <3> QED BY <3>1, <3>2
    <2>9. roots' \subseteq GcRef
      BY <1>1, <2>2 DEF HeapInv, TypeOK, Alloc
    <2>10. DOMAIN issued' \subseteq GcRef /\ issued' \in [DOMAIN issued' -> 1..MaxObjects]
      <3>1. issued' = Issue([index |-> i, generation |-> g])
        BY <1>1 DEF Alloc
      <3>2. DOMAIN issued \subseteq GcRef /\ issued \in [DOMAIN issued -> 1..MaxObjects]
        BY DEF HeapInv, TypeOK
      <3> HIDE DEF i, g
      <3> QED BY <2>2, <2>3, <3>1, <3>2 DEF Issue
    <2>11. /\ threshold' \in Nat
           /\ rootsLeft' \subseteq GcRef /\ worklist' \subseteq GcRef
           /\ phase' \in {"program", "mark", "sweep"}
           /\ cursor' \in 0..MaxSlots
      <3>1. UNCHANGED collectorVars
        BY <1>1 DEF Alloc
      <3> QED BY <3>1 DEF HeapInv, TypeOK, collectorVars
    <2>12. allocations' \in 0..MaxObjects
      BY <2>3
    <2> QED BY <2>1, <2>5, <2>6, <2>7, <2>8, <2>9, <2>10, <2>11, <2>12 DEF TypeOK
  <1>2. ASSUME NEW r \in Reachable, NEW S \in SUBSET Reachable, NEW sz \in Sizes,
               SetObject(r, S, sz)
        PROVE  TypeOK'
    <2>1. DOMAIN slots' \subseteq Index /\ slots' \in [DOMAIN slots' -> GcSlot]
      BY <1>2, ReachableType DEF HeapInv, TypeOK, SetObject, GcSlot, NiObject
    <2> QED BY <1>2, <2>1 DEF HeapInv, TypeOK, SetObject, collectorVars, ghosts
  <1>3. ASSUME NEW r, AddRoot(r)
        PROVE  TypeOK'
    BY <1>3 DEF HeapInv, TypeOK, AddRoot, heapVars, collectorVars, ghosts
  <1>4. ASSUME NEW r, DropRoot(r)
        PROVE  TypeOK'
    BY <1>4 DEF HeapInv, TypeOK, DropRoot, heapVars, collectorVars, ghosts
  <1>5. CASE StartCollect
    BY <1>5 DEF HeapInv, TypeOK, StartCollect, MarkedRoots, heapVars, ghosts
  <1>6. ASSUME NEW r \in GcRef, MarkRoot(r)
        PROVE  TypeOK'
    BY <1>6 DEF HeapInv, TypeOK, MarkRoot, heapVars, ghosts
  <1>7. ASSUME NEW r \in GcRef, MarkStep(r)
        PROVE  TypeOK'
    <2>1. CASE NeedsVisit(r)
      <3>1. r.index \in DOMAIN slots
        BY <2>1 DEF NeedsVisit, Live
      <3>2. Get(r).refs \subseteq GcRef
        BY <3>1 DEF HeapInv, TypeOK, Get, GcSlot, NiObject
      <3>3. DOMAIN slots' \subseteq Index /\ slots' \in [DOMAIN slots' -> GcSlot]
        <4>1. slots' = [slots EXCEPT ![r.index].marked = TRUE]
          BY <1>7, <2>1 DEF MarkStep
        <4>2. DOMAIN slots \subseteq Index /\ slots \in [DOMAIN slots -> GcSlot]
          BY DEF HeapInv, TypeOK
        <4> QED BY <3>1, <4>1, <4>2 DEF GcSlot
      <3> QED BY <1>7, <2>1, <3>2, <3>3 DEF HeapInv, TypeOK, MarkStep, References, ghosts
    <2>2. CASE ~NeedsVisit(r)
      BY <1>7, <2>2 DEF HeapInv, TypeOK, MarkStep, ghosts
    <2> QED BY <2>1, <2>2
  <1>8. CASE StartSweep
    BY <1>8 DEF HeapInv, TypeOK, StartSweep, heapVars, ghosts
  <1>9. CASE SweepSlot
    <2>1. cursor' \in 0..MaxSlots
      BY <1>9 DEF HeapInv, TypeOK, SweepSlot
    <2>2. CASE cursor \in DOMAIN slots /\ Free(cursor)
      <3>1. objectCount' \in Nat
        <4>1. Cardinality(DOMAIN slots) # 0
          BY <2>2, SlotsFinite, FS_EmptySet
        <4> QED BY <2>2, <4>1 DEF HeapInv, TypeOK, SlotsAccounted, Free
      <3>2. bytesAllocated' \in Nat
        <4>1. slots[cursor] \in GcSlot /\ bytesAllocated \in Nat
          BY <2>2 DEF HeapInv, TypeOK
        <4>2. slots[cursor].object.size \in Nat
          BY <4>1 DEF GcSlot, NiObject
        <4>3. bytesAllocated' = Greater(bytesAllocated - slots[cursor].object.size, 0)
          BY <2>2 DEF Free
        <4> QED BY <4>1, <4>2, <4>3 DEF Greater
      <3>3. DOMAIN slots' \subseteq Index /\ slots' \in [DOMAIN slots' -> GcSlot]
        BY <2>2 DEF HeapInv, TypeOK, Free
      <3>4. freeList' \in Seq(Index)
        BY <2>2, AppendProperties DEF HeapInv, TypeOK, Free
      <3> QED BY <1>9, <2>1, <3>1, <3>2, <3>3, <3>4
              DEF HeapInv, TypeOK, SweepSlot, ghosts
    <2>3. CASE cursor \in DOMAIN slots /\ Unmark(cursor)
      <3>1. DOMAIN slots' \subseteq Index /\ slots' \in [DOMAIN slots' -> GcSlot]
        BY <2>3 DEF HeapInv, TypeOK, Unmark, GcSlot
      <3> QED BY <1>9, <2>1, <2>3, <3>1
              DEF HeapInv, TypeOK, SweepSlot, Unmark, ghosts
    <2>4. CASE UNCHANGED <<slots, freeList, objectCount, bytesAllocated>>
      BY <1>9, <2>1, <2>4 DEF HeapInv, TypeOK, SweepSlot, ghosts
    <2> QED BY <1>9, <2>2, <2>3, <2>4 DEF SweepSlot
  <1>10. CASE EndSweep
    BY <1>10 DEF HeapInv, TypeOK, EndSweep, NextThreshold, Greater, heapVars, ghosts
  <1>11. CASE UNCHANGED vars
    BY <1>11 DEF HeapInv, TypeOK, vars, heapVars, collectorVars, ghosts
  <1> QED BY <1>1, <1>2, <1>3, <1>4, <1>5, <1>6, <1>7, <1>8, <1>9, <1>10, <1>11
          DEF Next, Program, Collect

-----------------------------------------------------------------------------
(* What steps other than alloc leave alone.                                *)

\* No slot is filled, and one that stays in use keeps its generation and its
\* object; either none is emptied, or one is and the free list takes it.
NothingNew ==
    /\ UNCHANGED <<pushed, generations, allocations, issued>>
    /\ \A i \in DOMAIN slots' : /\ slots'[i].generation = slots[i].generation
                               /\ slots'[i].object.id = slots[i].object.id
    /\ \/ DOMAIN slots' = DOMAIN slots /\ UNCHANGED <<freeList, objectCount>>
       \/ cursor \in DOMAIN slots /\ ~slots[cursor].marked /\ phase = "sweep" /\ Free(cursor)

\* A step is an alloc, or it creates nothing: generations, references given out
\* and object identities stay, and slots only empty, by the sweep.
LEMMA AllocOrNothingNew ==
  ASSUME HeapInv, [Next]_vars
  PROVE  NothingNew \/ \E S \in SUBSET Reachable, sz \in Sizes : Alloc(S, sz)
  <1>0. DOMAIN slots \subseteq Index /\ slots \in [DOMAIN slots -> GcSlot]
    BY DEF HeapInv, TypeOK
  <1>1. CASE UNCHANGED heapVars /\ UNCHANGED ghosts
    BY <1>1 DEF NothingNew, heapVars, ghosts
  <1>2. ASSUME NEW r \in Reachable, NEW S \in SUBSET Reachable, NEW sz \in Sizes,
               SetObject(r, S, sz)
        PROVE  NothingNew
    <2>1. slots' = [slots EXCEPT ![r.index].object = [@ EXCEPT !.refs = S, !.size = sz]]
      BY <1>2 DEF SetObject
    <2>2. \A i \in DOMAIN slots : slots'[i].generation = slots[i].generation
                                /\ slots'[i].object.id = slots[i].object.id
      BY <1>0, <2>1 DEF GcSlot, NiObject
    <2> QED BY <1>2, <2>1, <2>2 DEF NothingNew, SetObject, ghosts
  <1>3. ASSUME NEW r \in GcRef, MarkStep(r)
        PROVE  NothingNew
    <2>1. slots' = slots \/ slots' = [slots EXCEPT ![r.index].marked = TRUE]
      BY <1>3 DEF MarkStep
    <2>2. DOMAIN slots' = DOMAIN slots
          /\ \A i \in DOMAIN slots : slots'[i].generation = slots[i].generation
                                   /\ slots'[i].object.id = slots[i].object.id
      BY <1>0, <2>1 DEF GcSlot, NiObject
    <2> QED BY <1>3, <2>2 DEF NothingNew, MarkStep, ghosts
  <1>4. CASE SweepSlot
    <2>1. CASE cursor \in DOMAIN slots /\ ~slots[cursor].marked /\ Free(cursor)
      BY <1>4, <2>1 DEF NothingNew, SweepSlot, Free, ghosts
    <2>2. CASE cursor \in DOMAIN slots /\ Unmark(cursor)
      <3>1. slots' = [slots EXCEPT ![cursor].marked = FALSE]
        BY <2>2 DEF Unmark
      <3>2. DOMAIN slots' = DOMAIN slots
            /\ \A i \in DOMAIN slots : slots'[i].generation = slots[i].generation
                                     /\ slots'[i].object.id = slots[i].object.id
        BY <1>0, <3>1 DEF GcSlot, NiObject
      <3> QED BY <1>4, <2>2, <3>2 DEF NothingNew, SweepSlot, Unmark, ghosts
    <2>3. CASE UNCHANGED <<slots, freeList, objectCount, bytesAllocated>>
      BY <1>4, <2>3 DEF NothingNew, SweepSlot, ghosts
    <2> QED BY <1>4, <2>1, <2>2, <2>3 DEF SweepSlot
  <1>5. ASSUME NEW r, AddRoot(r) \/ DropRoot(r) \/ MarkRoot(r)
        PROVE  UNCHANGED heapVars /\ UNCHANGED ghosts
    BY <1>5 DEF AddRoot, DropRoot, MarkRoot
  <1>6. CASE StartCollect \/ StartSweep \/ EndSweep \/ UNCHANGED vars
    BY <1>1, <1>6 DEF StartCollect, StartSweep, EndSweep, vars
  <1> QED BY <1>1, <1>2, <1>3, <1>4, <1>5, <1>6 DEF Next, Program, Collect

\* What alloc does to the slots, in the terms of the invariant.
LEMMA AllocEffect ==
  ASSUME HeapInv, NEW S \in SUBSET Reachable, NEW sz \in Sizes, Alloc(S, sz)
  PROVE  LET i == AllocIndex
             g == NextGeneration(i)
         IN  /\ generations' = [generations EXCEPT ![i] = g]
             /\ DOMAIN slots' = DOMAIN slots \cup {i}
             /\ slots'[i].generation = g /\ slots'[i].marked = FALSE
             /\ slots'[i].object.id = allocations + 1
             /\ slots'[i].object.refs = S
             /\ \A j \in DOMAIN slots : slots'[j] = slots[j]
             /\ DOMAIN issued' = DOMAIN issued \cup {[index |-> i, generation |-> g]}
             /\ issued'[[index |-> i, generation |-> g]] = allocations + 1
             /\ \A r \in DOMAIN issued : issued'[r] = issued[r]
  <1> DEFINE i == AllocIndex
             g == NextGeneration(i)
             r == [index |-> i, generation |-> g]
             slot == [object |-> [refs |-> S, size |-> sz, id |-> allocations + 1],
                      generation |-> g, marked |-> FALSE]
  <1>1. generations' = [generations EXCEPT ![i] = g]
    BY DEF Alloc
  <1>2. slots' = [j \in DOMAIN slots \cup {i} |-> IF j = i THEN slot ELSE slots[j]]
    BY DEF Alloc
  <1>3. i \notin DOMAIN slots
    BY AllocTarget
  <1>4. issued' = Issue(r)
    BY DEF Alloc
  <1>5. r \notin DOMAIN issued
    BY AllocGeneration
  <1>6. slot.generation = g /\ slot.marked = FALSE
        /\ slot.object.id = allocations + 1 /\ slot.object.refs = S
    OBVIOUS
  <1> HIDE DEF i, g, r, slot
  <1>7. DOMAIN slots' = DOMAIN slots \cup {i} /\ slots'[i] = slot
        /\ \A j \in DOMAIN slots : slots'[j] = slots[j]
    BY <1>2, <1>3
  <1>8. DOMAIN issued' = DOMAIN issued \cup {r} /\ issued'[r] = allocations + 1
        /\ \A q \in DOMAIN issued : issued'[q] = issued[q]
    BY <1>4, <1>5 DEF Issue
  <1> QED BY <1>1, <1>6, <1>7, <1>8 DEF i, g, r

-----------------------------------------------------------------------------
(* The parts about generations, references given out, and the accounting.  *)

\* Only alloc advances a generation, and it writes the same one into the slot.
LEMMA GenerationsStep == HeapInv /\ [Next]_vars => GenerationsOK'
  <1> SUFFICES ASSUME HeapInv, [Next]_vars
               PROVE  GenerationsOK'
    OBVIOUS
  <1>0. /\ generations \in [Index -> 0..MaxGeneration]
        /\ DOMAIN slots \subseteq Index
        /\ GenerationsOK
    BY DEF HeapInv, TypeOK
  <1>1. ASSUME NEW S \in SUBSET Reachable, NEW sz \in Sizes, Alloc(S, sz)
        PROVE  GenerationsOK'
    <2> DEFINE i == AllocIndex
               g == NextGeneration(i)
    <2>1. /\ i \in Index \ DOMAIN slots /\ pushed \in Nat
          /\ i < pushed' /\ pushed' = IF i = pushed THEN pushed + 1 ELSE pushed
      BY <1>1, AllocTarget
    <2>2. g \in 1..MaxGeneration
      BY <1>1, AllocGeneration
    <2>3. /\ generations' = [generations EXCEPT ![i] = g]
          /\ DOMAIN slots' = DOMAIN slots \cup {i}
          /\ slots'[i].generation = g
          /\ \A j \in DOMAIN slots : slots'[j] = slots[j]
      BY <1>1, AllocEffect
    <2> HIDE DEF i, g
    <2>4. \A j \in Index : generations'[j] = IF j = i THEN g ELSE generations[j]
      BY <1>0, <2>3
    <2>5. \A j \in Index : generations'[j] = 0 <=> j >= pushed'
      BY <1>0, <2>1, <2>2, <2>4 DEF GenerationsOK, Index
    <2>6. \A j \in DOMAIN slots' : j < pushed' /\ slots'[j].generation = generations'[j]
      <3> SUFFICES ASSUME NEW j \in DOMAIN slots'
                   PROVE  j < pushed' /\ slots'[j].generation = generations'[j]
        OBVIOUS
      <3>1. CASE j = i
        BY <2>1, <2>3, <2>4, <3>1
      <3>2. CASE j # i
        <4>1. j \in DOMAIN slots /\ j \in Index
          BY <1>0, <2>3, <3>2
        <4>2. j < pushed /\ slots[j].generation = generations[j]
          BY <1>0, <4>1 DEF GenerationsOK
        <4>3. slots'[j].generation = generations'[j]
          BY <2>3, <2>4, <3>2, <4>1, <4>2
        <4>4. j < pushed'
          BY <2>1, <4>1, <4>2 DEF Index
        <4> QED BY <4>3, <4>4
      <3> QED BY <3>1, <3>2
    <2> QED BY <2>5, <2>6 DEF GenerationsOK
  <1>2. CASE NothingNew
    <2>1. DOMAIN slots' \subseteq DOMAIN slots
      BY <1>2 DEF NothingNew, Free
    <2> QED BY <1>0, <1>2, <2>1 DEF GenerationsOK, NothingNew
  <1> QED BY <1>1, <1>2, AllocOrNothingNew

\* The reference alloc returns is new, so the objects in the heap stay those
\* their references were first given out for.
LEMMA IssuedStep == HeapInv /\ [Next]_vars => IssuedOK'
  <1> SUFFICES ASSUME HeapInv, [Next]_vars
               PROVE  IssuedOK'
    OBVIOUS
  <1>0. /\ generations \in [Index -> 0..MaxGeneration]
        /\ DOMAIN slots \subseteq Index
        /\ DOMAIN issued \subseteq GcRef
        /\ IssuedOK
    BY DEF HeapInv, TypeOK
  <1>1. ASSUME NEW S \in SUBSET Reachable, NEW sz \in Sizes, Alloc(S, sz)
        PROVE  IssuedOK'
    <2> DEFINE i == AllocIndex
               g == NextGeneration(i)
               r == [index |-> i, generation |-> g]
    <2>1. i \in Index \ DOMAIN slots
      BY <1>1, AllocTarget
    <2>2. /\ g \in 1..MaxGeneration /\ r \notin DOMAIN issued
          /\ \A q \in DOMAIN issued : q.index = i => q.generation < g
      BY <1>1, AllocGeneration
    <2>3. /\ generations' = [generations EXCEPT ![i] = g]
          /\ DOMAIN slots' = DOMAIN slots \cup {i}
          /\ slots'[i].generation = g /\ slots'[i].object.id = allocations + 1
          /\ \A j \in DOMAIN slots : slots'[j] = slots[j]
          /\ DOMAIN issued' = DOMAIN issued \cup {r} /\ issued'[r] = allocations + 1
          /\ \A q \in DOMAIN issued : issued'[q] = issued[q]
      BY <1>1, AllocEffect
    <2>4. r.index = i /\ r.generation = g
      OBVIOUS
    <2>5. [index |-> i, generation |-> slots'[i].generation] = r
      BY <2>3
    <2> HIDE DEF i, g, r
    <2>6. \A j \in Index : generations'[j] = IF j = i THEN g ELSE generations[j]
      BY <1>0, <2>3
    <2>7. ASSUME NEW q \in DOMAIN issued'
          PROVE  q.generation <= generations'[q.index]
      <3>1. CASE q = r
        BY <2>1, <2>2, <2>4, <2>6, <3>1
      <3>2. CASE q \in DOMAIN issued
        <4>1. q.index \in Index /\ q.generation \in Nat /\ q.generation <= generations[q.index]
          BY <1>0, <3>2 DEF IssuedOK, GcRef
        <4> QED BY <2>2, <2>6, <3>2, <4>1
      <3> QED BY <2>3, <2>7, <3>1, <3>2
    <2>8. ASSUME NEW j \in DOMAIN slots'
          PROVE  RefTo(j)' \in DOMAIN issued' /\ issued'[RefTo(j)'] = slots'[j].object.id
      <3>1. CASE j = i
        <4>1. RefTo(j)' = r
          BY <2>5, <3>1 DEF RefTo
        <4> QED BY <2>3, <3>1, <4>1
      <3>2. CASE j # i
        <4>1. j \in DOMAIN slots
          BY <2>3, <2>8, <3>2
        <4>2. RefTo(j) \in DOMAIN issued /\ issued[RefTo(j)] = slots[j].object.id
          BY <1>0, <4>1 DEF IssuedOK
        <4>3. RefTo(j)' = RefTo(j)
          BY <2>3, <4>1 DEF RefTo
        <4> QED BY <2>3, <4>1, <4>2, <4>3
      <3> QED BY <3>1, <3>2
    <2> QED BY <2>7, <2>8 DEF IssuedOK
  <1>2. CASE NothingNew
    <2>1. DOMAIN slots' \subseteq DOMAIN slots
      BY <1>2 DEF NothingNew, Free
    <2>2. \A j \in DOMAIN slots' : RefTo(j)' = RefTo(j)
      BY <1>2 DEF NothingNew, RefTo
    <2> QED BY <1>0, <1>2, <2>1, <2>2 DEF IssuedOK, NothingNew
  <1> QED BY <1>1, <1>2, AllocOrNothingNew

\* alloc takes a slot off the free list or off the end, sweep puts one on: the
\* list, the occupied slots and object_count keep adding up.
LEMMA AccountStep == HeapInv /\ [Next]_vars => SlotsAccounted'
  <1> SUFFICES ASSUME HeapInv, [Next]_vars
               PROVE  SlotsAccounted'
    OBVIOUS
  <1>0. /\ freeList \in Seq(Index) /\ pushed \in Nat /\ Len(freeList) \in Nat
        /\ SlotsAccounted
    BY BoundsAssumption, LenProperties DEF HeapInv, TypeOK
  <1>1. IsFiniteSet(DOMAIN slots) /\ Cardinality(DOMAIN slots) \in Nat
    BY SlotsFinite
  <1>2. ASSUME NEW S \in SUBSET Reachable, NEW sz \in Sizes, Alloc(S, sz)
        PROVE  SlotsAccounted'
    <2> DEFINE i == AllocIndex
    <2>1. /\ i \in Index \ DOMAIN slots /\ i < pushed'
          /\ pushed' = IF i = pushed THEN pushed + 1 ELSE pushed
          /\ freeList = <<>> <=> i = pushed
      BY <1>2, AllocTarget
    <2>2. DOMAIN slots' = DOMAIN slots \cup {i} /\ objectCount' = objectCount + 1
      BY <1>2, AllocEffect DEF Alloc
    <2>3. Cardinality(DOMAIN slots') = Cardinality(DOMAIN slots) + 1
      BY <1>1, <2>1, <2>2, FS_AddElement
    <2>4. CASE freeList = <<>>
      <3>1. freeList' = <<>> /\ pushed' = pushed + 1 /\ Len(freeList) = 0 /\ Len(freeList') = 0
        BY <1>2, <2>1, <2>4 DEF Alloc
      <3> QED BY <1>0, <1>1, <2>2, <2>3, <3>1 DEF SlotsAccounted
    <2>5. CASE freeList # <<>>
      <3>1. /\ Len(freeList) \in Nat \ {0}
            /\ Len(freeList') = Len(freeList) - 1
            /\ \A k \in 1..(Len(freeList) - 1) : freeList'[k] = freeList[k]
        BY <1>0, <1>2, <2>5, PopLast DEF Alloc, FreeListPopped
      <3>2. i = freeList[Len(freeList)] /\ pushed' = pushed
        BY <1>2, <2>1, <2>5 DEF AllocIndex
      <3>3. ASSUME NEW k \in 1..Len(freeList')
            PROVE  /\ k \in 1..Len(freeList) /\ k # Len(freeList)
                   /\ freeList'[k] = freeList[k]
        BY <3>1
      <3>4. \A k \in 1..Len(freeList') : freeList'[k] \in (0..(pushed' - 1)) \ DOMAIN slots'
        BY <1>0, <2>2, <3>1, <3>2, <3>3 DEF SlotsAccounted
      <3>5. \A k, l \in 1..Len(freeList') : freeList'[k] = freeList'[l] => k = l
        BY <1>0, <3>3 DEF SlotsAccounted
      <3>6. Len(freeList') + Cardinality(DOMAIN slots') = pushed'
            /\ objectCount' = Cardinality(DOMAIN slots')
        BY <1>0, <1>1, <2>2, <2>3, <3>1, <3>2 DEF SlotsAccounted
      <3> QED BY <3>4, <3>5, <3>6 DEF SlotsAccounted
    <2> QED BY <2>4, <2>5
  <1>3. CASE NothingNew
    <2>1. pushed' = pushed
      BY <1>3 DEF NothingNew
    <2>2. CASE DOMAIN slots' = DOMAIN slots /\ UNCHANGED <<freeList, objectCount>>
      BY <1>0, <2>1, <2>2 DEF SlotsAccounted
    <2>3. CASE cursor \in DOMAIN slots /\ Free(cursor)
      <3>1. /\ DOMAIN slots' = DOMAIN slots \ {cursor}
            /\ freeList' = Append(freeList, cursor)
            /\ objectCount' = objectCount - 1
        BY <2>3 DEF Free
      <3>2. cursor \in 0..(pushed - 1) /\ cursor \in Index
        BY <1>0, <2>3 DEF HeapInv, TypeOK, GenerationsOK, Index
      <3>3. Cardinality(DOMAIN slots') = Cardinality(DOMAIN slots) - 1
        BY <1>1, <2>3, <3>1, FS_RemoveElement
      <3>4. /\ Len(freeList') = Len(freeList) + 1
            /\ \A k \in 1..Len(freeList) : freeList'[k] = freeList[k]
            /\ freeList'[Len(freeList) + 1] = cursor
        BY <1>0, <3>1, <3>2, AppendProperties
      <3>5. ASSUME NEW k \in 1..Len(freeList')
            PROVE  \/ k \in 1..Len(freeList) /\ freeList'[k] = freeList[k]
                                            /\ freeList[k] # cursor
                   \/ k = Len(freeList) + 1 /\ freeList'[k] = cursor
        BY <1>0, <2>3, <3>4 DEF SlotsAccounted
      <3>6. \A k \in 1..Len(freeList') : freeList'[k] \in (0..(pushed' - 1)) \ DOMAIN slots'
        BY <1>0, <2>1, <3>1, <3>2, <3>5 DEF SlotsAccounted
      <3>7. \A k, l \in 1..Len(freeList') : freeList'[k] = freeList'[l] => k = l
        BY <1>0, <3>5 DEF SlotsAccounted
      <3>8. Len(freeList') + Cardinality(DOMAIN slots') = pushed'
            /\ objectCount' = Cardinality(DOMAIN slots')
        BY <1>0, <1>1, <2>1, <3>1, <3>3, <3>4 DEF SlotsAccounted
      <3> QED BY <3>6, <3>7, <3>8 DEF SlotsAccounted
    <2> QED BY <1>3, <2>2, <2>3 DEF NothingNew
  <1> QED BY <1>2, <1>3, AllocOrNothingNew

-----------------------------------------------------------------------------
(* The collector's parts.                                                  *)

\* sweep clears each mark it passes, so none is left when the program goes on.
LEMMA PhaseStep == HeapInv /\ [Next]_vars => PhaseOK'
  <1> SUFFICES ASSUME HeapInv, [Next]_vars
               PROVE  PhaseOK'
    OBVIOUS
  <1>0. /\ DOMAIN slots \subseteq Index /\ slots \in [DOMAIN slots -> GcSlot]
        /\ cursor \in Nat /\ pushed \in Nat
        /\ PhaseOK
        /\ \A i \in DOMAIN slots : i < pushed
    BY BoundsAssumption DEF HeapInv, TypeOK, GenerationsOK
  <1>1. ASSUME NEW S \in SUBSET Reachable, NEW sz \in Sizes, Alloc(S, sz)
        PROVE  PhaseOK'
    <2>1. \A i \in DOMAIN slots' : ~slots'[i].marked
      BY <1>0, <1>1, AllocEffect DEF PhaseOK, Alloc
    <2>2. phase = "program" /\ UNCHANGED collectorVars
      BY <1>1 DEF Alloc
    <2> QED BY <1>0, <2>1, <2>2 DEF PhaseOK, collectorVars
  <1>2. ASSUME NEW r \in Reachable, NEW S \in SUBSET Reachable, NEW sz \in Sizes,
               SetObject(r, S, sz)
        PROVE  PhaseOK'
    <2>1. slots' = [slots EXCEPT ![r.index].object = [@ EXCEPT !.refs = S, !.size = sz]]
          /\ phase = "program" /\ UNCHANGED collectorVars
      BY <1>2 DEF SetObject
    <2>2. \A i \in DOMAIN slots' : ~slots'[i].marked
      BY <1>0, <2>1 DEF PhaseOK, GcSlot
    <2> QED BY <1>0, <2>1, <2>2 DEF PhaseOK, collectorVars
  <1>3. ASSUME NEW r, AddRoot(r) \/ DropRoot(r)
        PROVE  PhaseOK'
    BY <1>0, <1>3 DEF PhaseOK, AddRoot, DropRoot, heapVars, collectorVars
  <1>4. CASE StartCollect
    BY <1>0, <1>4 DEF PhaseOK, StartCollect, heapVars
  <1>5. ASSUME NEW r \in GcRef, MarkRoot(r) \/ MarkStep(r)
        PROVE  PhaseOK'
    BY <1>0, <1>5 DEF PhaseOK, MarkRoot, MarkStep, heapVars
  <1>6. CASE StartSweep
    BY <1>0, <1>6 DEF PhaseOK, StartSweep, heapVars, Index
  <1>7. CASE SweepSlot
    <2>1. /\ phase = "sweep" /\ phase' = "sweep"
          /\ cursor < pushed /\ cursor' = cursor + 1 /\ pushed' = pushed
          /\ UNCHANGED <<rootsLeft, worklist>>
      BY <1>7 DEF SweepSlot
    <2>2. \A i \in DOMAIN slots' : i \in DOMAIN slots /\ i \in Nat
                                  /\ (i # cursor => slots'[i] = slots[i])
                                  /\ (i = cursor => ~slots'[i].marked)
      <3>1. CASE Free(cursor)
        BY <1>0, <3>1 DEF Free, Index
      <3>2. CASE cursor \in DOMAIN slots /\ Unmark(cursor)
        BY <1>0, <3>2 DEF Unmark, Index, GcSlot
      <3>3. CASE cursor \notin DOMAIN slots /\ UNCHANGED slots
        BY <1>0, <3>3 DEF Index
      <3> QED BY <1>7, <3>1, <3>2, <3>3 DEF SweepSlot
    <2>3. ASSUME NEW i \in DOMAIN slots', i < cursor'
          PROVE  ~slots'[i].marked
      <3>1. i = cursor \/ i < cursor
        BY <1>0, <2>1, <2>2, <2>3
      <3> QED BY <1>0, <2>1, <2>2, <2>3, <3>1 DEF PhaseOK
    <2> QED BY <1>0, <2>1, <2>3 DEF PhaseOK
  <1>8. CASE EndSweep
    BY <1>0, <1>8 DEF PhaseOK, EndSweep, heapVars
  <1>9. CASE UNCHANGED vars
    BY <1>0, <1>9 DEF PhaseOK, vars, heapVars, collectorVars
  <1> QED BY <1>1, <1>2, <1>3, <1>4, <1>5, <1>6, <1>7, <1>8, <1>9
          DEF Next, Program, Collect

\* mark leaves no marked object with an unmarked child that is not on the
\* worklist, and sweep keeps what was marked.
LEMMA TriColorStep == HeapInv /\ [Next]_vars => TriColor'
  <1> SUFFICES ASSUME HeapInv, [Next]_vars
               PROVE  TriColor'
    OBVIOUS
  <1>0. /\ DOMAIN slots \subseteq Nat /\ slots \in [DOMAIN slots -> GcSlot]
        /\ cursor \in Nat /\ roots \subseteq GcRef
        /\ \A i \in DOMAIN slots : slots[i].object.refs \subseteq GcRef
        /\ \A q \in GcRef : q.index \in Nat
        /\ PhaseOK /\ TriColor
    BY DEF HeapInv, TypeOK, Index, GcSlot, NiObject, GcRef
  <1>1. CASE phase' = "program"
    BY <1>1 DEF TriColor
  <1>2. ASSUME phase = "program", UNCHANGED phase
        PROVE  TriColor'
    BY <1>2 DEF TriColor
  <1>3. CASE StartCollect
    BY <1>0, <1>3 DEF TriColor, PhaseOK, StartCollect, MarkedRoots, heapVars
  <1>4. ASSUME NEW r \in GcRef, MarkRoot(r)
        PROVE  TriColor'
    <2>1. /\ phase = "mark" /\ phase' = "mark" /\ UNCHANGED <<slots, roots>>
          /\ worklist = {} /\ worklist' = {r} /\ rootsLeft' = rootsLeft \ {r}
      BY <1>4 DEF MarkRoot, heapVars
    <2>2. \A q : (Live(q)' <=> Live(q)) /\ (Marked(q) => Marked(q)')
      BY <2>1 DEF Live, Marked
    <2> QED BY <1>0, <2>1, <2>2 DEF TriColor, Marked
  <1>5. ASSUME NEW r \in GcRef, MarkStep(r)
        PROVE  TriColor'
    <2>1. phase = "mark" /\ phase' = "mark" /\ UNCHANGED <<roots, rootsLeft>>
      BY <1>5 DEF MarkStep
    <2>2. CASE NeedsVisit(r)
      <3>1. /\ r.index \in DOMAIN slots
            /\ slots' = [slots EXCEPT ![r.index].marked = TRUE]
            /\ worklist' = (worklist \ {r}) \cup slots[r.index].object.refs
        BY <1>5, <2>2 DEF MarkStep, NeedsVisit, Live, References, Get
      <3>2. /\ DOMAIN slots' = DOMAIN slots
            /\ \A i \in DOMAIN slots : slots'[i].generation = slots[i].generation
                                      /\ slots'[i].object = slots[i].object
        BY <1>0, <3>1 DEF GcSlot
      <3>2a. /\ slots'[r.index].marked = TRUE
             /\ \A i \in DOMAIN slots : i # r.index => slots'[i].marked = slots[i].marked
        BY <1>0, <3>1 DEF GcSlot
      <3>3. \A q : (Live(q)' <=> Live(q))
        BY <3>2 DEF Live
      <3>4. ASSUME NEW q, Live(q), Marked(q)
            PROVE  Marked(q)'
        <4>1. q.index \in DOMAIN slots
          BY <3>4 DEF Live
        <4> QED BY <3>1, <3>2, <3>2a, <3>4, <4>1 DEF Marked
      <3>5. \A q \in roots' \ rootsLeft' : Live(q)' => Marked(q)'
        BY <1>0, <2>1, <3>3, <3>4 DEF TriColor
      <3>6. ASSUME NEW i \in DOMAIN slots', slots'[i].marked,
                   NEW q \in slots'[i].object.refs, Live(q)'
            PROVE  Marked(q)'
        <4>1. CASE i = r.index
          BY <3>1, <3>2, <3>6, <4>1 DEF Marked
        <4>2. CASE i # r.index
          <5>1. i \in DOMAIN slots /\ slots[i].marked /\ q \in slots[i].object.refs
            BY <3>2, <3>2a, <3>6, <4>2
          <5>2. Marked(q)
            BY <1>0, <2>1, <3>3, <3>6, <5>1 DEF TriColor
          <5> QED BY <3>3, <3>4, <3>6, <5>2
        <4> QED BY <4>1, <4>2
      <3> QED BY <2>1, <3>5, <3>6 DEF TriColor
    <2>3. CASE ~NeedsVisit(r)
      <3>1. slots' = slots /\ worklist' = worklist \ {r}
        BY <1>5, <2>3 DEF MarkStep
      <3>2. \A q : (Live(q)' <=> Live(q)) /\ (Live(q) /\ Marked(q) => Marked(q)')
        BY <2>3, <3>1 DEF Live, Marked, NeedsVisit
      <3> QED BY <1>0, <2>1, <3>1, <3>2 DEF TriColor
    <2> QED BY <2>2, <2>3
  <1>6. CASE StartSweep
    <2>1. /\ phase = "mark" /\ phase' = "sweep" /\ worklist = {} /\ rootsLeft = {}
          /\ cursor' = cursor /\ cursor = 0 /\ UNCHANGED <<slots, roots>>
      BY <1>0, <1>6 DEF StartSweep, PhaseOK, heapVars
    <2>2. \A q : (Live(q)' <=> Live(q)) /\ (Marked(q) => Survives(q)')
      BY <2>1 DEF Live, Marked, Survives
    <2>3. \A q \in roots' : Live(q)' => Survives(q)'
      BY <1>0, <2>1, <2>2 DEF TriColor
    <2>4. \A i \in DOMAIN slots' : ~(i < cursor')
      BY <1>0, <2>1
    <2>5. \A i \in DOMAIN slots' : slots'[i].marked \/ i < cursor' =>
             \A q \in slots'[i].object.refs : Live(q)' => Survives(q)'
      BY <1>0, <2>1, <2>2, <2>4 DEF TriColor
    <2> QED BY <2>1, <2>3, <2>5 DEF TriColor
  <1>7. CASE SweepSlot
    <2>1. /\ phase = "sweep" /\ phase' = "sweep"
          /\ cursor' = cursor + 1 /\ UNCHANGED roots
      BY <1>7 DEF SweepSlot
    <2>2. \A i \in DOMAIN slots' :
             /\ i \in DOMAIN slots
             /\ slots'[i].generation = slots[i].generation
             /\ slots'[i].object = slots[i].object
             /\ i # cursor => (slots'[i].marked <=> slots[i].marked)
             /\ i = cursor => slots[i].marked
      <3>1. CASE Free(cursor)
        BY <1>0, <3>1 DEF Free
      <3>2. CASE cursor \in DOMAIN slots /\ slots[cursor].marked /\ Unmark(cursor)
        BY <1>0, <3>2 DEF Unmark, GcSlot
      <3>3. CASE cursor \notin DOMAIN slots /\ UNCHANGED slots
        BY <3>3
      <3> QED BY <1>7, <3>1, <3>2, <3>3 DEF SweepSlot
    <2>3. ASSUME NEW q \in GcRef, Live(q)'
          PROVE  Live(q) /\ (Survives(q) => Survives(q)')
      <3>1. q.index \in DOMAIN slots' /\ slots'[q.index].generation = q.generation
        BY <2>3 DEF Live
      <3>2. Live(q)
        BY <2>2, <3>1 DEF Live
      <3>3. ASSUME Survives(q)
            PROVE  Survives(q)'
        <4>1. q.index \in Nat
          BY <1>0
        <4>2. slots[q.index].marked => slots'[q.index].marked \/ q.index < cursor'
          BY <1>0, <2>1, <2>2, <3>1, <4>1
        <4>3. q.index < cursor => q.index < cursor'
          BY <1>0, <2>1, <4>1
        <4> QED BY <3>3, <4>2, <4>3 DEF Survives
      <3> QED BY <3>2, <3>3
    <2>4. \A q \in roots' : Live(q)' => Survives(q)'
      BY <1>0, <2>1, <2>3 DEF TriColor
    <2>5. ASSUME NEW i \in DOMAIN slots', slots'[i].marked \/ i < cursor',
                 NEW q \in slots'[i].object.refs, Live(q)'
          PROVE  Survives(q)'
      <3>1. i \in DOMAIN slots /\ i \in Nat /\ q \in slots[i].object.refs /\ q \in GcRef
        BY <1>0, <2>2, <2>5
      <3>2. slots[i].marked \/ i < cursor
        BY <1>0, <2>1, <2>2, <2>5, <3>1
      <3>3. Live(q) /\ Survives(q)
        BY <1>0, <2>1, <2>3, <2>5, <3>1, <3>2 DEF TriColor
      <3> QED BY <2>3, <2>5, <3>1, <3>3
    <2> QED BY <2>1, <2>4, <2>5 DEF TriColor
  <1>8. CASE EndSweep
    BY <1>1, <1>8 DEF EndSweep
  <1>9. CASE UNCHANGED vars
    <2>1. UNCHANGED <<slots, roots, rootsLeft, worklist, phase, cursor>>
      BY <1>9 DEF vars, heapVars, collectorVars
    <2> QED BY <1>0, <2>1 DEF TriColor, Live, Marked, Survives
  <1>10. CASE Program
    BY <1>2, <1>10 DEF Program, Alloc, SetObject, AddRoot, DropRoot, collectorVars
  <1> QED BY <1>3, <1>4, <1>5, <1>6, <1>7, <1>8, <1>9, <1>10 DEF Next, Collect

-----------------------------------------------------------------------------
(* The theorems.                                                           *)

\* GcHeap::new establishes the invariant: an empty arena owes nothing.
LEMMA HeapInvInit == Init => HeapInv
  <1> SUFFICES ASSUME Init
               PROVE  HeapInv
    OBVIOUS
  <1> USE BoundsAssumption, ThresholdAssumption DEF Init
  <1>1. TypeOK
    BY EmptySeq DEF TypeOK, Index
  <1>2. SlotsAccounted
    <2>1. DOMAIN slots = {} /\ Len(freeList) = 0
      BY EmptySeq
    <2> QED BY <2>1, FS_EmptySet DEF SlotsAccounted
  <1>3. GenerationsOK /\ IssuedOK /\ PhaseOK /\ TriColor
    BY DEF GenerationsOK, IssuedOK, PhaseOK, TriColor, Index
  <1> QED BY <1>1, <1>2, <1>3 DEF HeapInv

\* The invariant the theorems rest on: it holds when the heap is new, and alloc,
\* the program, the marking and the sweep all keep it.
THEOREM HeapInvariant == Spec => []HeapInv
  <1>1. HeapInv /\ [Next]_vars => HeapInv'
    BY TypeStep, AccountStep, GenerationsStep, IssuedStep, PhaseStep, TriColorStep
       DEF HeapInv
  <1> QED BY <1>1, HeapInvInit, PTL DEF Spec

\* Every variable of the heap and of the collector keeps its type, however
\* large the arena; in particular object_count and the worklist's references.
THEOREM TypeCorrect == Spec => []TypeOK
  <1>1. HeapInv => TypeOK
    BY DEF HeapInv
  <1> QED BY <1>1, HeapInvariant, PTL

\* The invariant names the object behind every reference in use.
LEMMA HeapInvNoAlias == HeapInv => NoAlias
  <1> SUFFICES ASSUME HeapInv, NEW r \in DOMAIN issued, Live(r)
               PROVE  Get(r).id = issued[r]
    BY DEF NoAlias
  <1>1. r \in GcRef /\ r.index \in DOMAIN slots
        /\ slots[r.index].generation = r.generation
    BY DEF HeapInv, TypeOK, Live
  <1>2. RefTo(r.index) = r
    BY <1>1 DEF RefTo, GcRef
  <1> QED BY <1>1, <1>2 DEF HeapInv, IssuedOK, Get

\* A reference kept across any number of collections and reuses of its slot
\* finds the object it was given for or nothing (get, get_mut, alloc).
THEOREM NoReferenceAliases == Spec => []NoAlias
  BY HeapInvNoAlias, HeapInvariant, PTL

\* The free list and the occupied slots divide the arena between them, each
\* empty slot is listed once, and object_count counts the objects: at every
\* moment, halfway through a sweep included (alloc, sweep).
THEOREM SlotsAreAccounted == Spec => []SlotsAccounted
  <1>1. HeapInv => SlotsAccounted
    BY DEF HeapInv
  <1> QED BY <1>1, HeapInvariant, PTL

\* For every object graph: no step of the program or of the collector takes away
\* an object that a root holds, or that one surviving the collection holds
\* (mark's worklist leaves no marked object with an unmarked child).
THEOREM NothingHeldIsFreed == Spec => HeldRefsSurvive
  <1> DEFINE A == /\ \A r \in roots : StillFound(r)
                  /\ \A i \in DOMAIN slots :
                        (phase # "sweep" \/ i < cursor \/ slots[i].marked)
                           => \A r \in slots[i].object.refs : StillFound(r)
  <1>1. HeapInv /\ [Next]_vars => [A]_vars
    <2> SUFFICES ASSUME HeapInv, [Next]_vars
                 PROVE  A
      OBVIOUS
    <2>1. ASSUME DOMAIN slots \subseteq DOMAIN slots',
                 \A j \in DOMAIN slots : slots'[j].generation = slots[j].generation
          PROVE  A
      BY <2>1 DEF StillFound, Live
    <2>2. ASSUME NEW S \in SUBSET Reachable, NEW sz \in Sizes, Alloc(S, sz)
          PROVE  A
      BY <2>1, <2>2, AllocEffect
    <2>3. CASE NothingNew
      <3>1. CASE DOMAIN slots' = DOMAIN slots
        BY <2>1, <2>3, <3>1 DEF NothingNew
      <3>2. CASE cursor \in DOMAIN slots /\ ~slots[cursor].marked /\ phase = "sweep" /\ Free(cursor)
        <4>1. DOMAIN slots' = DOMAIN slots \ {cursor}
              /\ \A j \in DOMAIN slots' : slots'[j] = slots[j]
          BY <3>2 DEF Free
        <4>2. cursor \in Nat
          BY DEF HeapInv, TypeOK
        <4>3. ASSUME NEW r, Live(r) => Survives(r)
              PROVE  StillFound(r)
          <5> SUFFICES ASSUME Live(r)
                       PROVE  Live(r)'
            BY DEF StillFound
          <5>1. r.index # cursor
            BY <3>2, <4>2, <4>3 DEF Survives
          <5> QED BY <4>1, <5>1 DEF Live
        <4>4. \A r \in roots : Live(r) => Survives(r)
          BY <3>2 DEF HeapInv, TriColor
        <4>5. \A i \in DOMAIN slots : slots[i].marked \/ i < cursor =>
                 \A r \in slots[i].object.refs : Live(r) => Survives(r)
          BY <3>2 DEF HeapInv, TriColor
        <4> QED BY <3>2, <4>3, <4>4, <4>5
      <3> QED BY <2>3, <3>1, <3>2 DEF NothingNew
    <2> QED BY <2>2, <2>3, AllocOrNothingNew
  <1> QED BY <1>1, HeapInvariant, PTL DEF Spec, HeldRefsSurvive

-----------------------------------------------------------------------------
(* Induction over the natural numbers, stated with sets.                   *)

\* The order of the natural numbers has no infinite descent.
LEMMA NatOrder == IsWellFoundedOn({p \in Nat \X Nat : p[1] < p[2]}, Nat)
  BY NatLessThanWellFounded DEF OpToRel

\* A nonempty set of natural numbers has a least member.
LEMMA LeastNatural ==
  ASSUME NEW P \in SUBSET Nat, P # {}
  PROVE  \E i \in P : \A j \in P : i <= j
  <1> DEFINE Less == {p \in Nat \X Nat : p[1] < p[2]}
  <1>1. IsWellFoundedOn(Less, Nat)
    BY NatOrder
  <1> HIDE DEF Less
  <1>2. PICK i \in P : \A j \in P : ~ (<<j, i>> \in Less)
    BY <1>1, WFMin
  <1>3. ASSUME NEW j \in P
        PROVE  i <= j
    <2>1. i \in Nat /\ j \in Nat
      OBVIOUS
    <2>2. j < i => <<j, i>> \in Less
      BY <2>1 DEF Less
    <2> QED BY <1>2, <2>1, <2>2
  <1> QED BY <1>3

\* A set that holds 0, and the successor of each of its numbers, holds them all.
LEMMA SetInduction ==
  ASSUME NEW P, 0 \in P, \A n \in Nat : n \in P => n + 1 \in P
  PROVE  Nat \subseteq P
  <1> SUFFICES ASSUME Nat \ P # {}
               PROVE  FALSE
    OBVIOUS
  <1>1. PICK i \in Nat \ P : \A j \in Nat \ P : i <= j
    BY LeastNatural
  <1>2. i # 0
    OBVIOUS
  <1>3. i - 1 \in Nat /\ i - 1 < i
    BY <1>2
  <1>4. i - 1 \in P
    BY <1>1, <1>3
  <1> QED BY <1>3, <1>4

-----------------------------------------------------------------------------
(* Walks in a graph.  E gives each node that has edges the set of nodes    *)
(* they lead to; a walk of M steps collects what R0 leads to.              *)

Widened(E, B) == B \cup UNION {E[d] : d \in B \cap DOMAIN E}

IsWalk(w, R0, E, M) ==
    w = [n \in 0..M |-> IF n = 0 THEN R0 ELSE Widened(E, w[n - 1])]

\* A set of nodes that holds R0 and is left by no edge.
ClosedFrom(R0, E, B) == R0 \subseteq B /\ \A d \in B \cap DOMAIN E : E[d] \subseteq B

\* The recurrence of a walk has a solution, of every length.
LEMMA WalkExists ==
  ASSUME NEW R0, NEW E, NEW M \in Nat
  PROVE  \E w : IsWalk(w, R0, E, M)
  <1> DEFINE P == {k \in Nat : \E w : IsWalk(w, R0, E, k)}
  <1>1. 0 \in P
    <2> DEFINE w == [n \in 0..0 |-> R0]
    <2>1. IsWalk(w, R0, E, 0)
      BY DEF IsWalk
    <2> QED BY <2>1
  <1>2. ASSUME NEW k \in Nat, k \in P
        PROVE  k + 1 \in P
    <2>1. PICK w : IsWalk(w, R0, E, k)
      BY <1>2
    <2> DEFINE F(n) == IF n = 0 THEN R0 ELSE Widened(E, w[n - 1])
               v == [n \in 0..(k + 1) |-> F(n)]
    <2>2. \A n \in 0..k : w[n] = F(n)
      BY <2>1 DEF IsWalk
    <2>3. \A n \in 0..(k + 1) : n # 0 => n - 1 \in 0..k
      OBVIOUS
    <2>4. \A n \in 0..(k + 1) : n # 0 => v[n - 1] = w[n - 1]
      <3> HIDE DEF F
      <3> QED BY <2>2, <2>3
    <2>5. v = [n \in 0..(k + 1) |-> IF n = 0 THEN R0 ELSE Widened(E, v[n - 1])]
      <3> HIDE DEF v
      <3>1. \A n \in 0..(k + 1) : F(n) = IF n = 0 THEN R0 ELSE Widened(E, v[n - 1])
        BY <2>4
      <3> HIDE DEF F
      <3> QED BY <3>1 DEF v
    <2>6. IsWalk(v, R0, E, k + 1)
      BY <2>5 DEF IsWalk
    <2> QED BY <2>6
  <1> HIDE DEF P
  <1>3. Nat \subseteq P
    BY <1>1, <1>2, SetInduction
  <1> QED BY <1>3 DEF P

\* What a walk collects grows step by step, and stays among the nodes.
LEMMA WalkSteps ==
  ASSUME NEW X, NEW R0 \in SUBSET X, NEW M \in Nat,
         NEW E, \A d \in DOMAIN E : E[d] \subseteq X,
         NEW w, IsWalk(w, R0, E, M)
  PROVE  /\ w[0] = R0
         /\ \A n \in 0..M : n + 1 \in 0..M => w[n + 1] = Widened(E, w[n])
         /\ \A n \in 0..M : w[n] \in SUBSET X /\ R0 \subseteq w[n]
  <1>1. w[0] = R0
    BY DEF IsWalk
  <1>2. ASSUME NEW n \in 0..M, n + 1 \in 0..M
        PROVE  w[n + 1] = Widened(E, w[n])
    <2>1. n + 1 # 0 /\ (n + 1) - 1 = n
      OBVIOUS
    <2> QED BY <1>2, <2>1 DEF IsWalk
  <1> DEFINE P == {k \in Nat : k \in 0..M => w[k] \in SUBSET X /\ R0 \subseteq w[k]}
  <1>3. 0 \in P
    BY <1>1
  <1>4. ASSUME NEW k \in Nat, k \in P
        PROVE  k + 1 \in P
    <2> SUFFICES ASSUME k + 1 \in 0..M
                 PROVE  w[k + 1] \in SUBSET X /\ R0 \subseteq w[k + 1]
      OBVIOUS
    <2>1. k \in 0..M
      OBVIOUS
    <2>2. w[k + 1] = Widened(E, w[k])
      BY <1>2, <2>1
    <2> QED BY <1>4, <2>1, <2>2 DEF Widened
  <1> HIDE DEF P
  <1>5. Nat \subseteq P
    BY <1>3, <1>4, SetInduction
  <1> QED BY <1>1, <1>2, <1>5 DEF P

\* A walk with as many steps as there are nodes with edges reaches the least
\* set that no edge leaves: each step that finds something new finds at least
\* one more node with edges, or is the last.
LEMMA WalkCloses ==
  ASSUME NEW X, NEW R0 \in SUBSET X, NEW M \in Nat,
         NEW E, \A d \in DOMAIN E : E[d] \subseteq X,
         IsFiniteSet(DOMAIN E), Cardinality(DOMAIN E) <= M,
         NEW w, IsWalk(w, R0, E, M)
  PROVE  /\ w[M] \in SUBSET X
         /\ ClosedFrom(R0, E, w[M])
         /\ \A B : ClosedFrom(R0, E, B) => w[M] \subseteq B
  <1> DEFINE D == DOMAIN E
             Done(n) == Widened(E, w[n]) = w[n]
  <1>1. /\ w[0] = R0
        /\ \A n \in 0..M : n + 1 \in 0..M => w[n + 1] = Widened(E, w[n])
        /\ \A n \in 0..M : w[n] \in SUBSET X /\ R0 \subseteq w[n]
    BY WalkSteps
  <1>2. \A B, C : C \cap D = B \cap D /\ C = Widened(E, B) => Widened(E, C) = C
    BY DEF Widened
  <1>3. \A B : B \cap D = {} => Widened(E, B) = B
    BY DEF Widened
  <1>4. \A B : /\ IsFiniteSet(B \cap D) /\ Cardinality(B \cap D) \in Nat
               /\ Cardinality(B \cap D) <= Cardinality(D)
    BY FS_Subset, FS_CardinalityType
  <1> DEFINE P == {k \in Nat : k \in 0..M => Done(k) \/ Cardinality(w[k] \cap D) >= k + 1}
  <1>5. 0 \in P
    <2>1. CASE w[0] \cap D = {}
      BY <1>3, <2>1
    <2>2. CASE w[0] \cap D # {}
      <3>1. Cardinality(w[0] \cap D) # 0
        BY <1>4, <2>2, FS_EmptySet
      <3> QED BY <1>4, <3>1
    <2> QED BY <2>1, <2>2
  <1>6. ASSUME NEW k \in Nat, k \in P
        PROVE  k + 1 \in P
    <2> SUFFICES ASSUME k + 1 \in 0..M
                 PROVE  Done(k + 1) \/ Cardinality(w[k + 1] \cap D) >= (k + 1) + 1
      OBVIOUS
    <2>1. k \in 0..M
      OBVIOUS
    <2>2. w[k + 1] = Widened(E, w[k])
      BY <1>1, <2>1
    <2>3. CASE Done(k)
      BY <2>2, <2>3
    <2>4. CASE w[k + 1] \cap D = w[k] \cap D
      BY <1>2, <2>2, <2>4
    <2>5. CASE ~Done(k) /\ w[k + 1] \cap D # w[k] \cap D
      <3>1. Cardinality(w[k] \cap D) >= k + 1
        BY <1>6, <2>1, <2>5
      <3>2. w[k] \cap D \subseteq w[k + 1] \cap D
        BY <2>2 DEF Widened
      <3>3. Cardinality(w[k] \cap D) < Cardinality(w[k + 1] \cap D)
        <4>1. IsFiniteSet(w[k + 1] \cap D)
          BY <1>4
        <4>2. /\ Cardinality(w[k] \cap D) \in Nat /\ Cardinality(w[k + 1] \cap D) \in Nat
              /\ Cardinality(w[k] \cap D) <= Cardinality(w[k + 1] \cap D)
              /\ Cardinality(w[k] \cap D) # Cardinality(w[k + 1] \cap D)
          BY <1>4, <4>1, <2>5, <3>2, FS_Subset
        <4> QED BY <4>2
      <3> QED BY <1>4, <3>1, <3>3
    <2> QED BY <2>3, <2>4, <2>5
  <1>7. Done(M)
    <2> HIDE DEF P
    <2>1. Nat \subseteq P
      BY <1>5, <1>6, SetInduction
    <2>2. M \in 0..M
      OBVIOUS
    <2>3. Done(M) \/ Cardinality(w[M] \cap D) >= M + 1
      BY <2>1, <2>2 DEF P
    <2>4. Cardinality(w[M] \cap D) \in Nat /\ Cardinality(D) \in Nat
          /\ Cardinality(w[M] \cap D) <= Cardinality(D) /\ Cardinality(D) <= M
      BY <1>4, FS_CardinalityType
    <2>5. ~(Cardinality(w[M] \cap D) >= M + 1)
      BY <2>4
    <2> QED BY <2>3, <2>5
  <1>8. w[M] \in SUBSET X /\ ClosedFrom(R0, E, w[M])
    <2>1. M \in 0..M
      OBVIOUS
    <2> QED BY <1>1, <1>7, <2>1 DEF ClosedFrom, Widened
  <1>9. ASSUME NEW B, ClosedFrom(R0, E, B)
        PROVE  w[M] \subseteq B
    <2> DEFINE Q == {k \in Nat : k \in 0..M => w[k] \subseteq B}
    <2>1. 0 \in Q
      BY <1>1, <1>9 DEF ClosedFrom
    <2>2. ASSUME NEW k \in Nat, k \in Q
          PROVE  k + 1 \in Q
      <3> SUFFICES ASSUME k + 1 \in 0..M
                   PROVE  w[k + 1] \subseteq B
        OBVIOUS
      <3>1. k \in 0..M
        OBVIOUS
      <3>2. w[k + 1] = Widened(E, w[k])
        BY <1>1, <3>1
      <3> QED BY <1>9, <2>2, <3>1, <3>2 DEF ClosedFrom, Widened
    <2> HIDE DEF Q
    <2>3. Nat \subseteq Q
      BY <2>1, <2>2, SetInduction
    <2>4. M \in 0..M
      OBVIOUS
    <2> QED BY <2>3, <2>4 DEF Q
  <1> QED BY <1>8, <1>9

-----------------------------------------------------------------------------
(* Reachable is the least set closed under the heap's references.          *)

\* The references a program finds something behind, with what it finds.
LiveRefs == {r \in GcRef : Live(r)}
HeapEdges == [r \in LiveRefs |-> Get(r).refs]

Closed(B) == ClosedFrom(roots, HeapEdges, B)

ReachableIsLeast ==
    /\ Reachable \in SUBSET GcRef
    /\ Closed(Reachable)
    /\ \A B : Closed(B) => Reachable \subseteq B

\* An object holds references only, and no two live references share a slot.
LEMMA LiveRefsBounded ==
  ASSUME TypeOK
  PROVE  /\ \A r \in GcRef : Live(r) => Get(r).refs \subseteq GcRef
         /\ \A r, q \in LiveRefs : r.index = q.index => r = q
         /\ IsFiniteSet(LiveRefs) /\ Cardinality(LiveRefs) <= MaxSlots
  <1>1. \A r \in GcRef : Live(r) => Get(r).refs \subseteq GcRef
    BY DEF TypeOK, Live, Get, GcSlot, NiObject
  <1>2. ASSUME NEW r \in LiveRefs, NEW q \in LiveRefs, r.index = q.index
        PROVE  r = q
    <2>1. r \in GcRef /\ q \in GcRef /\ r.generation = q.generation
      BY <1>2 DEF LiveRefs, Live
    <2> QED BY <1>2, <2>1 DEF GcRef
  <1> DEFINE slotOf == [r \in LiveRefs |-> r.index]
  <1>3. slotOf \in Injection(LiveRefs, Index)
    <2>1. \A r \in LiveRefs : r.index \in Index
      BY DEF LiveRefs, GcRef
    <2>2. slotOf \in [LiveRefs -> Index]
      BY <2>1
    <2>3. \A r, q \in LiveRefs : slotOf[r] = slotOf[q] => r = q
      BY <1>2
    <2> QED BY <2>2, <2>3 DEF Injection, IsInjective
  <1>4. IsFiniteSet(Index) /\ Cardinality(Index) = MaxSlots
    BY BoundsAssumption, FS_Interval DEF Index
  <1>5. IsFiniteSet(LiveRefs) /\ Cardinality(LiveRefs) <= Cardinality(Index)
    BY <1>3, <1>4, FS_Injection
  <1> QED BY <1>1, <1>2, <1>4, <1>5

\* The walk of Reachable follows the heap's edges.
LEMMA ReachableWalk ==
  ASSUME TypeOK
  PROVE  \E w : IsWalk(w, roots, HeapEdges, MaxSlots) /\ Reachable = GcRef \cap w[MaxSlots]
  <1> DEFINE W(v) == v = [n \in 0..MaxSlots |->
                            IF n = 0 THEN roots ELSE v[n - 1] \cup Children(v[n - 1])]
  <1>1. Reachable = GcRef \cap (CHOOSE v : W(v))[MaxSlots]
    BY DEF Reachable
  <1>2. MaxSlots \in Nat /\ roots \in SUBSET GcRef
    BY BoundsAssumption DEF TypeOK
  <1>3. \A B \in SUBSET GcRef : B \cup Children(B) = Widened(HeapEdges, B)
    BY DEF Children, Widened, HeapEdges, LiveRefs
  <1>4. \A r \in DOMAIN HeapEdges : HeapEdges[r] \subseteq GcRef
    BY LiveRefsBounded DEF HeapEdges, LiveRefs
  <1>5. \E v : W(v)
    <2>1. PICK w : IsWalk(w, roots, HeapEdges, MaxSlots)
      BY <1>2, WalkExists
    <2>2. \A n \in 0..MaxSlots : w[n] \in SUBSET GcRef
      BY <1>2, <1>4, <2>1, WalkSteps
    <2>3. \A n \in 0..MaxSlots : n # 0 => w[n - 1] \in SUBSET GcRef
      BY <1>2, <2>2
    <2>4. W(w)
      BY <1>3, <2>1, <2>3 DEF IsWalk
    <2> QED BY <2>4
  <1> HIDE DEF W
  <1>6. PICK w : W(w) /\ Reachable = GcRef \cap w[MaxSlots]
    BY <1>1, <1>5
  <1>7. \A n \in 0..MaxSlots : w[n] \in SUBSET GcRef
    <2> DEFINE P == {k \in Nat : k \in 0..MaxSlots => w[k] \in SUBSET GcRef}
    <2>1. 0 \in P
      BY <1>2, <1>6 DEF W
    <2>2. ASSUME NEW k \in Nat, k \in P
          PROVE  k + 1 \in P
      <3> SUFFICES ASSUME k + 1 \in 0..MaxSlots
                   PROVE  w[k + 1] \in SUBSET GcRef
        OBVIOUS
      <3>1. k \in 0..MaxSlots /\ k + 1 # 0 /\ (k + 1) - 1 = k
        BY <1>2
      <3>2. w[k + 1] = w[k] \cup Children(w[k])
        BY <1>6, <3>1 DEF W
      <3>3. Children(w[k]) \subseteq GcRef
        BY <2>2, <3>1, LiveRefsBounded DEF Children
      <3> QED BY <2>2, <3>1, <3>2, <3>3
    <2> HIDE DEF P
    <2>3. Nat \subseteq P
      BY <2>1, <2>2, SetInduction
    <2> QED BY <2>3 DEF P
  <1>8. \A n \in 0..MaxSlots : n # 0 => w[n - 1] \in SUBSET GcRef
    BY <1>2, <1>7
  <1>9. IsWalk(w, roots, HeapEdges, MaxSlots)
    BY <1>3, <1>6, <1>8 DEF W, IsWalk
  <1> QED BY <1>6, <1>9

\* The bounded walk reaches everything there is to reach, and no more.
LEMMA ReachableLeast == TypeOK => ReachableIsLeast
  <1> SUFFICES ASSUME TypeOK
               PROVE  ReachableIsLeast
    OBVIOUS
  <1>1. MaxSlots \in Nat /\ roots \in SUBSET GcRef
    BY BoundsAssumption DEF TypeOK
  <1>2. PICK w : IsWalk(w, roots, HeapEdges, MaxSlots) /\ Reachable = GcRef \cap w[MaxSlots]
    BY ReachableWalk
  <1>3. DOMAIN HeapEdges = LiveRefs /\ \A r \in LiveRefs : HeapEdges[r] \subseteq GcRef
    BY LiveRefsBounded DEF HeapEdges, LiveRefs
  <1>4. /\ w[MaxSlots] \in SUBSET GcRef
        /\ ClosedFrom(roots, HeapEdges, w[MaxSlots])
        /\ \A B : ClosedFrom(roots, HeapEdges, B) => w[MaxSlots] \subseteq B
    BY <1>1, <1>2, <1>3, LiveRefsBounded, WalkCloses
  <1> QED BY <1>2, <1>4 DEF ReachableIsLeast, Closed

\* What closure means for the heap.
LEMMA ClosedMeans ==
  ASSUME NEW B \in SUBSET GcRef
  PROVE  Closed(B) <=> /\ roots \subseteq B
                       /\ \A r \in B : Live(r) => Get(r).refs \subseteq B
  BY DEF Closed, ClosedFrom, HeapEdges, LiveRefs

-----------------------------------------------------------------------------
(* A collection keeps only what is reachable.                              *)

\* Whatever the collector has marked, has passed and left, or has still to look
\* at, the program can reach.
MarksOK ==
    /\ phase = "mark" =>
          /\ rootsLeft \subseteq roots
          /\ worklist \subseteq Reachable
          /\ \A i \in DOMAIN slots : slots[i].marked => RefTo(i) \in Reachable
    /\ phase = "sweep" =>
          \A i \in DOMAIN slots : slots[i].marked \/ i < cursor => RefTo(i) \in Reachable

CollectInv == HeapInv /\ MarksOK

\* The converse, for a sweep: what the program can reach survives.
LEMMA ReachableSurvives ==
  ASSUME HeapInv, phase = "sweep"
  PROVE  \A r \in Reachable : Live(r) => Survives(r)
  <1> DEFINE B == {r \in GcRef : Live(r) => Survives(r)}
  <1>1. roots \subseteq B
    BY DEF HeapInv, TypeOK, TriColor
  <1>2. ASSUME NEW r \in B, Live(r)
        PROVE  Get(r).refs \subseteq B
    <2>1. Get(r).refs \subseteq GcRef
      BY <1>2, LiveRefsBounded DEF HeapInv
    <2>2. r.index \in DOMAIN slots /\ (slots[r.index].marked \/ r.index < cursor)
      BY <1>2 DEF Live, Survives
    <2>3. \A q \in slots[r.index].object.refs : Live(q) => Survives(q)
      BY <2>2 DEF HeapInv, TriColor
    <2> QED BY <2>1, <2>3 DEF Get
  <1>3. B \in SUBSET GcRef
    OBVIOUS
  <1> HIDE DEF B
  <1>4. Closed(B)
    BY <1>1, <1>2, <1>3, ClosedMeans
  <1>5. Reachable \subseteq B
    BY <1>4, ReachableLeast DEF HeapInv, ReachableIsLeast
  <1> QED BY <1>5 DEF B

\* The references to the slots in use are live, and the only ones that are.
LEMMA RefToLive ==
  ASSUME TypeOK
  PROVE  /\ \A i \in DOMAIN slots : RefTo(i) \in GcRef /\ Live(RefTo(i)) /\ RefTo(i).index = i
         /\ \A r \in GcRef : Live(r) => r = RefTo(r.index)
  BY DEF TypeOK, RefTo, Live, GcRef, GcSlot

\* A step that keeps the roots, and changes nothing about the objects that can be
\* reached, does not change what can be reached.
LEMMA SameReachable ==
  ASSUME TypeOK, TypeOK', roots' = roots,
         \A r \in Reachable : (Live(r)' <=> Live(r))
                              /\ (Live(r) => (Get(r).refs)' = Get(r).refs)
  PROVE  Reachable' = Reachable
  <1>1. ReachableIsLeast /\ ReachableIsLeast'
    <2>1. ReachableIsLeast
      BY ReachableLeast
    <2>2. TypeOK' => ReachableIsLeast'
      BY ReachableLeast, PTL
    <2> QED BY <2>1, <2>2
  <1>2. /\ Reachable \in SUBSET GcRef /\ roots \subseteq Reachable
        /\ \A r \in Reachable : Live(r) => Get(r).refs \subseteq Reachable
    BY <1>1, ClosedMeans DEF ReachableIsLeast
  <1>3. /\ Reachable' \in SUBSET GcRef /\ roots \subseteq Reachable'
        /\ \A r \in Reachable' : Live(r)' => (Get(r).refs)' \subseteq Reachable'
    BY <1>1 DEF ReachableIsLeast, Closed, ClosedFrom, HeapEdges, LiveRefs
  <1>4. Reachable' \subseteq Reachable
    <2>1. ClosedFrom(roots', HeapEdges', Reachable)
      <3>1. \A r \in Reachable \cap DOMAIN HeapEdges' :
               r \in Reachable /\ Live(r)' /\ HeapEdges'[r] = (Get(r).refs)'
        BY DEF HeapEdges, LiveRefs
      <3> QED BY <1>2, <3>1 DEF ClosedFrom
    <2> QED BY <1>1, <2>1 DEF ReachableIsLeast, Closed
  <1>5. Reachable \subseteq Reachable'
    <2> DEFINE B == Reachable \cap Reachable'
    <2>1. \A r \in B : Live(r) => Get(r).refs \subseteq B
      BY <1>2, <1>3
    <2>2. B \in SUBSET GcRef /\ roots \subseteq B
      BY <1>2, <1>3
    <2> HIDE DEF B
    <2>3. Closed(B)
      BY <2>1, <2>2, ClosedMeans
    <2>4. Reachable \subseteq B
      BY <1>1, <2>3 DEF ReachableIsLeast
    <2> QED BY <2>4 DEF B
  <1> QED BY <1>4, <1>5

\* mark and sweep keep it: a reference is put on the worklist only from a root or
\* from an object that is marked, and only a slot without a mark is freed.
LEMMA MarksStep == CollectInv /\ [Next]_vars => MarksOK'
  <1> SUFFICES ASSUME CollectInv, [Next]_vars
               PROVE  MarksOK'
    OBVIOUS
  <1> USE DEF CollectInv
  <1>0. /\ TypeOK /\ TypeOK' /\ PhaseOK /\ MarksOK
        /\ cursor \in Nat /\ DOMAIN slots \subseteq Nat
        /\ slots \in [DOMAIN slots -> GcSlot]
    <2>1. TypeOK /\ PhaseOK /\ TypeOK'
      BY TypeStep DEF HeapInv
    <2>2. /\ cursor \in Nat /\ DOMAIN slots \subseteq Nat
          /\ slots \in [DOMAIN slots -> GcSlot]
      BY <2>1 DEF TypeOK, Index
    <2> QED BY <2>1, <2>2
  <1>1. /\ roots \subseteq Reachable
        /\ \A r \in Reachable : r \in GcRef /\ (Live(r) => Get(r).refs \subseteq Reachable)
    BY <1>0, ReachableLeast, ClosedMeans DEF ReachableIsLeast
  <1>2. CASE phase' = "program"
    BY <1>2 DEF MarksOK
  <1>3. ASSUME phase = "program", UNCHANGED phase
        PROVE  MarksOK'
    BY <1>3 DEF MarksOK
  <1>4. CASE StartCollect
    BY <1>0, <1>4 DEF MarksOK, PhaseOK, StartCollect, MarkedRoots, heapVars
  <1>5. ASSUME NEW r \in GcRef, MarkRoot(r)
        PROVE  MarksOK'
    <2>1. /\ phase = "mark" /\ phase' = "mark" /\ UNCHANGED <<slots, roots>>
          /\ r \in rootsLeft /\ worklist' = {r} /\ rootsLeft' = rootsLeft \ {r}
      BY <1>5 DEF MarkRoot, heapVars
    <2>2. Reachable' = Reachable
      BY <1>0, <2>1, SameReachable DEF Live, Get
    <2> QED BY <1>0, <1>1, <2>1, <2>2 DEF MarksOK, RefTo
  <1>6. ASSUME NEW r \in GcRef, MarkStep(r)
        PROVE  MarksOK'
    <2>1. /\ phase = "mark" /\ phase' = "mark" /\ UNCHANGED <<roots, rootsLeft>>
          /\ r \in worklist /\ worklist \subseteq Reachable
      BY <1>0, <1>6 DEF MarkStep, MarksOK
    <2>2. /\ DOMAIN slots' = DOMAIN slots
          /\ \A i \in DOMAIN slots : /\ slots'[i].generation = slots[i].generation
                                     /\ slots'[i].object = slots[i].object
                                     /\ slots'[i].marked => slots[i].marked \/ (i = r.index /\ Live(r))
          /\ worklist' \subseteq worklist \cup (IF Live(r) THEN Get(r).refs ELSE {})
      <3>1. CASE NeedsVisit(r)
        <4>1. /\ slots' = [slots EXCEPT ![r.index].marked = TRUE]
              /\ worklist' = (worklist \ {r}) \cup Get(r).refs
              /\ Live(r) /\ r.index \in DOMAIN slots
          BY <1>6, <3>1 DEF MarkStep, NeedsVisit, References, Live
        <4>2. /\ DOMAIN slots' = DOMAIN slots
              /\ \A i \in DOMAIN slots : /\ slots'[i].generation = slots[i].generation
                                         /\ slots'[i].object = slots[i].object
                                         /\ i # r.index => slots'[i] = slots[i]
          BY <1>0, <4>1 DEF GcSlot
        <4> QED BY <4>1, <4>2
      <3>2. CASE ~NeedsVisit(r)
        <4>1. slots' = slots /\ worklist' = worklist \ {r}
          BY <1>6, <3>2 DEF MarkStep
        <4>2. worklist' \subseteq worklist
          BY <4>1
        <4>3. worklist' \subseteq worklist \cup (IF Live(r) THEN Get(r).refs ELSE {})
          BY <4>2
        <4> QED BY <4>1, <4>3
      <3> QED BY <3>1, <3>2
    <2>3. Reachable' = Reachable
      BY <1>0, <2>1, <2>2, SameReachable DEF Live, Get
    <2>4. worklist' \subseteq Reachable'
      BY <1>1, <2>1, <2>2, <2>3
    <2>5. ASSUME NEW i \in DOMAIN slots', slots'[i].marked
          PROVE  RefTo(i)' \in Reachable'
      <3>1. RefTo(i)' = RefTo(i)
        BY <2>2, <2>5 DEF RefTo
      <3>2. CASE slots[i].marked
        BY <1>0, <2>1, <2>2, <2>3, <2>5, <3>1, <3>2 DEF MarksOK
      <3>3. CASE i = r.index /\ Live(r)
        BY <1>0, <2>1, <2>3, <3>1, <3>3, RefToLive
      <3> QED BY <2>2, <2>5, <3>2, <3>3
    <2>6. rootsLeft' \subseteq roots'
      BY <1>0, <2>1 DEF MarksOK
    <2> QED BY <2>1, <2>4, <2>5, <2>6 DEF MarksOK
  <1>7. CASE StartSweep
    <2>1. /\ phase = "mark" /\ phase' = "sweep" /\ cursor' = 0 /\ UNCHANGED <<slots, roots>>
      BY <1>0, <1>7 DEF StartSweep, PhaseOK, heapVars
    <2>2. Reachable' = Reachable
      BY <1>0, <2>1, SameReachable DEF Live, Get
    <2> QED BY <1>0, <2>1, <2>2 DEF MarksOK, RefTo
  <1>8. CASE SweepSlot
    <2>1. /\ phase = "sweep" /\ phase' = "sweep"
          /\ cursor' = cursor + 1 /\ UNCHANGED roots
      BY <1>8 DEF SweepSlot
    <2>2. /\ DOMAIN slots' \subseteq DOMAIN slots
          /\ \A i \in DOMAIN slots' :
                /\ slots'[i].generation = slots[i].generation
                /\ slots'[i].object = slots[i].object
                /\ i = cursor => slots[i].marked
                /\ slots'[i].marked => slots[i].marked
          /\ \A i \in DOMAIN slots \ DOMAIN slots' : i = cursor /\ ~slots[i].marked
      <3>1. CASE ~slots[cursor].marked /\ Free(cursor)
        BY <1>0, <3>1 DEF Free
      <3>2. CASE cursor \in DOMAIN slots /\ slots[cursor].marked /\ Unmark(cursor)
        BY <1>0, <3>2 DEF Unmark, GcSlot
      <3>3. CASE cursor \notin DOMAIN slots /\ UNCHANGED slots
        BY <3>3
      <3> QED BY <1>8, <3>1, <3>2, <3>3 DEF SweepSlot
    <2>3. ASSUME NEW r \in Reachable
          PROVE  (Live(r)' <=> Live(r)) /\ (Live(r) => (Get(r).refs)' = Get(r).refs)
      <3>1. Live(r) => slots[r.index].marked \/ r.index < cursor
        BY <2>1, ReachableSurvives DEF Survives
      <3>2. Live(r) => r.index \in DOMAIN slots'
        BY <1>0, <2>2, <3>1 DEF Live
      <3> QED BY <2>2, <3>2 DEF Live, Get
    <2>4. Reachable' = Reachable
      BY <1>0, <2>1, <2>3, SameReachable
    <2>5. ASSUME NEW i \in DOMAIN slots', slots'[i].marked \/ i < cursor'
          PROVE  RefTo(i)' \in Reachable'
      <3>1. RefTo(i)' = RefTo(i) /\ i \in DOMAIN slots
        BY <2>2, <2>5 DEF RefTo
      <3>2. slots[i].marked \/ i < cursor
        BY <1>0, <2>1, <2>2, <2>5, <3>1
      <3> QED BY <1>0, <2>1, <2>4, <3>1, <3>2 DEF MarksOK
    <2> QED BY <2>1, <2>5 DEF MarksOK
  <1>9. CASE EndSweep
    BY <1>2, <1>9 DEF EndSweep
  <1>10. CASE UNCHANGED vars
    <2>1. UNCHANGED <<slots, roots, rootsLeft, worklist, phase, cursor>>
      BY <1>10 DEF vars, heapVars, collectorVars
    <2>2. Reachable' = Reachable
      BY <1>0, <2>1, SameReachable DEF Live, Get
    <2> QED BY <1>0, <2>1, <2>2 DEF MarksOK, RefTo
  <1>11. CASE Program
    BY <1>3, <1>11 DEF Program, Alloc, SetObject, AddRoot, DropRoot, collectorVars
  <1> QED BY <1>4, <1>5, <1>6, <1>7, <1>8, <1>9, <1>10, <1>11 DEF Next, Collect

\* The invariant a collection keeps, from the heap's and from the marks.
LEMMA CollectInvariant == Spec => []CollectInv
  <1>1. Init => CollectInv
    BY HeapInvInit DEF CollectInv, MarksOK, Init
  <1>2. CollectInv /\ [Next]_vars => MarksOK'
    BY MarksStep
  <1>3. CollectInv <=> HeapInv /\ MarksOK
    BY DEF CollectInv
  <1> QED BY <1>1, <1>2, <1>3, HeapInvariant, PTL DEF Spec

LEMMA CollectInvExact == CollectInv => CollectsExactlyGarbage
  <1> SUFFICES ASSUME CollectInv
               PROVE  CollectsExactlyGarbage
    OBVIOUS
  <1> DEFINE reached == {r.index : r \in {q \in Reachable : Live(q)}}
             marked == {i \in DOMAIN slots : slots[i].marked}
             passed == {i \in DOMAIN slots : i < cursor}
  <1>1. /\ TypeOK /\ PhaseOK /\ MarksOK
        /\ phase \in {"program", "mark", "sweep"}
    BY DEF CollectInv, HeapInv, TypeOK
  <1>2. \A i \in DOMAIN slots : RefTo(i) \in Reachable => i \in reached
    BY <1>1, RefToLive
  <1>3. CASE phase = "program"
    <2>1. marked = {}
      BY <1>1, <1>3 DEF PhaseOK
    <2> QED BY <1>3, <2>1 DEF CollectsExactlyGarbage
  <1>4. CASE phase = "mark"
    <2>1. marked \subseteq reached
      BY <1>1, <1>2, <1>4 DEF MarksOK
    <2> QED BY <1>4, <2>1 DEF CollectsExactlyGarbage
  <1>5. CASE phase = "sweep"
    <2>1. marked \cup passed \subseteq reached
      BY <1>1, <1>2, <1>5 DEF MarksOK
    <2>2. ASSUME NEW r \in Reachable, Live(r)
          PROVE  r.index \in marked \cup passed
      BY <1>5, <2>2, ReachableSurvives DEF CollectInv, Survives, Live
    <2>3. marked \cup passed = reached
      BY <2>1, <2>2
    <2> QED BY <1>5, <2>3 DEF CollectsExactlyGarbage
  <1> QED BY <1>1, <1>3, <1>4, <1>5

\* Whatever the shape of the object graph, a collection of gc.rs frees exactly the
\* objects no root leads to: mark() marks nothing else, and as sweep() goes on, the
\* slots it has passed and the marks ahead of it are the reachable objects.
THEOREM ExactlyGarbageIsCollected == Spec => []CollectsExactlyGarbage
  BY CollectInvariant, CollectInvExact, PTL

-----------------------------------------------------------------------------
(* The heap implements ObjectStore.                                        *)

\* The store a heap stands for: the substitution of Store.
AbsRefs(i) == {issued[r] : r \in slots[i].object.refs}
AbsObjs == [o \in {slots[i].object.id : i \in DOMAIN slots} |->
              LET i == CHOOSE j \in DOMAIN slots : slots[j].object.id = o
              IN  {issued[r] : r \in slots[i].object.refs}]
AbsRoots == {issued[r] : r \in roots}

\* A reference in the heap, or held by the program, is one that alloc gave out,
\* and no two of those were given out for the same object.
IdsOK ==
    /\ roots \subseteq DOMAIN issued
    /\ \A i \in DOMAIN slots : slots[i].object.refs \subseteq DOMAIN issued
    /\ \A r, q \in DOMAIN issued : issued[r] = issued[q] => r = q
    /\ \A r \in DOMAIN issued : issued[r] <= allocations

StoreInv == CollectInv /\ IdsOK

\* The objects of the store are those in the slots, each in one slot.
AbsShape ==
    /\ \A i, j \in DOMAIN slots : slots[i].object.id = slots[j].object.id => i = j
    /\ DOMAIN AbsObjs = {slots[i].object.id : i \in DOMAIN slots}
    /\ \A i \in DOMAIN slots : AbsObjs[slots[i].object.id] = AbsRefs(i)
    /\ AbsObjs = [o \in DOMAIN AbsObjs |-> AbsObjs[o]]

LEMMA AbsObjsShape == StoreInv => AbsShape
  <1> SUFFICES ASSUME StoreInv
               PROVE  AbsShape
    OBVIOUS
  <1>1. ASSUME NEW i \in DOMAIN slots, NEW j \in DOMAIN slots,
               slots[i].object.id = slots[j].object.id
        PROVE  i = j
    <2>1. /\ RefTo(i) \in DOMAIN issued /\ issued[RefTo(i)] = slots[i].object.id
          /\ RefTo(j) \in DOMAIN issued /\ issued[RefTo(j)] = slots[j].object.id
      BY DEF StoreInv, CollectInv, HeapInv, IssuedOK
    <2>2. RefTo(i) = RefTo(j)
      BY <1>1, <2>1 DEF StoreInv, IdsOK
    <2> QED BY <2>2 DEF RefTo
  <1>2. DOMAIN AbsObjs = {slots[i].object.id : i \in DOMAIN slots}
    BY DEF AbsObjs
  <1>3. ASSUME NEW i \in DOMAIN slots
        PROVE  AbsObjs[slots[i].object.id] = AbsRefs(i)
    <2> DEFINE o == slots[i].object.id
               j == CHOOSE k \in DOMAIN slots : slots[k].object.id = o
    <2>1. j \in DOMAIN slots /\ slots[j].object.id = o
      OBVIOUS
    <2>2. j = i
      BY <1>1, <2>1
    <2>3. AbsObjs[o] = {issued[r] : r \in slots[j].object.refs}
      BY DEF AbsObjs
    <2> QED BY <2>2, <2>3 DEF AbsRefs
  <1>4. AbsObjs = [o \in DOMAIN AbsObjs |-> AbsObjs[o]]
    BY DEF AbsObjs
  <1> QED BY <1>1, <1>2, <1>3, <1>4 DEF AbsShape

\* The program reaches only references it was given, and the store's Reachable
\* is what the heap's stands for.
LEMMA StoreReachable ==
  ASSUME StoreInv
  PROVE  /\ Reachable \subseteq DOMAIN issued
         /\ Store!Reachable = {issued[r] : r \in Reachable}
  <1>0. /\ TypeOK /\ AbsShape /\ IdsOK /\ IssuedOK
        /\ MaxObjects \in Nat
        /\ issued \in [DOMAIN issued -> 1..MaxObjects]
        /\ DOMAIN issued \in SUBSET GcRef
    BY AbsObjsShape, BoundsAssumption DEF StoreInv, CollectInv, HeapInv, TypeOK
  <1>1. Reachable \subseteq DOMAIN issued
    <2>1. Closed(DOMAIN issued)
      BY <1>0, ClosedMeans DEF IdsOK, Live, Get
    <2> QED BY <1>0, <2>1, ReachableLeast DEF ReachableIsLeast
  <1>2. /\ AbsRoots \in SUBSET (1..MaxObjects)
        /\ \A o \in DOMAIN AbsObjs : AbsObjs[o] \subseteq 1..MaxObjects
        /\ DOMAIN AbsObjs \in SUBSET (1..MaxObjects)
    <2>1. AbsRoots \in SUBSET (1..MaxObjects)
      BY <1>0 DEF AbsRoots, IdsOK
    <2>2. \A i \in DOMAIN slots : /\ AbsRefs(i) \subseteq 1..MaxObjects
                                  /\ slots[i].object.id \in 1..MaxObjects
      BY <1>0 DEF AbsRefs, IdsOK, IssuedOK
    <2> QED BY <1>0, <2>1, <2>2 DEF AbsShape
  <1>3. IsFiniteSet(DOMAIN AbsObjs) /\ Cardinality(DOMAIN AbsObjs) <= MaxObjects
    <2>1. IsFiniteSet(1..MaxObjects) /\ Cardinality(1..MaxObjects) = MaxObjects
      BY <1>0, FS_Interval
    <2> QED BY <1>2, <2>1, FS_Subset
  <1>4. PICK w : IsWalk(w, AbsRoots, AbsObjs, MaxObjects) /\ Store!Reachable = w[MaxObjects]
    <2> DEFINE W(v) == IsWalk(v, AbsRoots, AbsObjs, MaxObjects)
    <2>1. Store!Reachable = (CHOOSE v : W(v))[MaxObjects]
      BY DEF Store!Reachable, Store!Successors, IsWalk, Widened, AbsRoots, AbsObjs
    <2>2. \E v : W(v)
      BY <1>0, WalkExists
    <2> HIDE DEF W
    <2>3. \E v : W(v) /\ Store!Reachable = v[MaxObjects]
      BY <2>1, <2>2
    <2> QED BY <2>3 DEF W
  <1>5. /\ Store!Reachable \in SUBSET (1..MaxObjects)
        /\ ClosedFrom(AbsRoots, AbsObjs, Store!Reachable)
        /\ \A B : ClosedFrom(AbsRoots, AbsObjs, B) => Store!Reachable \subseteq B
    <2>1. /\ w[MaxObjects] \in SUBSET (1..MaxObjects)
          /\ ClosedFrom(AbsRoots, AbsObjs, w[MaxObjects])
          /\ \A B : ClosedFrom(AbsRoots, AbsObjs, B) => w[MaxObjects] \subseteq B
      <3> DEFINE X == 1..MaxObjects
      <3>1. /\ AbsRoots \in SUBSET X
            /\ \A o \in DOMAIN AbsObjs : AbsObjs[o] \subseteq X
        BY <1>2
      <3>2. IsWalk(w, AbsRoots, AbsObjs, MaxObjects) /\ MaxObjects \in Nat
        BY <1>0, <1>4
      <3> HIDE DEF X
      <3>3. /\ w[MaxObjects] \in SUBSET X
            /\ ClosedFrom(AbsRoots, AbsObjs, w[MaxObjects])
            /\ \A B : ClosedFrom(AbsRoots, AbsObjs, B) => w[MaxObjects] \subseteq B
        BY <1>3, <3>1, <3>2, WalkCloses
      <3> QED BY <3>3 DEF X
    <2> QED BY <1>4, <2>1
  <1> DEFINE R == {issued[r] : r \in Reachable}
  <1>6. Store!Reachable \subseteq R
    <2>1. Closed(Reachable) /\ Reachable \in SUBSET GcRef
      BY <1>0, ReachableLeast DEF ReachableIsLeast
    <2>2. AbsRoots \subseteq R
      BY <2>1, ClosedMeans DEF AbsRoots
    <2>3. ASSUME NEW o \in R \cap DOMAIN AbsObjs
          PROVE  AbsObjs[o] \subseteq R
      <3>1. PICK r \in Reachable : o = issued[r]
        OBVIOUS
      <3>2. PICK i \in DOMAIN slots : o = slots[i].object.id
        BY <1>0 DEF AbsShape
      <3>3. RefTo(i) = r
        BY <1>0, <1>1, <3>1, <3>2 DEF IssuedOK, IdsOK
      <3>4. Live(r) /\ Get(r).refs = slots[i].object.refs
        BY <1>0, <3>3, RefToLive DEF Get
      <3>5. slots[i].object.refs \subseteq Reachable
        BY <2>1, <3>4, ClosedMeans
      <3>6. AbsObjs[o] = AbsRefs(i)
        BY <1>0, <3>2 DEF AbsShape
      <3> QED BY <3>5, <3>6 DEF AbsRefs
    <2> HIDE DEF R
    <2>4. ClosedFrom(AbsRoots, AbsObjs, R)
      BY <2>2, <2>3 DEF ClosedFrom
    <2> QED BY <1>5, <2>4
  <1>7. R \subseteq Store!Reachable
    <2> DEFINE B == {r \in DOMAIN issued : issued[r] \in Store!Reachable}
    <2>1. roots \subseteq B
      BY <1>0, <1>5 DEF IdsOK, ClosedFrom, AbsRoots
    <2>2. ASSUME NEW r \in B, Live(r)
          PROVE  Get(r).refs \subseteq B
      <3> DEFINE i == r.index
      <3>1. i \in DOMAIN slots /\ RefTo(i) = r
        BY <1>0, <2>2, RefToLive DEF Live
      <3>2. issued[r] = slots[i].object.id
        BY <1>0, <3>1 DEF IssuedOK
      <3>3. issued[r] \in DOMAIN AbsObjs /\ AbsObjs[issued[r]] = AbsRefs(i)
        BY <1>0, <3>1, <3>2 DEF AbsShape
      <3>4. AbsRefs(i) \subseteq Store!Reachable
        BY <1>5, <2>2, <3>3 DEF ClosedFrom
      <3>5. slots[i].object.refs \subseteq DOMAIN issued
        BY <1>0, <3>1 DEF IdsOK
      <3> QED BY <3>4, <3>5 DEF AbsRefs, Get
    <2>3. B \in SUBSET GcRef
      BY <1>0
    <2>4. Closed(B)
      <3> HIDE DEF B
      <3> QED BY <2>1, <2>2, <2>3, ClosedMeans
    <2>5. Reachable \subseteq B
      BY <1>0, <2>4, ReachableLeast DEF ReachableIsLeast
    <2> QED BY <2>5
  <1> QED BY <1>1, <1>6, <1>7

\* What a write through get_mut changes: the references of one object.
LEMMA SetObjectEffect ==
  ASSUME TypeOK, NEW r, NEW S, NEW sz, SetObject(r, S, sz)
  PROVE  /\ r \in Reachable /\ Live(r) /\ r.index \in DOMAIN slots
         /\ DOMAIN slots' = DOMAIN slots
         /\ \A i \in DOMAIN slots :
               /\ slots'[i].object.id = slots[i].object.id
               /\ slots'[i].object.refs = IF i = r.index THEN S ELSE slots[i].object.refs
         /\ UNCHANGED <<roots, allocations, issued>>
  <1>1. /\ slots' = [slots EXCEPT ![r.index].object = [@ EXCEPT !.refs = S, !.size = sz]]
        /\ r \in Reachable /\ Live(r) /\ r.index \in DOMAIN slots
        /\ UNCHANGED <<roots, allocations, issued>>
    BY DEF SetObject, Live, ghosts
  <1>2. slots \in [DOMAIN slots -> GcSlot]
    BY DEF TypeOK
  <1> QED BY <1>1, <1>2 DEF GcSlot, NiObject

\* The collector, and the program's steps on roots, leave the objects alone.
OnlyMarks ==
    /\ DOMAIN slots' = DOMAIN slots
    /\ \A i \in DOMAIN slots : slots'[i].object = slots[i].object
    /\ UNCHANGED <<allocations, issued>>

\* The steps by what they do to the objects.
LEMMA StepCases ==
  ASSUME HeapInv, [Next]_vars
  PROVE  \/ \E S \in SUBSET Reachable, sz \in Sizes : Alloc(S, sz)
         \/ \E r \in Reachable, S \in SUBSET Reachable, sz \in Sizes : SetObject(r, S, sz)
         \/ \E r \in DOMAIN issued : AddRoot(r) /\ OnlyMarks
         \/ \E r \in roots : DropRoot(r) /\ OnlyMarks
         \/ OnlyMarks /\ UNCHANGED roots
         \/ /\ cursor \in DOMAIN slots /\ ~slots[cursor].marked /\ phase = "sweep"
            /\ Free(cursor)
            /\ UNCHANGED <<roots, allocations, issued>>
  <1>1. slots \in [DOMAIN slots -> GcSlot]
    BY DEF HeapInv, TypeOK
  <1>2. ASSUME UNCHANGED <<slots, allocations, issued>>
        PROVE  OnlyMarks
    BY <1>2 DEF OnlyMarks
  <1>3. ASSUME NEW r, AddRoot(r) \/ DropRoot(r)
        PROVE  OnlyMarks
    BY <1>2, <1>3 DEF AddRoot, DropRoot, heapVars, ghosts
  <1>4. ASSUME NEW r \in GcRef, MarkRoot(r)
        PROVE  OnlyMarks /\ UNCHANGED roots
    BY <1>2, <1>4 DEF MarkRoot, heapVars, ghosts
  <1>5. ASSUME NEW r \in GcRef, MarkStep(r)
        PROVE  OnlyMarks /\ UNCHANGED roots
    BY <1>1, <1>5 DEF MarkStep, NeedsVisit, Live, OnlyMarks, ghosts, GcSlot
  <1>6. CASE StartCollect \/ StartSweep \/ EndSweep \/ UNCHANGED vars
    <2>1. UNCHANGED <<slots, allocations, issued, roots>>
      BY <1>6 DEF StartCollect, StartSweep, EndSweep, vars, heapVars, ghosts
    <2> QED BY <1>2, <2>1
  <1>7. ASSUME SweepSlot, ~(~slots[cursor].marked /\ cursor \in DOMAIN slots /\ Free(cursor))
        PROVE  OnlyMarks /\ UNCHANGED roots
    BY <1>1, <1>7 DEF SweepSlot, Unmark, OnlyMarks, ghosts, GcSlot
  <1>8. ASSUME SweepSlot
        PROVE  phase = "sweep" /\ UNCHANGED <<roots, allocations, issued>>
    BY <1>8 DEF SweepSlot, ghosts
  <1> QED BY <1>3, <1>4, <1>5, <1>6, <1>7, <1>8 DEF Next, Program, Collect

\* alloc gives out a reference never given out before, for a new object, and the
\* program works with references it was given.
LEMMA IdsStep == StoreInv /\ [Next]_vars => IdsOK'
  <1> SUFFICES ASSUME StoreInv, [Next]_vars
               PROVE  IdsOK'
    OBVIOUS
  <1>0. HeapInv /\ TypeOK /\ IdsOK /\ Reachable \subseteq DOMAIN issued
        /\ allocations \in Nat /\ issued \in [DOMAIN issued -> Nat]
    BY StoreReachable, BoundsAssumption DEF StoreInv, CollectInv, HeapInv, TypeOK
  <1>1. ASSUME NEW S \in SUBSET Reachable, NEW sz \in Sizes, Alloc(S, sz)
        PROVE  IdsOK'
    <2> DEFINE i == AllocIndex
               q == [index |-> AllocIndex, generation |-> NextGeneration(AllocIndex)]
    <2>1. q \notin DOMAIN issued
      BY <1>0, <1>1, AllocGeneration
    <2>2. /\ DOMAIN slots' = DOMAIN slots \cup {i} /\ slots'[i].object.refs = S
          /\ \A j \in DOMAIN slots : slots'[j] = slots[j]
          /\ DOMAIN issued' = DOMAIN issued \cup {q} /\ issued'[q] = allocations + 1
          /\ \A r \in DOMAIN issued : issued'[r] = issued[r]
      BY <1>0, <1>1, AllocEffect
    <2>3. roots' = roots \cup {q} /\ allocations' = allocations + 1
      BY <1>1 DEF Alloc
    <2>4. i \notin DOMAIN slots
      BY <1>0, <1>1, AllocTarget
    <2> HIDE DEF q, i
    <2>5. \A r \in DOMAIN issued' : issued'[r] <= allocations'
      BY <1>0, <2>2, <2>3 DEF IdsOK
    <2>6. \A r, p \in DOMAIN issued' : issued'[r] = issued'[p] => r = p
      <3>1. \A r \in DOMAIN issued : issued[r] # allocations + 1
        BY <1>0 DEF IdsOK
      <3> QED BY <1>0, <2>2, <3>1 DEF IdsOK
    <2>7. \A j \in DOMAIN slots' : slots'[j].object.refs \subseteq DOMAIN issued'
      BY <1>0, <2>2 DEF IdsOK
    <2>8. roots' \subseteq DOMAIN issued'
      BY <1>0, <2>2, <2>3 DEF IdsOK
    <2> QED BY <2>5, <2>6, <2>7, <2>8 DEF IdsOK
  <1>2. ASSUME NEW r \in Reachable, NEW S \in SUBSET Reachable, NEW sz \in Sizes,
               SetObject(r, S, sz)
        PROVE  IdsOK'
    <2>1. /\ DOMAIN slots' = DOMAIN slots
          /\ \A i \in DOMAIN slots :
                slots'[i].object.refs = IF i = r.index THEN S ELSE slots[i].object.refs
          /\ UNCHANGED <<roots, allocations, issued>>
      BY <1>0, <1>2, SetObjectEffect
    <2> QED BY <1>0, <2>1 DEF IdsOK
  <1>3. ASSUME OnlyMarks, roots' \subseteq DOMAIN issued
        PROVE  IdsOK'
    BY <1>0, <1>3 DEF IdsOK, OnlyMarks
  <1>4. ASSUME NEW r \in DOMAIN issued, AddRoot(r), OnlyMarks
        PROVE  IdsOK'
    BY <1>0, <1>3, <1>4 DEF AddRoot, IdsOK
  <1>5. ASSUME NEW r \in roots, DropRoot(r), OnlyMarks
        PROVE  IdsOK'
    BY <1>0, <1>3, <1>5 DEF DropRoot, IdsOK
  <1>6. CASE OnlyMarks /\ UNCHANGED roots
    BY <1>0, <1>3, <1>6 DEF IdsOK
  <1>7. CASE Free(cursor) /\ UNCHANGED <<roots, allocations, issued>>
    <2>1. DOMAIN slots' \subseteq DOMAIN slots /\ \A i \in DOMAIN slots' : slots'[i] = slots[i]
      BY <1>7 DEF Free
    <2> QED BY <1>0, <1>7, <2>1 DEF IdsOK
  <1> QED BY <1>0, <1>1, <1>2, <1>4, <1>5, <1>6, <1>7, StepCases

LEMMA StoreInvariant == Spec => []StoreInv
  <1>1. Init => StoreInv
    BY HeapInvInit DEF StoreInv, CollectInv, MarksOK, IdsOK, Init
  <1>2. StoreInv /\ [Next]_vars => IdsOK'
    BY IdsStep
  <1>3. StoreInv <=> CollectInv /\ IdsOK
    BY DEF StoreInv
  <1> QED BY <1>1, <1>2, <1>3, CollectInvariant, PTL DEF Spec

\* Two stores with the same objects in the same slots are one.
LEMMA SameObjs ==
  ASSUME AbsShape, AbsShape', IdsOK, OnlyMarks
  PROVE  AbsObjs' = AbsObjs
  <1>1. DOMAIN AbsObjs' = DOMAIN AbsObjs
    BY DEF AbsShape, OnlyMarks
  <1>2. \A i \in DOMAIN slots : AbsRefs(i)' = AbsRefs(i)
    BY DEF OnlyMarks, AbsRefs
  <1>3. \A o \in DOMAIN AbsObjs : AbsObjs'[o] = AbsObjs[o]
    BY <1>2 DEF AbsShape, OnlyMarks
  <1> QED BY <1>1, <1>3 DEF AbsShape

\* Every step of the heap is a step of the store, or changes nothing of it: alloc
\* is Create, a write through get_mut is Rewrite, freeing a slot is Reclaim, and
\* marking does not show.
LEMMA StoreStep == StoreInv /\ StoreInv' /\ [Next]_vars => [Store!Next]_(Store!vars)
  <1> SUFFICES ASSUME StoreInv, StoreInv', [Next]_vars
               PROVE  [Store!Next]_(Store!vars)
    OBVIOUS
  <1> DEFINE Ids(R) == {issued[r] : r \in R}
             used == 1..allocations
             StoreSame == /\ AbsObjs' = AbsObjs /\ AbsRoots' = AbsRoots /\ used' = used
             Id == 1..MaxObjects
  <1>0. /\ HeapInv /\ TypeOK /\ TypeOK' /\ IdsOK /\ IdsOK' /\ AbsShape /\ IssuedOK
        /\ Reachable \subseteq DOMAIN issued
        /\ allocations \in Nat /\ allocations <= MaxObjects /\ MaxObjects \in Nat
        /\ issued \in [DOMAIN issued -> Id]
    <2>1. HeapInv /\ TypeOK /\ TypeOK' /\ IdsOK /\ IdsOK' /\ IssuedOK
      BY DEF StoreInv, CollectInv, HeapInv
    <2>2. AbsShape /\ Reachable \subseteq DOMAIN issued
      BY AbsObjsShape, StoreReachable
    <2>3. /\ allocations \in Nat /\ allocations <= MaxObjects /\ MaxObjects \in Nat
          /\ issued \in [DOMAIN issued -> Id]
      BY <2>1, BoundsAssumption DEF TypeOK
    <2> QED BY <2>1, <2>2, <2>3
  <1>0a. AbsShape'
    <2>1. StoreInv' => AbsShape'
      BY AbsObjsShape, PTL
    <2> QED BY <2>1
  <1>0b. /\ Store!Reachable = Ids(Reachable)
         /\ \A S \in SUBSET Reachable : Ids(S) \subseteq Store!Reachable /\ Ids(S) \in SUBSET Id
    BY <1>0, StoreReachable
  <1>0c. \A r \in DOMAIN issued : issued[r] \in used /\ issued[r] \in Id
    BY <1>0 DEF IdsOK
  <1>0d. \A i \in DOMAIN slots : /\ slots[i].object.id = issued[RefTo(i)]
                                 /\ RefTo(i) \in DOMAIN issued
                                 /\ slots[i].object.id \in Id
                                 /\ slots[i].object.id \in used
    BY <1>0, <1>0c DEF IssuedOK
  <1>0e. ASSUME NEW o \in Id,
                \/ \E S \in SUBSET Id : Store!Create(o, S) \/ Store!Rewrite(o, S)
                \/ Store!Hold(o) \/ Store!LetGo(o) \/ Store!Reclaim(o)
         PROVE  Store!Next
    BY <1>0e DEF Store!Next, Store!Id
  <1>1. StoreSame => UNCHANGED Store!vars
    BY DEF Store!vars, AbsObjs, AbsRoots
  <1>2. ASSUME NEW S \in SUBSET Reachable, NEW sz \in Sizes, Alloc(S, sz)
        PROVE  Store!Next
    <2> DEFINE q == [index |-> AllocIndex, generation |-> NextGeneration(AllocIndex)]
    <2>0. PICK i, o, T : i = AllocIndex /\ o = allocations + 1 /\ T = Ids(S)
      OBVIOUS
    <2>1. /\ DOMAIN slots' = DOMAIN slots \cup {i}
          /\ slots'[i].object.refs = S /\ slots'[i].object.id = o
          /\ \A j \in DOMAIN slots : slots'[j] = slots[j]
          /\ DOMAIN issued' = DOMAIN issued \cup {q} /\ issued'[q] = o
          /\ \A r \in DOMAIN issued : issued'[r] = issued[r]
      BY <1>0, <1>2, <2>0, AllocEffect
    <2>2. roots' = roots \cup {q} /\ allocations' = allocations + 1 /\ allocations < MaxObjects
      BY <1>2 DEF Alloc
    <2> HIDE DEF q
    <2>3. o \in Id /\ o \notin used /\ used' = used \cup {o}
      BY <2>0, <1>0, <2>2
    <2>4. T \in SUBSET Id /\ T \subseteq Store!Reachable
      BY <1>0b, <2>0
    <2>5. AbsRoots' = AbsRoots \cup {o}
      BY <1>0, <2>1, <2>2 DEF AbsRoots, IdsOK
    <2>6. AbsObjs' = [p \in DOMAIN AbsObjs \cup {o} |-> IF p = o THEN T ELSE AbsObjs[p]]
      <3>1. DOMAIN AbsObjs' = DOMAIN AbsObjs \cup {o}
        <4>1. \A p : p \in DOMAIN AbsObjs' <=> \E j \in DOMAIN slots' : p = slots'[j].object.id
          BY <1>0a DEF AbsShape
        <4>2. \A p : p \in DOMAIN AbsObjs <=> \E j \in DOMAIN slots : p = slots[j].object.id
          BY <1>0 DEF AbsShape
        <4>3. \A p : p \in DOMAIN AbsObjs' <=> p \in DOMAIN AbsObjs \/ p = o
          BY <2>1, <4>1, <4>2
        <4> QED BY <4>3
      <3>2. AbsObjs'[o] = T
        <4>1. AbsObjs'[slots'[i].object.id] = AbsRefs(i)'
          BY <1>0a, <2>1 DEF AbsShape
        <4>2. AbsRefs(i)' = {issued'[r] : r \in S}
          BY <2>1 DEF AbsRefs
        <4>3. \A r \in S : issued'[r] = issued[r]
          BY <1>0, <2>1
        <4> QED BY <2>0, <2>1, <4>1, <4>2, <4>3
      <3>3. ASSUME NEW p \in DOMAIN AbsObjs
            PROVE  p # o /\ AbsObjs'[p] = AbsObjs[p]
        <4>1. PICK j \in DOMAIN slots : p = slots[j].object.id
          BY <1>0 DEF AbsShape
        <4>2. p # o
          BY <1>0d, <2>3, <4>1
        <4>3. AbsObjs[p] = AbsRefs(j)
          BY <1>0, <4>1 DEF AbsShape
        <4>4. AbsObjs'[p] = AbsRefs(j)'
          BY <1>0a, <2>1, <4>1 DEF AbsShape
        <4>5. AbsRefs(j)' = AbsRefs(j)
          BY <1>0, <2>1 DEF AbsRefs, IdsOK
        <4> QED BY <4>2, <4>3, <4>4, <4>5
      <3>4. AbsObjs' = [p \in DOMAIN AbsObjs' |-> AbsObjs'[p]]
        BY <1>0a DEF AbsShape
      <3> QED BY <3>1, <3>2, <3>3, <3>4
    <2>7. Store!Create(o, T)
      <3> QED BY <2>3, <2>4, <2>5, <2>6 DEF Store!Create, AbsObjs, AbsRoots
    <2> QED BY <2>3, <2>4, <2>7, <1>0e
  <1>3. ASSUME NEW r \in Reachable, NEW S \in SUBSET Reachable, NEW sz \in Sizes,
               SetObject(r, S, sz)
        PROVE  Store!Next
    <2> DEFINE i == r.index
    <2>0. PICK o, T : o = issued[r] /\ T = Ids(S)
      OBVIOUS
    <2>1. /\ Live(r) /\ i \in DOMAIN slots /\ DOMAIN slots' = DOMAIN slots
          /\ \A j \in DOMAIN slots :
                /\ slots'[j].object.id = slots[j].object.id
                /\ slots'[j].object.refs = IF j = i THEN S ELSE slots[j].object.refs
          /\ UNCHANGED <<roots, allocations, issued>>
      BY <1>0, <1>3, SetObjectEffect
    <2>2. r \in DOMAIN issued /\ o \in Id /\ o \in Store!Reachable
      BY <2>0, <1>0, <1>0b, <1>0c
    <2>3. o = slots[i].object.id
      <3>1. r = RefTo(i)
        BY <1>0, <2>1, <2>2, RefToLive DEF TypeOK
      <3> QED BY <2>0, <1>0d, <2>1, <3>1
    <2>4. o \in DOMAIN AbsObjs
      BY <1>0, <2>1, <2>3 DEF AbsShape
    <2>5. T \in SUBSET Id /\ T \subseteq Store!Reachable
      BY <1>0b, <2>0
    <2>6. AbsRoots' = AbsRoots /\ used' = used
      BY <2>1 DEF AbsRoots
    <2>7. AbsObjs' = [AbsObjs EXCEPT ![o] = T]
      <3>1. DOMAIN AbsObjs' = DOMAIN AbsObjs
        BY <1>0, <1>0a, <2>1 DEF AbsShape
      <3>2. AbsObjs'[o] = T
        <4>1. AbsObjs'[slots'[i].object.id] = AbsRefs(i)'
          BY <1>0a, <2>1 DEF AbsShape
        <4>2. AbsRefs(i)' = T
          BY <2>0, <2>1 DEF AbsRefs
        <4> QED BY <2>1, <2>3, <4>1, <4>2
      <3>3. ASSUME NEW p \in DOMAIN AbsObjs, p # o
            PROVE  AbsObjs'[p] = AbsObjs[p]
        <4>1. PICK j \in DOMAIN slots : p = slots[j].object.id
          BY <1>0 DEF AbsShape
        <4>2. j # i
          BY <2>3, <3>3, <4>1
        <4>3. AbsObjs[p] = AbsRefs(j) /\ AbsObjs'[p] = AbsRefs(j)'
          BY <1>0, <1>0a, <2>1, <4>1 DEF AbsShape
        <4>4. AbsRefs(j)' = AbsRefs(j)
          BY <2>1, <4>2 DEF AbsRefs
        <4> QED BY <4>3, <4>4
      <3>4. /\ AbsObjs' = [p \in DOMAIN AbsObjs' |-> AbsObjs'[p]]
            /\ AbsObjs = [p \in DOMAIN AbsObjs |-> AbsObjs[p]]
        BY <1>0, <1>0a DEF AbsShape
      <3> QED BY <3>1, <3>2, <3>3, <3>4
    <2>8. Store!Rewrite(o, T)
      <3> QED BY <2>2, <2>4, <2>5, <2>6, <2>7 DEF Store!Rewrite, AbsObjs, AbsRoots
    <2> QED BY <2>2, <2>5, <2>8, <1>0e
  <1>4. ASSUME NEW r \in DOMAIN issued, AddRoot(r), OnlyMarks
        PROVE  Store!Next
    <2>1. AbsObjs' = AbsObjs /\ used' = used
      BY <1>0, <1>0a, <1>4, SameObjs DEF OnlyMarks
    <2>2. AbsRoots' = AbsRoots \cup {issued[r]}
      BY <1>4 DEF AddRoot, OnlyMarks, AbsRoots
    <2>3. issued[r] \in used /\ issued[r] \in Id
      BY <1>0c
    <2>4. PICK o : o = issued[r]
      OBVIOUS
    <2>5. Store!Hold(o)
      BY <2>1, <2>2, <2>3, <2>4 DEF Store!Hold, AbsObjs, AbsRoots
    <2> QED BY <2>3, <2>4, <2>5, <1>0e
  <1>5. ASSUME NEW r \in roots, DropRoot(r), OnlyMarks
        PROVE  Store!Next
    <2>1. AbsObjs' = AbsObjs /\ used' = used
      BY <1>0, <1>0a, <1>5, SameObjs DEF OnlyMarks
    <2>2. AbsRoots' = AbsRoots \ {issued[r]}
      <3>1. r \in DOMAIN issued /\ roots \subseteq DOMAIN issued /\ roots' = roots \ {r}
            /\ issued' = issued
        BY <1>0, <1>5 DEF IdsOK, DropRoot, OnlyMarks
      <3>2. \A q \in roots : issued[q] = issued[r] => q = r
        BY <1>0, <3>1 DEF IdsOK
      <3> QED BY <3>1, <3>2 DEF AbsRoots
    <2>3. issued[r] \in Id
      BY <1>0, <1>0c DEF IdsOK
    <2>4. PICK o : o = issued[r]
      OBVIOUS
    <2>5. Store!LetGo(o)
      BY <2>1, <2>2, <2>4 DEF Store!LetGo, AbsObjs, AbsRoots
    <2> QED BY <2>3, <2>4, <2>5, <1>0e
  <1>6. CASE OnlyMarks /\ UNCHANGED roots
    <2>1. AbsObjs' = AbsObjs /\ used' = used
      BY <1>0, <1>0a, <1>6, SameObjs DEF OnlyMarks
    <2>2. AbsRoots' = AbsRoots
      BY <1>6 DEF OnlyMarks, AbsRoots
    <2> QED BY <1>1, <2>1, <2>2
  <1>7. ASSUME cursor \in DOMAIN slots, ~slots[cursor].marked, phase = "sweep",
               Free(cursor), UNCHANGED <<roots, allocations, issued>>
        PROVE  Store!Next
    <2>0. PICK o : o = slots[cursor].object.id
      OBVIOUS
    <2>1. /\ DOMAIN slots' = DOMAIN slots \ {cursor}
          /\ \A j \in DOMAIN slots' : slots'[j] = slots[j]
      BY <1>7 DEF Free
    <2>2. o \in Id /\ o \in DOMAIN AbsObjs
      BY <2>0, <1>0, <1>0d, <1>7 DEF AbsShape
    <2>3. o \notin Store!Reachable
      <3> SUFFICES ASSUME NEW r \in Reachable, o = issued[r]
                   PROVE  FALSE
        BY <1>0b
      <3>1. r = RefTo(cursor)
        BY <2>0, <1>0, <1>0d, <1>7 DEF IdsOK
      <3>2. Live(r) /\ r.index = cursor
        BY <1>0, <1>7, <3>1, RefToLive
      <3>3. Survives(r)
        BY <1>0, <1>7, <3>2, ReachableSurvives
      <3>4. cursor \in Nat
        BY <1>0 DEF TypeOK
      <3> QED BY <1>7, <3>2, <3>3, <3>4 DEF Survives
    <2>4. AbsRoots' = AbsRoots /\ used' = used
      BY <1>7 DEF AbsRoots
    <2>5. AbsObjs' = [p \in DOMAIN AbsObjs \ {o} |-> AbsObjs[p]]
      <3>1. DOMAIN AbsObjs' = DOMAIN AbsObjs \ {o}
        <4>1. \A p : p \in DOMAIN AbsObjs' <=> \E j \in DOMAIN slots' : p = slots'[j].object.id
          BY <1>0a DEF AbsShape
        <4>2. \A p : p \in DOMAIN AbsObjs <=> \E j \in DOMAIN slots : p = slots[j].object.id
          BY <1>0 DEF AbsShape
        <4>3. \A j \in DOMAIN slots : slots[j].object.id = o => j = cursor
          BY <2>0, <1>0, <1>7 DEF AbsShape
        <4>4. \A p : p \in DOMAIN AbsObjs' <=> p \in DOMAIN AbsObjs /\ p # o
          BY <2>0, <2>1, <4>1, <4>2, <4>3
        <4> QED BY <4>4
      <3>2. ASSUME NEW p \in DOMAIN AbsObjs'
            PROVE  AbsObjs'[p] = AbsObjs[p]
        <4>1. PICK j \in DOMAIN slots' : p = slots'[j].object.id
          BY <1>0a DEF AbsShape
        <4>2. j \in DOMAIN slots /\ p = slots[j].object.id
          BY <2>1, <4>1
        <4>3. AbsObjs[p] = AbsRefs(j) /\ AbsObjs'[p] = AbsRefs(j)'
          BY <1>0, <1>0a, <4>1, <4>2 DEF AbsShape
        <4>4. AbsRefs(j)' = AbsRefs(j)
          BY <1>7, <2>1, <4>1 DEF AbsRefs
        <4> QED BY <4>3, <4>4
      <3>3. AbsObjs' = [p \in DOMAIN AbsObjs' |-> AbsObjs'[p]]
        BY <1>0a DEF AbsShape
      <3> QED BY <3>1, <3>2, <3>3
    <2>6. Store!Reclaim(o)
      <3> QED BY <2>2, <2>3, <2>4, <2>5 DEF Store!Reclaim, AbsObjs, AbsRoots
    <2> QED BY <2>2, <2>6, <1>0e
  <1> QED BY <1>0, <1>2, <1>3, <1>4, <1>5, <1>6, <1>7, StepCases

\* An empty arena is an empty store.
LEMMA StoreInit == Init => Store!Init
  <1> SUFFICES ASSUME Init
               PROVE  Store!Init
    OBVIOUS
  <1>1. DOMAIN slots = {} /\ roots = {} /\ allocations = 0
    BY DEF Init
  <1>2. 1..allocations = {}
    BY <1>1
  <1> QED BY <1>1, <1>2 DEF Store!Init

\* To the program, the heap is a store of objects that never share an identity and
\* that are taken back one at a time, and only when no root leads to them: slot
\* reuse, generations, marks and the free list of gc.rs do not show.
THEOREM HeapImplementsStore == Spec => ImplementsStore
  <1>1. StoreInv /\ StoreInv' /\ [Next]_vars => [Store!Next]_(Store!vars)
    BY StoreStep
  <1> QED BY <1>1, StoreInit, StoreInvariant, PTL DEF Spec, ImplementsStore, Store!Spec
=============================================================================
