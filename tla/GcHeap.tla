------------------------------- MODULE GcHeap -------------------------------
(***************************************************************************)
(* The heap of ni_vm (src/crates/ni_vm/src/gc.rs): an arena of slots       *)
(* reached through GcRefs that carry a generation, a free list, and a      *)
(* collector that marks from the roots with a worklist and then sweeps the *)
(* slots in index order.  The collector is stepped one reference, or one   *)
(* slot, at a time; nothing else runs while it works, as in the code.      *)
(*                                                                         *)
(* The fiber stacks, frames, globals and pins that Vm::collect_garbage     *)
(* marks are one set here, roots.  References outside it (held by the      *)
(* host, in fiber.result, in finished_fibers) are any reference ever       *)
(* given out: the host may pass one back in, stale or not.                 *)
(***************************************************************************)
EXTENDS Integers, FiniteSets, Sequences

CONSTANTS MaxSlots,       \* bound: slots.len()
          MaxGeneration,  \* bound: a slot is used at most this often (u32 in the code)
          MaxObjects,     \* bound: allocations
          MaxRefs,        \* bound: references held by one object
          MaxRoots,       \* bound: references held by the program
          Sizes,          \* what size_bytes() may be
          MinThreshold,   \* 256 in the code
          Growth          \* growth_factor (2.0 in the code)

ASSUME BoundsAssumption ==
    /\ MaxSlots \in Nat /\ MaxGeneration \in Nat \ {0} /\ MaxObjects \in Nat
    /\ MaxRefs \in Nat

ASSUME SizesAssumption == Sizes \subseteq Nat /\ Sizes # {}

ASSUME ThresholdAssumption == MinThreshold \in Nat /\ Growth \in Nat

VARIABLES slots,           \* the occupied slots: [index -> slot]; None elsewhere
          pushed,          \* slots.len()
          generations,     \* last generation of every index, 0 if never pushed
          freeList,        \* free_list, popped at its end
          objectCount,     \* object_count
          bytesAllocated,  \* bytes_allocated
          threshold,       \* threshold
          roots,           \* the references collect_garbage will mark
          phase,           \* "program", "mark" or "sweep"
          rootsLeft,       \* roots mark() has not been called for yet
          worklist,        \* mark()'s worklist
          cursor,          \* sweep()'s index
          allocations,     \* ghost: calls of alloc() so far
          issued           \* ghost: [reference given out -> the alloc() that gave it first]

heapVars == <<slots, pushed, generations, freeList, objectCount, bytesAllocated>>
collectorVars == <<phase, rootsLeft, worklist, cursor, threshold>>
ghosts == <<allocations, issued>>
vars == <<heapVars, collectorVars, roots, ghosts>>

Index == 0..(MaxSlots - 1)
GcRef == [index : Index, generation : 1..MaxGeneration]

\* NiObject, as far as the heap looks at it: references() and size_bytes();
\* id is a ghost, the number of the allocation that made the object.
NiObject == [refs : SUBSET GcRef, size : Sizes, id : 1..MaxObjects]
GcSlot == [object : NiObject, generation : 1..MaxGeneration, marked : BOOLEAN]

-----------------------------------------------------------------------------
\* get and get_mut find an object: the slot is occupied by the same generation.
Live(r) == r.index \in DOMAIN slots /\ slots[r.index].generation = r.generation

Get(r) == slots[r.index].object

Children(R) == UNION {Get(r).refs : r \in {q \in R : Live(q)}}

\* Every reference the program can get hold of from its roots.
Reachable ==
    LET walk[n \in 0..MaxSlots] ==
          IF n = 0 THEN roots
          ELSE LET before == walk[n - 1] IN before \cup Children(before)
    IN GcRef \cap walk[MaxSlots]

ShouldCollect == objectCount >= threshold

Greater(a, b) == IF a >= b THEN a ELSE b

-----------------------------------------------------------------------------
Init ==
    /\ slots = [i \in {} |-> 0]
    /\ pushed = 0
    /\ generations = [i \in Index |-> 0]
    /\ freeList = <<>>
    /\ objectCount = 0
    /\ bytesAllocated = 0
    /\ threshold = MinThreshold
    /\ roots = {}
    /\ phase = "program"
    /\ rootsLeft = {}
    /\ worklist = {}
    /\ cursor = 0
    /\ allocations = 0
    /\ issued = [r \in {} |-> 0]

\* The index alloc uses: the last freed one, else a new one at the end.
AllocIndex == IF freeList # <<>> THEN freeList[Len(freeList)] ELSE pushed

\* generations[index] += 1 on reuse, 1 for a new slot.
SameGeneration(i) == Greater(generations[i], 1)             \* mutant: not advanced on reuse
NextGeneration(i) == generations[i] + 1

LastOnly == <<freeList[Len(freeList)]>>                     \* mutant: keeps what it popped
FreeListPopped == SubSeq(freeList, 1, Len(freeList) - 1)

\* The first owner of a reference keeps its number, should it be issued again.
Issue(r) == [q \in DOMAIN issued \cup {r} |->
               IF q \in DOMAIN issued THEN issued[q] ELSE allocations + 1]

\* alloc(), by an instruction or a native; the new reference goes on a stack.
Alloc(S, sz) ==
    LET i == AllocIndex
        g == NextGeneration(i)
        object == [refs |-> S, size |-> sz, id |-> allocations + 1]
    IN  /\ phase = "program"
        /\ allocations < MaxObjects
        /\ i < MaxSlots
        /\ g <= MaxGeneration
        /\ objectCount' = objectCount + 1
        /\ bytesAllocated' = bytesAllocated + sz
        /\ IF freeList # <<>>
           THEN /\ freeList' = FreeListPopped
                /\ pushed' = pushed
           ELSE /\ pushed' = pushed + 1
                /\ freeList' = freeList
        /\ generations' = [generations EXCEPT ![i] = g]
        /\ slots' = [j \in DOMAIN slots \cup {i} |->
                       IF j = i
                       THEN [object |-> object, generation |-> g, marked |-> FALSE]
                       ELSE slots[j]]
        /\ roots' = roots \cup {[index |-> i, generation |-> g]}
        /\ allocations' = allocations + 1
        /\ issued' = Issue([index |-> i, generation |-> g])
        /\ UNCHANGED collectorVars

-----------------------------------------------------------------------------
(* The program between two collections.  It works on objects through       *)
(* get_mut, and only on those it can reach.                                *)

\* An object is overwritten in place: a list grows or shrinks, a field is set,
\* an upvalue is closed.  Nothing is recorded in the heap's counters.
SetObject(r, S, sz) ==
    /\ phase = "program"
    /\ r \in Reachable /\ Live(r)
    /\ slots' = [slots EXCEPT ![r.index].object =
                   [@ EXCEPT !.refs = S, !.size = sz]]
    /\ UNCHANGED <<pushed, generations, freeList, objectCount, bytesAllocated,
                   collectorVars, roots, ghosts>>

\* A reference is pushed on a stack, stored in a global or pinned.  The host can
\* pass in any it was ever given: resume(token, v), spawn_closure(r), call(v).
AddRoot(r) ==
    /\ phase = "program"
    /\ r \in DOMAIN issued
    /\ roots' = roots \cup {r}
    /\ UNCHANGED <<heapVars, collectorVars, ghosts>>

DropRoot(r) ==
    /\ phase = "program"
    /\ roots' = roots \ {r}
    /\ UNCHANGED <<heapVars, collectorVars, ghosts>>

-----------------------------------------------------------------------------
(* collect_garbage: mark() once for every root, then sweep().              *)

RootsOfSlot0 == {r \in roots : r.index = 0}                 \* mutant: roots are missed
MarkedRoots == roots

StartCollect ==
    /\ phase = "program"
    /\ phase' = "mark"
    /\ rootsLeft' = MarkedRoots
    /\ UNCHANGED <<heapVars, worklist, cursor, threshold, roots, ghosts>>

\* heap.mark(r) for the next root.
MarkRoot(r) ==
    /\ phase = "mark" /\ worklist = {}
    /\ r \in rootsLeft
    /\ rootsLeft' = rootsLeft \ {r}
    /\ worklist' = {r}
    /\ UNCHANGED <<heapVars, phase, cursor, threshold, roots, ghosts>>

NeedsVisitAgain(r) == Live(r)                               \* mutant: ignores the mark
NeedsVisit(r) == Live(r) /\ ~slots[r.index].marked

\* mutant: an object kind falls to references()'s empty default arm
NoReferences(r) == {}
References(r) == Get(r).refs

\* The loop body of mark().  A stale reference, or an object already marked,
\* is passed over.  The order of the worklist is that of references(), which
\* follows hash maps: any.
MarkStep(r) ==
    /\ phase = "mark"
    /\ r \in worklist
    /\ IF NeedsVisit(r)
       THEN /\ slots' = [slots EXCEPT ![r.index].marked = TRUE]
            /\ worklist' = (worklist \ {r}) \cup References(r)
       ELSE /\ worklist' = worklist \ {r}
            /\ slots' = slots
    /\ UNCHANGED <<pushed, generations, freeList, objectCount, bytesAllocated,
                   phase, rootsLeft, cursor, threshold, roots, ghosts>>

StartSweep ==
    /\ phase = "mark" /\ worklist = {} /\ rootsLeft = {}
    /\ phase' = "sweep"
    /\ UNCHANGED <<heapVars, rootsLeft, worklist, cursor, threshold, roots, ghosts>>

\* mutant: the counters are wrong by one object
FreeTwice(i) ==
    /\ bytesAllocated' = bytesAllocated - 2 * slots[i].object.size
    /\ slots' = [j \in DOMAIN slots \ {i} |-> slots[j]]
    /\ freeList' = Append(freeList, i)
    /\ objectCount' = objectCount - 2

\* bytes_allocated is lowered by what the object measures now, and saturates.
Free(i) ==
    /\ bytesAllocated' = Greater(bytesAllocated - slots[i].object.size, 0)
    /\ slots' = [j \in DOMAIN slots \ {i} |-> slots[j]]
    /\ freeList' = Append(freeList, i)
    /\ objectCount' = objectCount - 1

\* mutant: the mark stays for the next collection
KeepMark(i) == UNCHANGED <<slots, freeList, objectCount, bytesAllocated>>

Unmark(i) ==
    /\ slots' = [slots EXCEPT ![i].marked = FALSE]
    /\ UNCHANGED <<freeList, objectCount, bytesAllocated>>

\* One turn of sweep()'s loop.
SweepSlot ==
    /\ phase = "sweep" /\ cursor < pushed
    /\ cursor' = cursor + 1
    /\ \/ cursor \in DOMAIN slots /\ ~slots[cursor].marked /\ Free(cursor)
       \/ cursor \in DOMAIN slots /\ slots[cursor].marked /\ Unmark(cursor)
       \/ /\ cursor \notin DOMAIN slots
          /\ UNCHANGED <<slots, freeList, objectCount, bytesAllocated>>
    /\ UNCHANGED <<pushed, generations, phase, rootsLeft, worklist, threshold, roots, ghosts>>

SameThreshold == threshold                                  \* mutant: not recomputed
NextThreshold == Greater(objectCount * Growth, MinThreshold)

EndSweep ==
    /\ phase = "sweep" /\ cursor = pushed
    /\ threshold' = NextThreshold
    /\ phase' = "program"
    /\ cursor' = 0
    /\ UNCHANGED <<heapVars, rootsLeft, worklist, roots, ghosts>>

-----------------------------------------------------------------------------
Program ==
    \/ \E S \in SUBSET Reachable, sz \in Sizes :
           Cardinality(S) <= MaxRefs /\ Cardinality(roots) < MaxRoots /\ Alloc(S, sz)
    \/ \E r \in Reachable : \E S \in SUBSET Reachable, sz \in Sizes :
           Cardinality(S) <= MaxRefs /\ SetObject(r, S, sz)
    \/ \E r \in DOMAIN issued : Cardinality(roots) < MaxRoots /\ AddRoot(r)
    \/ \E r \in roots : DropRoot(r)

Collect ==
    \/ \E r \in GcRef : MarkRoot(r) \/ MarkStep(r)
    \/ StartSweep \/ SweepSlot \/ EndSweep

Next == Program \/ StartCollect \/ Collect

\* Once collect_garbage is called it runs on: nothing else does until it returns.
Spec == Init /\ [][Next]_vars /\ WF_vars(Collect)

-----------------------------------------------------------------------------
(* Properties.                                                             *)

TypeOK ==
    /\ DOMAIN slots \subseteq Index /\ slots \in [DOMAIN slots -> GcSlot]
    /\ pushed \in 0..MaxSlots
    /\ generations \in [Index -> 0..MaxGeneration]
    /\ freeList \in Seq(Index)
    /\ objectCount \in Nat /\ bytesAllocated \in Nat /\ threshold \in Nat
    /\ roots \subseteq GcRef /\ rootsLeft \subseteq GcRef /\ worklist \subseteq GcRef
    /\ phase \in {"program", "mark", "sweep"}
    /\ cursor \in 0..MaxSlots
    /\ allocations \in 0..MaxObjects
    /\ DOMAIN issued \subseteq GcRef /\ issued \in [DOMAIN issued -> 1..MaxObjects]

\* A reference kept across collections, by a list or by the host, finds the
\* object it was given for or nothing: never a later object in the same slot
\* (get and get_mut compare generations, alloc advances them).
NoAlias == \A r \in DOMAIN issued : Live(r) => Get(r).id = issued[r]

\* The free list holds every empty slot once, so alloc never takes a slot in
\* use and no slot is forgotten; object_count is the number of objects, also
\* halfway through a sweep.
SlotsAccounted ==
    /\ \A i \in 1..Len(freeList) : freeList[i] \in (0..(pushed - 1)) \ DOMAIN slots
    /\ \A i, j \in 1..Len(freeList) : freeList[i] = freeList[j] => i = j
    /\ Len(freeList) + Cardinality(DOMAIN slots) = pushed
    /\ objectCount = Cardinality(DOMAIN slots)

\* Whatever the shape of the object graph, cycles and stale references
\* included, a collection frees exactly the objects no root leads to: when
\* the sweep stands at a slot, everything behind it and every mark ahead of it
\* is an object the program can reach, and no object it can reach is unmarked.
CollectsExactlyGarbage ==
    LET reached == {r.index : r \in {q \in Reachable : Live(q)}}
        marked == {i \in DOMAIN slots : slots[i].marked}
    IN  CASE phase = "program" -> marked = {}
          [] phase = "mark" -> marked \subseteq reached
          [] phase = "sweep" ->
               marked \cup {i \in DOMAIN slots : i < cursor} = reached

\* The reference r, held at the start of the step, still works after it.
StillFound(r) == Live(r) => Live(r)'

\* No step takes away an object from a root, or from an object that will
\* survive the collection in progress (one behind the sweep, or marked).
HeldRefsSurvive ==
    [][/\ \A r \in roots : StillFound(r)
       /\ \A i \in DOMAIN slots :
             (phase # "sweep" \/ i < cursor \/ slots[i].marked)
                => \A r \in slots[i].object.refs : StillFound(r)]_vars

\* collect_garbage returns, for every object graph: mark() visits an object
\* once, however many references lead to it and whatever cycles it is on.
CollectionEnds == (phase # "program") ~> (phase = "program")

\* The heap implements the store of never-reused objects.
Store == INSTANCE ObjectStore WITH
    objs <- [o \in {slots[i].object.id : i \in DOMAIN slots} |->
               LET i == CHOOSE j \in DOMAIN slots : slots[j].object.id = o
               IN  {issued[r] : r \in slots[i].object.refs}],
    roots <- {issued[r] : r \in roots},
    used <- 1..allocations

\* To a program, gc.rs is a store that only ever takes back what no root leads
\* to: generations and slot reuse never show.
ImplementsStore == Store!Spec
=============================================================================
