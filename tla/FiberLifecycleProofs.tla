------------------------ MODULE FiberLifecycleProofs ------------------------
(***************************************************************************)
(* FiberScheduler implements FiberLifecycle, for every number of fibers    *)
(* and tokens: the queues, the main slot, saved_main and last_pending only *)
(* ever do to a fiber what its life allows.  And what holds if the VM is   *)
(* used with care: distinct identifiers, fibers parked for their own call. *)
(***************************************************************************)
EXTENDS FiberSchedulerProofs

(* What the places of a fiber say of its life.                             *)

\* Where a live fiber is, read off the counts.
StatusIn(u) ==
    IF fate[u] # "alive" THEN fate[u]
    ELSE IF Count(suspended, u) # 0 THEN "suspended"
    ELSE IF Waits(parked, u) # 0 THEN "parked"
    ELSE IF Count(ready, u) # 0 THEN "ready"
    ELSE IF Holds(fiber, u) # 0
         THEN IF Executing THEN "running"
              ELSE IF fiber.state = "Suspended" THEN "stranded" ELSE "ready"
    ELSE "stranded"

LEMMA OnlyPlace ==
    FiberInv => \A u \in Uid :
        /\ Holds(fiber, u) + SavedHolds(saved, u) + Count(ready, u) + Count(suspended, u)
               + Waits(parked, u) = IF fate[u] = "alive" THEN 1 ELSE 0
        /\ Count(ready, u) \in Nat /\ Count(suspended, u) \in Nat /\ Waits(parked, u) \in Nat
        /\ Holds(fiber, u) \in {0, 1} /\ SavedHolds(saved, u) \in {0, 1}
<1> SUFFICES ASSUME FiberInv, NEW u \in Uid
             PROVE  /\ Holds(fiber, u) + SavedHolds(saved, u) + Count(ready, u)
                           + Count(suspended, u) + Waits(parked, u)
                           = IF fate[u] = "alive" THEN 1 ELSE 0
                    /\ Count(ready, u) \in Nat /\ Count(suspended, u) \in Nat
                    /\ Waits(parked, u) \in Nat
                    /\ Holds(fiber, u) \in {0, 1} /\ SavedHolds(saved, u) \in {0, 1}
  OBVIOUS
<1>1. TypeOK /\ OnePlace
  BY DEF FiberInv
<1>2. Places(u) = IF fate[u] = "alive" THEN 1 ELSE 0
  BY <1>1 DEF OnePlace
<1> QED
  BY <1>1, <1>2, PlacesSum, PlaceTypes

LEMMA StatusForm == FiberInv => \A u \in Uid : StatusOf(u) = StatusIn(u)
<1> SUFFICES ASSUME FiberInv, NEW u \in Uid PROVE StatusOf(u) = StatusIn(u)
  OBVIOUS
<1>1. /\ TypeOK /\ HoldersOK /\ DrainOK /\ ready \in Queue /\ suspended \in Queue
      /\ saved \in Queue /\ DOMAIN parked \subseteq Token
  BY DEF FiberInv, TypeOK, Queue
<1>2. CASE fate[u] # "alive"
  BY <1>2 DEF StatusOf, StatusIn
<1>3. CASE fate[u] = "alive"
  <2>1. /\ Holds(fiber, u) + SavedHolds(saved, u) + Count(ready, u) + Count(suspended, u)
               + Waits(parked, u) = 1
        /\ Count(ready, u) \in Nat /\ Count(suspended, u) \in Nat /\ Waits(parked, u) \in Nat
        /\ Holds(fiber, u) \in {0, 1} /\ SavedHolds(saved, u) \in {0, 1}
    BY <1>3, OnlyPlace
  <2>2. InQueue(suspended, u) # {} <=> Count(suspended, u) # 0
    BY <1>1, QueueSets DEF InQueue
  <2>3. ParkedOn(u) # {} <=> Waits(parked, u) # 0
    BY <1>1, WaitsType DEF ParkedOn
  <2>4. InMain(u) <=> Holds(fiber, u) # 0
    BY DEF InMain, Holds
  <2>5. InSaved(u) <=> SavedHolds(saved, u) # 0
    BY DEF InSaved, SavedHolds
  <2>6. Executes(u) <=> Executing /\ Holds(fiber, u) # 0
    BY <1>1 DEF Executes, Holds, HoldersOK
  <2>7. InSaved(u) => saved[1].fiber.state = "Suspended"
    <3> SUFFICES ASSUME InSaved(u) PROVE saved[1].fiber.state = "Suspended"
      OBVIOUS
    <3>1. DOMAIN saved = 1..Len(saved) /\ Len(saved) = IF control = "ready" THEN 1 ELSE 0
      BY <1>1, QueueSets DEF TypeOK
    <3>2. PICK i \in DOMAIN saved : saved[i].fiber.frames
      BY DEF InSaved
    <3>3. i = 1 /\ control = "ready"
      BY <3>1, <3>2
    <3> QED
      BY <1>1, <3>2, <3>3 DEF DrainOK
  <2>8. StatusOf(u) =
            IF Executing /\ Holds(fiber, u) # 0 THEN "running"
            ELSE IF Count(suspended, u) # 0 THEN "suspended"
            ELSE IF Waits(parked, u) # 0 THEN "parked"
            ELSE IF \/ Holds(fiber, u) # 0 /\ fiber.state = "Suspended"
                    \/ SavedHolds(saved, u) # 0
                 THEN "stranded" ELSE "ready"
    BY <1>3, <2>2, <2>3, <2>4, <2>5, <2>6, <2>7 DEF StatusOf
  <2> QED
    BY <1>3, <2>1, <2>8 DEF StatusIn
<1> QED
  BY <1>2, <1>3

\* Who is in which place has which status.
StatusTable ==
    \A u \in Uid :
        /\ fiber.frames /\ fiber.uid = u =>
               StatusOf(u) = IF Executing THEN "running"
                             ELSE IF fiber.state = "Suspended" THEN "stranded" ELSE "ready"
        /\ SavedHolds(saved, u) # 0 => StatusOf(u) = "stranded"
        /\ Count(ready, u) # 0 => StatusOf(u) = "ready"
        /\ Count(suspended, u) # 0 <=> StatusOf(u) = "suspended"
        /\ Waits(parked, u) # 0 => StatusOf(u) = "parked"
        /\ \A t \in DOMAIN parked : parked[t].fiber.uid = u => WaitsFor(u) = t
        /\ Waits(parked, u) = 0 => WaitsFor(u) = 0
        /\ fate[u] # "alive" => StatusOf(u) = fate[u]
        /\ StatusOf(u) = "running" <=> Executing /\ fiber.uid = u

LEMMA TableHolds == FiberInv => StatusTable
<1> SUFFICES ASSUME FiberInv PROVE StatusTable
  OBVIOUS
<1>1. /\ TypeOK /\ HoldersOK /\ DrainOK /\ ready \in Queue /\ suspended \in Queue
      /\ saved \in Queue /\ DOMAIN parked \subseteq Token
      /\ fate \in [Uid -> {"unborn", "alive", "finished", "cancelled", "discarded"}]
  BY DEF FiberInv, TypeOK, Queue
<1>2. \A u \in Uid : StatusOf(u) = StatusIn(u)
  BY StatusForm
<1>3. ASSUME NEW u \in Uid
      PROVE  /\ Holds(fiber, u) # 0 => StatusOf(u) = IF Executing THEN "running"
                                         ELSE IF fiber.state = "Suspended" THEN "stranded"
                                         ELSE "ready"
             /\ SavedHolds(saved, u) # 0 => StatusOf(u) = "stranded"
             /\ Count(ready, u) # 0 => StatusOf(u) = "ready"
             /\ Count(suspended, u) # 0 <=> StatusOf(u) = "suspended"
             /\ Waits(parked, u) # 0 => StatusOf(u) = "parked" /\ Waits(parked, u) = 1
             /\ fate[u] # "alive" => StatusOf(u) = fate[u]
             /\ StatusOf(u) = "running" <=> Executing /\ Holds(fiber, u) # 0
  <2>1. /\ Holds(fiber, u) + SavedHolds(saved, u) + Count(ready, u) + Count(suspended, u)
               + Waits(parked, u) = IF fate[u] = "alive" THEN 1 ELSE 0
        /\ Count(ready, u) \in Nat /\ Count(suspended, u) \in Nat /\ Waits(parked, u) \in Nat
        /\ Holds(fiber, u) \in {0, 1} /\ SavedHolds(saved, u) \in {0, 1}
    BY OnlyPlace
  <2>2. StatusOf(u) = StatusIn(u)
    BY <1>2
  <2>3. fate[u] \in {"unborn", "alive", "finished", "cancelled", "discarded"}
    BY <1>1
  <2>4. CASE fate[u] # "alive"
    <3>1. /\ Holds(fiber, u) = 0 /\ SavedHolds(saved, u) = 0 /\ Count(ready, u) = 0
          /\ Count(suspended, u) = 0 /\ Waits(parked, u) = 0
      BY <2>1, <2>4
    <3>2. StatusOf(u) = fate[u]
      BY <2>2, <2>4 DEF StatusIn
    <3>3. fate[u] # "running" /\ fate[u] # "suspended"
      BY <2>3
    <3> QED
      BY <3>1, <3>2, <3>3
  <2>5. ASSUME fate[u] = "alive", Holds(fiber, u) = 1
        PROVE  /\ SavedHolds(saved, u) = 0 /\ Count(ready, u) = 0 /\ Count(suspended, u) = 0
               /\ Waits(parked, u) = 0
               /\ StatusOf(u) = IF Executing THEN "running"
                                ELSE IF fiber.state = "Suspended" THEN "stranded" ELSE "ready"
    BY <2>1, <2>2, <2>5 DEF StatusIn
  <2>6. CASE fate[u] = "alive" /\ Holds(fiber, u) = 1
    BY <2>5, <2>6
  <2>7. ASSUME fate[u] = "alive", Holds(fiber, u) = 0
        PROVE  \/ /\ SavedHolds(saved, u) = 1 /\ Count(ready, u) = 0 /\ Count(suspended, u) = 0
                  /\ Waits(parked, u) = 0 /\ StatusOf(u) = "stranded"
               \/ /\ SavedHolds(saved, u) = 0 /\ Count(ready, u) = 1 /\ Count(suspended, u) = 0
                  /\ Waits(parked, u) = 0 /\ StatusOf(u) = "ready"
               \/ /\ SavedHolds(saved, u) = 0 /\ Count(ready, u) = 0 /\ Count(suspended, u) = 1
                  /\ Waits(parked, u) = 0 /\ StatusOf(u) = "suspended"
               \/ /\ SavedHolds(saved, u) = 0 /\ Count(ready, u) = 0 /\ Count(suspended, u) = 0
                  /\ Waits(parked, u) = 1 /\ StatusOf(u) = "parked"
    BY <2>1, <2>2, <2>7 DEF StatusIn
  <2>8. CASE fate[u] = "alive" /\ Holds(fiber, u) = 0
    BY <2>7, <2>8
  <2> QED
    BY <2>1, <2>4, <2>6, <2>8
<1>4. ASSUME NEW u \in Uid, NEW t \in DOMAIN parked, parked[t].fiber.uid = u
      PROVE  WaitsFor(u) = t
  <2>1. Waits(parked, u) = 1
    BY <1>1, <1>3, <1>4, WaitsType
  <2>2. IsFiniteSet(ParkedOn(u)) /\ Cardinality(ParkedOn(u)) = 1
    BY <1>1, <2>1, WaitsType DEF ParkedOn, Waits
  <2>3. \E s : ParkedOn(u) = {s}
    BY <2>2, FS_Singleton
  <2>4. t \in ParkedOn(u)
    BY <1>4 DEF ParkedOn
  <2>5. ParkedOn(u) = {t}
    BY <2>3, <2>4
  <2> QED
    BY <2>5 DEF WaitsFor
<1>5. ASSUME NEW u \in Uid, Waits(parked, u) = 0 PROVE WaitsFor(u) = 0
  <2>1. ParkedOn(u) = {}
    BY <1>1, <1>5, WaitsType DEF ParkedOn
  <2> QED
    BY <2>1 DEF WaitsFor
<1>6. \A u \in Uid : Holds(fiber, u) # 0 <=> fiber.frames /\ fiber.uid = u
  BY DEF Holds
<1>7. \A u \in Uid : Executing /\ Holds(fiber, u) # 0 <=> Executing /\ fiber.uid = u
  BY <1>1 DEF HoldersOK, Holds
<1> QED
  BY <1>3, <1>4, <1>5, <1>6, <1>7 DEF StatusTable

\* The same in the next state.
LEMMA NextTable == FiberInv' => StatusTable'
BY TableHolds, PTL

LEMMA NextForm == FiberInv' => \A u \in Uid : StatusOf(u)' = StatusIn(u)'
<1>1. FiberInv' => (\A u \in Uid : StatusOf(u) = StatusIn(u))'
  BY StatusForm, PTL
<1> QED
  BY <1>1

LEMMA NextPlace ==
    FiberInv' => \A u \in Uid :
        /\ Holds(fiber', u) + SavedHolds(saved', u) + Count(ready', u) + Count(suspended', u)
               + Waits(parked', u) = IF fate'[u] = "alive" THEN 1 ELSE 0
        /\ Count(ready', u) \in Nat /\ Count(suspended', u) \in Nat /\ Waits(parked', u) \in Nat
        /\ Holds(fiber', u) \in {0, 1} /\ SavedHolds(saved', u) \in {0, 1}
<1> DEFINE one == \A u \in Uid :
        /\ Holds(fiber, u) + SavedHolds(saved, u) + Count(ready, u) + Count(suspended, u)
               + Waits(parked, u) = IF fate[u] = "alive" THEN 1 ELSE 0
        /\ Count(ready, u) \in Nat /\ Count(suspended, u) \in Nat /\ Waits(parked, u) \in Nat
        /\ Holds(fiber, u) \in {0, 1} /\ SavedHolds(saved, u) \in {0, 1}
<1>1. FiberInv => one
  BY OnlyPlace
<1> HIDE DEF one
<1>2. FiberInv' => one'
  BY <1>1, PTL
<1> QED
  BY <1>2 DEF one

\* A fiber no step lays hand on keeps its status.
LEMMA Undisturbed ==
    ASSUME FiberInv, FiberInv', NEW u \in Uid, fate'[u] = fate[u],
           Count(ready', u) = Count(ready, u), Count(suspended', u) = Count(suspended, u),
           Waits(parked', u) = Waits(parked, u),
           \/ Holds(fiber, u) = 0 /\ SavedHolds(saved, u) = 0
           \/ /\ Holds(fiber', u) = Holds(fiber, u)
              /\ Holds(fiber, u) # 0 => fiber'.state = fiber.state /\ (Executing' <=> Executing)
    PROVE  StatusOf(u)' = StatusOf(u)
<1>1. /\ Holds(fiber, u) + SavedHolds(saved, u) + Count(ready, u) + Count(suspended, u)
             + Waits(parked, u) = IF fate[u] = "alive" THEN 1 ELSE 0
      /\ Count(ready, u) \in Nat /\ Count(suspended, u) \in Nat /\ Waits(parked, u) \in Nat
      /\ Holds(fiber, u) \in {0, 1} /\ SavedHolds(saved, u) \in {0, 1}
  BY OnlyPlace
<1>2. StatusOf(u) = StatusIn(u) /\ StatusOf(u)' = StatusIn(u)'
  BY StatusForm, NextForm
<1>3. StatusIn(u)' =
        IF fate[u] # "alive" THEN fate[u]
        ELSE IF Count(suspended, u) # 0 THEN "suspended"
        ELSE IF Waits(parked, u) # 0 THEN "parked"
        ELSE IF Count(ready, u) # 0 THEN "ready"
        ELSE IF Holds(fiber', u) # 0
             THEN IF Executing' THEN "running"
                  ELSE IF fiber'.state = "Suspended" THEN "stranded" ELSE "ready"
        ELSE "stranded"
  BY DEF StatusIn
<1> QED
  BY <1>1, <1>2, <1>3 DEF StatusIn

-----------------------------------------------------------------------------
(* Steps of FiberLifecycle, in terms of the scheduler's state.             *)

\* Only fiber m gets another status.
Only(m, to) == \A u \in Uid : StatusOf(u)' = IF u = m THEN to ELSE StatusOf(u)
SameWaits == (\A u \in Uid : WaitsFor(u)' = WaitsFor(u)) /\ told' = told

LEMMA ParkedSame == ASSUME parked' = parked, told' = told PROVE SameWaits
BY DEF SameWaits, WaitsFor, ParkedOn

LEMMA Stutters ==
    ASSUME \A u \in Uid : StatusOf(u)' = StatusOf(u), SameWaits
    PROVE  UNCHANGED Lifecycle!vars
BY DEF SameWaits, Lifecycle!vars

LEMMA Moves ==
    ASSUME NEW m \in Uid, NEW from, NEW to, StatusOf(m) \in from, Only(m, to), SameWaits
    PROVE  Lifecycle!Move(m, from, to)
BY DEF Only, SameWaits, Lifecycle!Move

LEMMA TakesOver ==
    ASSUME NEW old \in Uid, NEW u \in Uid, NEW to, StatusOf(old) \in {"ready", "stranded"},
           StatusOf(u) = "unborn", SameWaits,
           \A v \in Uid : StatusOf(v)' = IF v = u THEN to
                                         ELSE IF v = old THEN "discarded" ELSE StatusOf(v)
    PROVE  Lifecycle!Replace(old, u, to)
BY DEF SameWaits, Lifecycle!Replace

\* Outside the fibers' own steps nobody runs.
LEMMA NobodyRuns == FiberInv /\ ~Executing => Lifecycle!NobodyRuns
BY TableHolds DEF StatusTable, Lifecycle!NobodyRuns, Lifecycle!Fiber, Uid

LEMMA SomebodyRuns ==
    FiberInv /\ Executing =>
        /\ fiber.uid \in Uid /\ fiber.frames /\ StatusOf(fiber.uid) = "running"
        /\ ~Lifecycle!NobodyRuns
BY TableHolds DEF FiberInv, HoldersOK, StatusTable, Lifecycle!NobodyRuns, Lifecycle!Fiber, Uid

LEMMA AloneStep == ASSUME FiberInv, ~Executing, Lifecycle!Alone PROVE Lifecycle!Next
BY NobodyRuns DEF Lifecycle!Next

LEMMA RunningStep == ASSUME FiberInv, Executing, Lifecycle!Running PROVE Lifecycle!Next
BY SomebodyRuns DEF Lifecycle!Next

-----------------------------------------------------------------------------
(* The calls of the host.                                                  *)

\* A program is loaded, or interpreted at once, over whatever is in the main slot.
LEMMA ReplaceMaps ==
    ASSUME FiberInv, FiberInv', NEW n \in Uid, NEW to, n = NewUid, Unborn # {},
           ~Executing, fiber'.frames, fiber'.uid = n, fate' = BornOver(n),
           UNCHANGED <<saved, ready, suspended, parked, told>>,
           to = (IF Executing' THEN "running"
                 ELSE IF fiber'.state = "Suspended" THEN "stranded" ELSE "ready")
    PROVE  IF fiber.frames THEN \E old \in Uid : Lifecycle!Replace(old, n, to)
                           ELSE Lifecycle!Move(n, {"unborn"}, to)
<1>1. TypeOK /\ HoldersOK /\ OnePlace /\ fate[n] = "unborn"
  BY NewUidFresh DEF FiberInv
<1>2. fiber.frames => fiber.uid \in Uid /\ fate[fiber.uid] = "alive" /\ fiber.uid # n
  BY <1>1, HoldersAlive DEF HoldersOK
<1>3. \A u \in Uid : fate'[u] = IF u = n THEN "alive"
                                ELSE IF fiber.frames /\ fiber.uid = u THEN "discarded" ELSE fate[u]
  BY <1>1, <1>2 DEF TypeOK, BornOver, Born, MainHeld
<1>4. SameWaits
  BY ParkedSame
<1>5. StatusOf(n) = "unborn"
  BY <1>1, TableHolds DEF StatusTable
<1>6. StatusOf(n)' = to
  BY NextTable DEF StatusTable
<1>7. ASSUME NEW u \in Uid, u # n, ~(fiber.frames /\ fiber.uid = u)
      PROVE  StatusOf(u)' = StatusOf(u)
  <2>1. Holds(fiber, u) = 0 /\ Holds(fiber', u) = 0
    BY <1>7 DEF Holds
  <2>2. fate'[u] = fate[u]
    BY <1>3, <1>7
  <2> QED
    BY <2>1, <2>2, Undisturbed
<1>8. CASE fiber.frames
  <2>1. PICK old \in Uid : old = fiber.uid /\ fate[old] = "alive" /\ old # n
    BY <1>2, <1>8
  <2>2. StatusOf(old) \in {"ready", "stranded"}
    BY <1>8, <2>1, TableHolds DEF StatusTable
  <2>3. StatusOf(old)' = "discarded"
    BY <1>3, <1>8, <2>1, NextTable DEF StatusTable
  <2>4. ASSUME NEW v \in Uid
        PROVE  StatusOf(v)' = IF v = n THEN to ELSE IF v = old THEN "discarded" ELSE StatusOf(v)
    BY <1>6, <1>7, <2>1, <2>3
  <2>5. Lifecycle!Replace(old, n, to)
    BY <1>4, <1>5, <2>2, <2>4, TakesOver
  <2> QED
    BY <1>8, <2>5
<1>9. CASE ~fiber.frames
  <2>1. Only(n, to)
    BY <1>6, <1>7, <1>9 DEF Only
  <2> QED
    BY <1>4, <1>5, <1>9, <2>1, Moves
<1> QED
  BY <1>8, <1>9

LEMMA LoadMaps == ASSUME FiberInv, FiberInv', Load PROVE Lifecycle!Next
<1>1. /\ control = "host" /\ Unborn # {}
      /\ fiber' = NewFiber(NewUid) /\ fate' = BornOver(NewUid)
      /\ UNCHANGED <<saved, ready, suspended, parked, control, told>>
  BY DEF Load, queues, io
<1>2. PICK n \in Uid : n = NewUid
  BY <1>1, NewUidFresh
<1>3. fiber'.frames /\ fiber'.uid = n /\ fiber'.state = "Created"
  BY <1>1, <1>2, FiberTypes DEF Live
<1>4. ~Executing /\ ~Executing'
  BY <1>1 DEF Executing
<1>5. IF fiber.frames THEN \E old \in Uid : Lifecycle!Replace(old, n, "ready")
                      ELSE Lifecycle!Move(n, {"unborn"}, "ready")
  BY <1>1, <1>2, <1>3, <1>4, ReplaceMaps
<1>6. CASE fiber.frames
  BY <1>4, <1>5, <1>6, AloneStep DEF Lifecycle!Alone, Lifecycle!Fiber, Uid
<1>7. CASE ~fiber.frames
  BY <1>5, <1>7 DEF Lifecycle!Next, Lifecycle!Create, Lifecycle!Fiber, Uid
<1> QED
  BY <1>6, <1>7

LEMMA InterpretMaps == ASSUME FiberInv, FiberInv', Interpret PROVE Lifecycle!Next
<1>1. /\ control = "host" /\ control' = "sync" /\ Unborn # {}
      /\ fiber' = [NewFiber(NewUid) EXCEPT !.state = "Running"] /\ fate' = BornOver(NewUid)
      /\ UNCHANGED <<saved, ready, suspended, parked, told>>
  BY DEF Interpret, queues, io
<1>2. PICK n \in Uid : n = NewUid
  BY <1>1, NewUidFresh
<1>3. fiber'.frames /\ fiber'.uid = n
  BY <1>1, <1>2 DEF NewFiber, Empty
<1>4. ~Executing /\ Executing'
  BY <1>1 DEF Executing
<1>5. IF fiber.frames THEN \E old \in Uid : Lifecycle!Replace(old, n, "running")
                      ELSE Lifecycle!Move(n, {"unborn"}, "running")
  BY <1>1, <1>2, <1>3, <1>4, ReplaceMaps
<1>6. CASE fiber.frames
  BY <1>4, <1>5, <1>6, AloneStep DEF Lifecycle!Alone, Lifecycle!Fiber, Uid
<1>7. CASE ~fiber.frames
  <2>1. Lifecycle!Start(n)
    BY <1>5, <1>7 DEF Lifecycle!Start, Lifecycle!Move
  <2> QED
    BY <1>4, <2>1, AloneStep DEF Lifecycle!Alone, Lifecycle!Fiber, Uid
<1> QED
  BY <1>6, <1>7

\* spawn_closure, spawn_call and the spawn instruction.
LEMMA SpawnMaps == ASSUME FiberInv, FiberInv', SpawnClosure \/ Spawn PROVE Lifecycle!Next
<1>1. /\ Unborn # {} /\ ready' = Append(ready, Entry(nextId, NewFiber(NewUid)))
      /\ fate' = Born(NewUid)
      /\ UNCHANGED <<fiber, saved, suspended, parked, control, told>>
  BY DEF SpawnClosure, Spawn, io
<1>2. PICK n \in Uid : n = NewUid /\ fate[n] = "unborn"
  BY <1>1, NewUidFresh
<1>3. /\ ready \in Queue /\ Entry(nextId, NewFiber(n)) \in QueueEntry
      /\ Entry(nextId, NewFiber(n)).fiber.uid = n
  <2>1. TypeOK /\ RoomOK
    BY DEF FiberInv
  <2>2. NewFiber(n) \in Fiber /\ NewFiber(n).uid = n
    BY FiberTypes
  <2>3. nextId \in FiberId
    BY <1>1, <2>1, RoomForOne
  <2> QED
    BY <2>1, <2>2, <2>3 DEF TypeOK, Queue, Entry, QueueEntry
<1>4. \A u : Count(ready', u) = Count(ready, u) + (IF u = n THEN 1 ELSE 0)
  BY <1>1, <1>2, <1>3, CountOfAppend
<1>5. \A u \in Uid : fate'[u] = IF u = n THEN "alive" ELSE fate[u]
  BY <1>1, <1>2 DEF Born, FiberInv, TypeOK
<1>6. StatusOf(n) = "unborn" /\ StatusOf(n)' = "ready"
  <2>1. StatusOf(n) = "unborn"
    BY <1>2, TableHolds DEF StatusTable
  <2>2. Count(ready', n) # 0
    BY <1>4, OnlyPlace
  <2> QED
    BY <2>1, <2>2, NextTable DEF StatusTable
<1>7. ASSUME NEW u \in Uid, u # n PROVE StatusOf(u)' = StatusOf(u)
  <2>1. Count(ready', u) = Count(ready, u)
    BY <1>4, <1>7, OnlyPlace
  <2>2. fate'[u] = fate[u]
    BY <1>5, <1>7
  <2>3. Executing' <=> Executing
    BY <1>1 DEF Executing
  <2> QED
    BY <1>1, <2>1, <2>2, <2>3, Undisturbed
<1>8. Lifecycle!Create(n)
  <2>1. SameWaits /\ Only(n, "ready")
    BY <1>1, <1>6, <1>7, ParkedSame DEF Only
  <2> QED
    BY <1>6, <2>1, Moves DEF Lifecycle!Create
<1> QED
  BY <1>8 DEF Lifecycle!Next, Lifecycle!Fiber, Uid

\* resume answers the operation the fiber is parked on.
LEMMA ResumeMaps ==
    ASSUME FiberInv, FiberInv', NEW t \in Token, Resume(t)
    PROVE  Lifecycle!Next
<1> DEFINE e == [parked[t] EXCEPT !.fiber.top = None, !.fiber.state = "Created"]
<1>1. /\ TypeOK /\ HoldersOK /\ control = "host" /\ t \in DOMAIN parked /\ parked' = Without(t)
      /\ ready' = Append(ready, e) /\ parked[t] \in QueueEntry
      /\ UNCHANGED <<fiber, saved, suspended, control, fate, told>>
      /\ ready \in Queue /\ DOMAIN parked \subseteq Token
  BY DEF FiberInv, Resume, TypeOK, Queue
<1>2. PICK m \in Uid : m = parked[t].fiber.uid
  BY <1>1 DEF HoldersOK, Live
<1>3. e \in QueueEntry /\ e.fiber.uid = m
  <2>1. 0 \in 0..MaxTokens
    BY BoundsAssumption
  <2>2. /\ parked[t].fiber \in Fiber
        /\ e = [parked[t] EXCEPT !.fiber = [parked[t].fiber EXCEPT !.top = 0, !.state = "Created"]]
    BY <1>1 DEF QueueEntry, Fiber, None
  <2>3. /\ [parked[t].fiber EXCEPT !.top = 0, !.state = "Created"] \in Fiber
        /\ [parked[t].fiber EXCEPT !.top = 0, !.state = "Created"].uid = m
    BY <1>2, <2>1, <2>2 DEF Fiber
  <2> QED
    BY <1>1, <2>2, <2>3 DEF QueueEntry
<1> HIDE DEF e
<1>4. \A u : Count(ready', u) = Count(ready, u) + (IF m = u THEN 1 ELSE 0)
  BY <1>1, <1>3, CountOfAppend
<1>5. \A u : Waits(parked', u) = Waits(parked, u) - (IF m = u THEN 1 ELSE 0)
  BY <1>1, <1>2, WaitsWithout DEF Without
<1>6. ~Executing /\ ~Executing'
  BY <1>1 DEF Executing
<1>7. StatusOf(m) = "parked" /\ WaitsFor(m) = t
  <2>1. Waits(parked, m) # 0
    BY <1>1, <1>2, WaitsType
  <2> QED
    BY <1>1, <1>2, <2>1, TableHolds DEF StatusTable
<1>8. StatusOf(m)' = "ready" /\ WaitsFor(m)' = 0
  <2>1. Count(ready', m) # 0
    BY <1>4, OnlyPlace
  <2>2. Waits(parked', m) = 0
    <3>1. /\ Holds(fiber', m) + SavedHolds(saved', m) + Count(ready', m) + Count(suspended', m)
                 + Waits(parked', m) \in {0, 1}
          /\ Count(ready', m) \in Nat /\ Count(suspended', m) \in Nat
          /\ Waits(parked', m) \in Nat
          /\ Holds(fiber', m) \in {0, 1} /\ SavedHolds(saved', m) \in {0, 1}
      BY NextPlace
    <3>2. Holds(fiber', m) \in Nat /\ SavedHolds(saved', m) \in Nat
      BY <3>1
    <3> QED
      BY <2>1, <3>1, <3>2
  <2> QED
    BY <2>1, <2>2, NextTable DEF StatusTable
<1>9. ASSUME NEW u \in Uid, u # m
      PROVE  StatusOf(u)' = StatusOf(u) /\ WaitsFor(u)' = WaitsFor(u)
  <2>1. Count(ready', u) = Count(ready, u) /\ Waits(parked', u) = Waits(parked, u)
    BY <1>4, <1>5, <1>9, OnlyPlace
  <2>2. StatusOf(u)' = StatusOf(u)
    BY <1>1, <1>6, <2>1, Undisturbed
  <2>3. ParkedOn(u)' = ParkedOn(u)
    BY <1>1, <1>2, <1>9 DEF ParkedOn, Without
  <2>4. WaitsFor(u)' = WaitsFor(u)
    BY <2>3 DEF WaitsFor
  <2> QED
    BY <2>2, <2>4
<1>10. Lifecycle!Answer(m, t)
  BY <1>1, <1>7, <1>8, <1>9 DEF Lifecycle!Answer
<1> QED
  BY <1>6, <1>10, AloneStep DEF Lifecycle!Alone, Lifecycle!Fiber, Uid, Lifecycle!Token, Token

\* cancel_fiber ends the one fiber it found.
LEMMA CancelOne ==
    ASSUME FiberInv, FiberInv', NEW m \in Uid, control = "host",
           fate' = [fate EXCEPT ![m] = "cancelled"],
           StatusOf(m) \in {"ready", "suspended", "parked"},
           \A u \in Uid : u # m =>
               /\ Count(ready', u) = Count(ready, u) /\ Count(suspended', u) = Count(suspended, u)
               /\ Waits(parked', u) = Waits(parked, u) /\ ParkedOn(u)' = ParkedOn(u),
           UNCHANGED <<fiber, saved, control, told>>
    PROVE  Lifecycle!Next
<1>1. \A u \in Uid : fate'[u] = IF u = m THEN "cancelled" ELSE fate[u]
  BY DEF FiberInv, TypeOK
<1>2. ~Executing /\ ~Executing'
  BY DEF Executing
<1>3. StatusOf(m)' = "cancelled" /\ WaitsFor(m)' = 0
  <2>1. fate'[m] # "alive" /\ fate'[m] = "cancelled"
    BY <1>1
  <2>2. Waits(parked', m) = 0
    <3>1. /\ Holds(fiber', m) + SavedHolds(saved', m) + Count(ready', m) + Count(suspended', m)
                 + Waits(parked', m) = 0
          /\ Count(ready', m) \in Nat /\ Count(suspended', m) \in Nat
          /\ Waits(parked', m) \in Nat
          /\ Holds(fiber', m) \in {0, 1} /\ SavedHolds(saved', m) \in {0, 1}
      BY <2>1, NextPlace
    <3>2. Holds(fiber', m) \in Nat /\ SavedHolds(saved', m) \in Nat
      BY <3>1
    <3> QED
      BY <3>1, <3>2
  <2> QED
    BY <2>1, <2>2, NextTable DEF StatusTable
<1>4. ASSUME NEW u \in Uid, u # m
      PROVE  StatusOf(u)' = StatusOf(u) /\ WaitsFor(u)' = WaitsFor(u)
  <2>1. fate'[u] = fate[u]
    BY <1>1, <1>4
  <2>2. /\ Count(ready', u) = Count(ready, u) /\ Count(suspended', u) = Count(suspended, u)
        /\ Waits(parked', u) = Waits(parked, u) /\ ParkedOn(u)' = ParkedOn(u)
    BY <1>4
  <2>3. StatusOf(u)' = StatusOf(u)
    BY <1>2, <2>1, <2>2, Undisturbed
  <2>4. WaitsFor(u)' = WaitsFor(u)
    BY <2>2 DEF WaitsFor
  <2> QED
    BY <2>3, <2>4
<1>5. Lifecycle!Cancel(m)
  BY <1>3, <1>4 DEF Lifecycle!Cancel
<1> QED
  BY <1>2, <1>5, AloneStep DEF Lifecycle!Alone, Lifecycle!Fiber, Uid

LEMMA CancelMaps ==
    ASSUME FiberInv, FiberInv', NEW id \in FiberId, CancelFiber(id)
    PROVE  Lifecycle!Next
<1>1. /\ TypeOK /\ HoldersOK /\ control = "host" /\ ready \in Queue /\ suspended \in Queue
      /\ DOMAIN parked \subseteq Token
      /\ UNCHANGED <<fiber, saved, control, told>>
  BY DEF FiberInv, CancelFiber, TypeOK, Queue
<1>2. ASSUME PositionsOf(ready, id) # {}, ready' = RemoveAt(ready, FirstOf(ready, id)),
             fate' = CancelledAt(ready[FirstOf(ready, id)]), UNCHANGED <<suspended, parked>>
      PROVE  Lifecycle!Next
  <2>1. PICK i \in 1..Len(ready) : i = FirstOf(ready, id)
    BY <1>1, <1>2, FirstIsThere
  <2>2. PICK m \in Uid : m = ready[i].fiber.uid
    BY <1>1, QueueSets DEF HoldersOK, Live
  <2>3. \A u : Count(ready', u) = Count(ready, u) - (IF m = u THEN 1 ELSE 0)
    BY <1>1, <1>2, <2>1, <2>2, CountOfRemoveAt
  <2>4. StatusOf(m) = "ready"
    <3>1. Count(ready, m) # 0
      BY <1>1, <2>2, QueueSets
    <3> QED
      BY <3>1, TableHolds DEF StatusTable
  <2>5. fate' = [fate EXCEPT ![m] = "cancelled"]
    BY <1>2, <2>1, <2>2 DEF CancelledAt
  <2>6. ASSUME NEW u \in Uid, u # m
        PROVE  /\ Count(ready', u) = Count(ready, u)
               /\ Count(suspended', u) = Count(suspended, u)
               /\ Waits(parked', u) = Waits(parked, u) /\ ParkedOn(u)' = ParkedOn(u)
    BY <1>2, <2>3, <2>6, OnlyPlace DEF ParkedOn
  <2> QED
    BY <1>1, <2>4, <2>5, <2>6, CancelOne
<1>3. ASSUME PositionsOf(suspended, id) # {},
             suspended' = RemoveAt(suspended, FirstOf(suspended, id)),
             fate' = CancelledAt(suspended[FirstOf(suspended, id)]), UNCHANGED <<ready, parked>>
      PROVE  Lifecycle!Next
  <2>1. PICK i \in 1..Len(suspended) : i = FirstOf(suspended, id)
    BY <1>1, <1>3, FirstIsThere
  <2>2. PICK m \in Uid : m = suspended[i].fiber.uid
    BY <1>1, QueueSets DEF HoldersOK, Live
  <2>3. \A u : Count(suspended', u) = Count(suspended, u) - (IF m = u THEN 1 ELSE 0)
    BY <1>1, <1>3, <2>1, <2>2, CountOfRemoveAt
  <2>4. StatusOf(m) = "suspended"
    <3>1. Count(suspended, m) # 0
      BY <1>1, <2>2, QueueSets
    <3> QED
      BY <3>1, TableHolds DEF StatusTable
  <2>5. fate' = [fate EXCEPT ![m] = "cancelled"]
    BY <1>3, <2>1, <2>2 DEF CancelledAt
  <2>6. ASSUME NEW u \in Uid, u # m
        PROVE  /\ Count(ready', u) = Count(ready, u)
               /\ Count(suspended', u) = Count(suspended, u)
               /\ Waits(parked', u) = Waits(parked, u) /\ ParkedOn(u)' = ParkedOn(u)
    BY <1>3, <2>3, <2>6, OnlyPlace DEF ParkedOn
  <2> QED
    BY <1>1, <2>4, <2>5, <2>6, CancelOne
<1>4. ASSUME NEW t \in DOMAIN parked, parked' = AfterCancel(t), fate' = CancelledAt(parked[t]),
             UNCHANGED <<ready, suspended>>
      PROVE  Lifecycle!Next
  <2>1. PICK m \in Uid : m = parked[t].fiber.uid
    BY <1>1 DEF HoldersOK, Live
  <2>2. parked' = [s \in DOMAIN parked \ {t} |-> parked[s]]
    BY <1>4 DEF AfterCancel, Without
  <2>3. \A u : Waits(parked', u) = Waits(parked, u) - (IF m = u THEN 1 ELSE 0)
    BY <1>1, <2>1, <2>2, WaitsWithout
  <2>4. StatusOf(m) = "parked"
    <3>1. Waits(parked, m) # 0
      BY <1>1, <2>1, WaitsType
    <3> QED
      BY <3>1, TableHolds DEF StatusTable
  <2>5. fate' = [fate EXCEPT ![m] = "cancelled"]
    BY <1>4, <2>1 DEF CancelledAt
  <2>6. ASSUME NEW u \in Uid, u # m
        PROVE  /\ Count(ready', u) = Count(ready, u)
               /\ Count(suspended', u) = Count(suspended, u)
               /\ Waits(parked', u) = Waits(parked, u) /\ ParkedOn(u)' = ParkedOn(u)
    <3>1. Waits(parked', u) = Waits(parked, u)
      BY <2>3, <2>6, OnlyPlace
    <3>2. ParkedOn(u)' = ParkedOn(u)
      BY <2>1, <2>2, <2>6 DEF ParkedOn
    <3> QED
      BY <1>4, <3>1, <3>2
  <2> QED
    BY <1>1, <2>4, <2>5, <2>6, CancelOne
<1> QED
  BY <1>2, <1>3, <1>4 DEF CancelFiber

\* call runs what is in the main slot, or a fiber of its own.
LEMMA CallInMaps == ASSUME FiberInv, FiberInv', CallIn PROVE Lifecycle!Next
<1>1. /\ TypeOK /\ HoldersOK /\ fiber \in Fiber /\ control = "host" /\ control' = "sync"
      /\ UNCHANGED <<saved, ready, suspended, parked, told>>
  BY DEF CallIn, queues, io, FiberInv, TypeOK
<1>2. ~Executing /\ Executing' /\ SameWaits
  BY <1>1, ParkedSame DEF Executing
<1>3. CASE fiber.frames
  <2>1. /\ fate' = fate /\ fiber'.frames /\ fiber'.uid = fiber.uid
    <3>1. fiber' = [fiber EXCEPT !.top = None, !.asked = 0, !.slept = 0] /\ fate' = fate
      BY <1>3 DEF CallIn, MainHeld
    <3> QED
      BY <1>1, <1>3, <3>1 DEF Fiber
  <2>2. PICK m \in Uid : m = fiber.uid
    BY <1>1, <1>3 DEF HoldersOK
  <2>3. StatusOf(m) \in {"ready", "stranded"}
    BY <1>2, <1>3, <2>2, TableHolds DEF StatusTable
  <2>4. StatusOf(m)' = "running"
    BY <1>2, <2>1, <2>2, NextTable DEF StatusTable
  <2>5. ASSUME NEW u \in Uid, u # m PROVE StatusOf(u)' = StatusOf(u)
    <3>1. Holds(fiber, u) = 0 /\ Holds(fiber', u) = 0
      BY <2>1, <2>2, <2>5 DEF Holds
    <3> QED
      BY <1>1, <2>1, <3>1, Undisturbed
  <2>6. Lifecycle!Start(m)
    <3>1. Only(m, "running")
      BY <2>4, <2>5 DEF Only
    <3>2. StatusOf(m) \in {"ready", "stranded", "unborn"}
      BY <2>3
    <3> QED
      BY <1>2, <3>1, <3>2, Moves DEF Lifecycle!Start
  <2> QED
    BY <1>2, <2>6, AloneStep DEF Lifecycle!Alone, Lifecycle!Fiber, Uid
<1>4. CASE ~fiber.frames
  <2>1. /\ Unborn # {} /\ fate' = Born(NewUid)
        /\ fiber' = [fiber EXCEPT !.uid = NewUid, !.frames = TRUE, !.top = None]
    BY <1>4 DEF CallIn, MainHeld
  <2>2. PICK n \in Uid : n = NewUid /\ fate[n] = "unborn"
    BY <2>1, NewUidFresh
  <2>3. fiber'.frames /\ fiber'.uid = n
    BY <1>1, <2>1, <2>2 DEF Fiber
  <2>4. \A u \in Uid : fate'[u] = IF u = n THEN "alive" ELSE fate[u]
    BY <1>1, <2>1, <2>2 DEF Born, TypeOK
  <2>5. StatusOf(n) = "unborn"
    BY <2>2, TableHolds DEF StatusTable
  <2>6. StatusOf(n)' = "running"
    BY <1>2, <2>3, NextTable DEF StatusTable
  <2>7. ASSUME NEW u \in Uid, u # n PROVE StatusOf(u)' = StatusOf(u)
    <3>1. Holds(fiber, u) = 0 /\ Holds(fiber', u) = 0
      BY <1>4, <2>3, <2>7 DEF Holds
    <3>2. fate'[u] = fate[u]
      BY <2>4, <2>7
    <3> QED
      BY <1>1, <3>1, <3>2, Undisturbed
  <2>8. Lifecycle!Start(n)
    <3>1. Only(n, "running")
      BY <2>6, <2>7 DEF Only
    <3>2. StatusOf(n) \in {"ready", "stranded", "unborn"}
      BY <2>5
    <3> QED
      BY <1>2, <3>1, <3>2, Moves DEF Lifecycle!Start
  <2> QED
    BY <1>2, <2>8, AloneStep DEF Lifecycle!Alone, Lifecycle!Fiber, Uid
<1> QED
  BY <1>3, <1>4

-----------------------------------------------------------------------------
(* run_ready.                                                              *)

\* The loop over the suspended ones wakes those whose time has come.
LEMMA PromoteMaps ==
    ASSUME FiberInv, FiberInv', NEW dt \in Deltas, Promote(dt)
    PROVE  Lifecycle!Next
<1> DEFINE woken == {u \in Uid : StatusOf(u) = "suspended" /\ Count(ready', u) # 0}
<1>1. /\ TypeOK /\ control = "host" /\ control' = "begin"
      /\ UNCHANGED <<fiber, saved, parked, fate, told>>
      /\ suspended \in Queue
  BY DEF FiberInv, Promote, io, TypeOK, Queue
<1>2. /\ ready' \in Queue /\ suspended' \in Queue
      /\ \A i \in DOMAIN suspended' :
            \E j \in DOMAIN suspended : suspended'[i] = Ticked(suspended[j], dt)
      /\ \A u : Count(ready', u) + Count(suspended', u) = Count(ready, u) + Count(suspended, u)
  BY <1>1, PromoteQueues
<1>3. ~Executing /\ ~Executing' /\ SameWaits
  BY <1>1, ParkedSame DEF Executing
<1>4. ASSUME NEW u \in Uid, Count(suspended, u) = 0 PROVE Count(suspended', u) = 0
  <2>1. \A j \in DOMAIN suspended : suspended[j].fiber.uid # u
    BY <1>1, <1>4, QueueSets
  <2>2. ASSUME NEW j \in DOMAIN suspended
        PROVE  Ticked(suspended[j], dt).fiber.uid = suspended[j].fiber.uid
    <3>1. suspended[j] \in QueueEntry
      BY <1>1, QueueSets, ElementOfSeq DEF Queue
    <3> QED
      BY <3>1 DEF Ticked, SleptOn, QueueEntry, Fiber
  <2>3. \A i \in DOMAIN suspended' : suspended'[i].fiber.uid # u
    BY <1>2, <2>1, <2>2
  <2> QED
    BY <1>2, <2>3, QueueSets
<1>5. ASSUME NEW u \in Uid
      PROVE  StatusOf(u)' = IF u \in woken THEN "ready" ELSE StatusOf(u)
  <2>1. Count(suspended, u) # 0 <=> StatusOf(u) = "suspended"
    BY TableHolds DEF StatusTable
  <2>2. /\ Count(ready, u) \in Nat /\ Count(suspended, u) \in Nat
        /\ Count(ready', u) \in Nat /\ Count(suspended', u) \in Nat
        /\ Count(ready', u) + Count(suspended', u) = Count(ready, u) + Count(suspended, u)
    BY <1>2, OnlyPlace, NextPlace
  <2>3. CASE Count(suspended, u) = 0
    <3>1. Count(suspended', u) = 0
      BY <1>4, <2>3
    <3>2. Count(ready', u) = Count(ready, u)
      BY <2>2, <2>3, <3>1
    <3>3. StatusOf(u)' = StatusOf(u)
      BY <1>1, <1>3, <2>3, <3>1, <3>2, Undisturbed
    <3> QED
      BY <2>1, <2>3, <3>3
  <2>4. CASE Count(suspended, u) # 0
    <3>1. StatusOf(u) = "suspended"
      BY <2>1, <2>4
    <3>2. Count(ready', u) # 0 => StatusOf(u)' = "ready"
      BY NextTable DEF StatusTable
    <3>3. Count(ready', u) = 0 => Count(suspended', u) # 0
      BY <2>2, <2>4
    <3>4. Count(suspended', u) # 0 => StatusOf(u)' = "suspended"
      BY NextTable DEF StatusTable
    <3> QED
      BY <3>1, <3>2, <3>3, <3>4
  <2> QED
    BY <2>3, <2>4
<1>6. \E S \in SUBSET {u \in Uid : StatusOf(u) = "suspended"} :
          \A u \in Uid : StatusOf(u)' = IF u \in S THEN "ready" ELSE StatusOf(u)
  <2>1. woken \in SUBSET {u \in Uid : StatusOf(u) = "suspended"}
    OBVIOUS
  <2> HIDE DEF woken
  <2> QED
    BY <1>5, <2>1
<1>7. PICK S \in SUBSET {u \in Uid : StatusOf(u) = "suspended"} :
          \A u \in Uid : StatusOf(u)' = IF u \in S THEN "ready" ELSE StatusOf(u)
  BY <1>6
<1>8. Lifecycle!Wake(S) /\ S \in SUBSET {u \in Uid : [v \in Uid |-> StatusOf(v)][u] = "suspended"}
  BY <1>3, <1>7 DEF Lifecycle!Wake, SameWaits, Lifecycle!Fiber, Uid
<1>9. Lifecycle!Alone
  BY <1>8 DEF Lifecycle!Alone, Lifecycle!Fiber, Uid
<1> QED
  BY <1>3, <1>9, AloneStep

\* run_ready turns to the main fiber, past it, or is done.
LEMMA MainMaps ==
    ASSUME FiberInv, FiberInv', StartMain \/ SkipMain \/ EndRun
    PROVE  Lifecycle!Next \/ UNCHANGED Lifecycle!vars
<1>1. /\ HoldersOK /\ control \in {"begin", "drain"}
      /\ UNCHANGED <<saved, ready, suspended, parked, fate, told>>
  BY DEF FiberInv, StartMain, SkipMain, EndRun, queues, io
<1>2. ~Executing /\ SameWaits
  BY <1>1, ParkedSame DEF Executing
<1>3. CASE StartMain
  <2>1. /\ fiber.frames /\ fiber.state \notin {"Parked", "Suspended"} /\ Executing'
        /\ fiber'.frames /\ fiber'.uid = fiber.uid
    <3>1. /\ fiber.frames /\ fiber.state \notin {"Parked", "Suspended"} /\ control' = "main"
          /\ fiber' = Running(fiber) /\ fiber \in Fiber
      BY <1>3 DEF StartMain, MainIsReady, FiberInv, TypeOK
    <3> QED
      BY <3>1, FiberTypes DEF Executing
  <2>2. PICK m \in Uid : m = fiber.uid
    BY <1>1, <2>1 DEF HoldersOK
  <2>3. StatusOf(m) = "ready"
    BY <1>2, <2>1, <2>2, TableHolds DEF StatusTable
  <2>4. StatusOf(m)' = "running"
    BY <2>1, <2>2, NextTable DEF StatusTable
  <2>5. ASSUME NEW u \in Uid, u # m PROVE StatusOf(u)' = StatusOf(u)
    <3>1. Holds(fiber, u) = 0 /\ Holds(fiber', u) = 0
      BY <2>1, <2>2, <2>5 DEF Holds
    <3> QED
      BY <1>1, <3>1, Undisturbed
  <2>6. Lifecycle!Start(m)
    <3>1. Only(m, "running")
      BY <2>4, <2>5 DEF Only
    <3>2. StatusOf(m) \in {"ready", "stranded", "unborn"}
      BY <2>3
    <3> QED
      BY <1>2, <3>1, <3>2, Moves DEF Lifecycle!Start
  <2> QED
    BY <1>2, <2>6, AloneStep DEF Lifecycle!Alone, Lifecycle!Fiber, Uid
<1>4. CASE SkipMain \/ EndRun
  <2>1. fiber' = fiber /\ ~Executing'
    BY <1>4 DEF SkipMain, EndRun, Executing
  <2>2. ASSUME NEW u \in Uid PROVE StatusOf(u)' = StatusOf(u)
    BY <1>1, <1>2, <2>1, Undisturbed
  <2> QED
    BY <1>2, <2>2, Stutters
<1> QED
  BY <1>3, <1>4

\* The first of the ready queue runs; a stranded main fiber is set aside.
LEMMA TakeMaps == ASSUME FiberInv, FiberInv', TakeReady PROVE Lifecycle!Next
<1> DEFINE h == Head(ready)
<1>1. /\ TypeOK /\ HoldersOK /\ DrainOK /\ control = "drain" /\ control' = "ready" /\ ready # <<>>
      /\ saved' = <<Entry(currentId, fiber)>>
      /\ fiber' = Running(h.fiber) /\ ready' = Tail(ready)
      /\ UNCHANGED <<suspended, parked, fate, told>>
      /\ ready \in Queue
  BY DEF FiberInv, TakeReady, io, TypeOK, Queue
<1>2. /\ h \in QueueEntry /\ h = ready[1] /\ 1 \in DOMAIN ready
      /\ \A u : Count(ready', u) = Count(ready, u) - (IF h.fiber.uid = u THEN 1 ELSE 0)
  BY <1>1, CountOfTail
<1>3. PICK m \in Uid : m = h.fiber.uid
  BY <1>1, <1>2 DEF HoldersOK, Live
<1>4. h.fiber \in Fiber /\ h.fiber.frames
  BY <1>1, <1>2 DEF QueueEntry, HoldersOK, Live
<1> HIDE DEF h
<1>5. fiber'.frames /\ fiber'.uid = m
  BY <1>1, <1>3, <1>4, FiberTypes
<1>6. ~Executing /\ Executing' /\ SameWaits
  BY <1>1, ParkedSame DEF Executing
<1>7. StatusOf(m) = "ready" /\ StatusOf(m)' = "running"
  <2>1. Count(ready, m) # 0
    BY <1>1, <1>2, <1>3, QueueSets
  <2>2. StatusOf(m) = "ready"
    BY <2>1, TableHolds DEF StatusTable
  <2>3. StatusOf(m)' = "running"
    BY <1>5, <1>6, NextTable DEF StatusTable
  <2> QED
    BY <2>2, <2>3
<1>8. ASSUME NEW u \in Uid, u # m PROVE StatusOf(u)' = StatusOf(u)
  <2>1. Count(ready', u) = Count(ready, u)
    BY <1>2, <1>3, <1>8, OnlyPlace
  <2>2. SavedHolds(saved, u) = 0
    <3>1. saved = <<>>
      BY <1>1, EmptySeq DEF TypeOK
    <3> QED
      BY <3>1 DEF SavedHolds
  <2>3. CASE Holds(fiber, u) = 0
    BY <1>1, <2>1, <2>2, <2>3, Undisturbed
  <2>4. CASE Holds(fiber, u) # 0
    <3>1. fiber.frames /\ fiber.uid = u /\ fiber.state = "Suspended"
      BY <1>1, <2>4 DEF Holds, DrainOK
    <3>2. StatusOf(u) = "stranded"
      BY <1>6, <3>1, TableHolds DEF StatusTable
    <3>3. SavedHolds(saved', u) # 0
      <4>1. DOMAIN saved' = {1} /\ saved'[1].fiber = fiber
        BY <1>1 DEF Entry
      <4> QED
        BY <3>1, <4>1 DEF SavedHolds
    <3> QED
      BY <3>2, <3>3, NextTable DEF StatusTable
  <2> QED
    BY <2>3, <2>4
<1>9. Lifecycle!Start(m)
  <2>1. Only(m, "running")
    BY <1>7, <1>8 DEF Only
  <2>2. StatusOf(m) \in {"ready", "stranded", "unborn"}
    BY <1>7
  <2> QED
    BY <1>6, <2>1, <2>2, Moves DEF Lifecycle!Start
<1> QED
  BY <1>6, <1>9, AloneStep DEF Lifecycle!Alone, Lifecycle!Fiber, Uid

-----------------------------------------------------------------------------
(* The instructions.                                                       *)

\* Calls, values and awaits of values do not show.
LEMMA TopMaps ==
    ASSUME FiberInv, FiberInv', CallPending \/ PushValue \/ AwaitValue
    PROVE  UNCHANGED Lifecycle!vars
<1>1. /\ UNCHANGED <<saved, ready, suspended, parked, fate, told, control>>
      /\ \E t : fiber' = [fiber EXCEPT !.top = t]
      /\ fiber \in Fiber
  BY DEF FiberInv, CallPending, PushValue, AwaitValue, queues, io, TypeOK
<1>2. fiber'.frames = fiber.frames /\ fiber'.uid = fiber.uid /\ fiber'.state = fiber.state
  BY <1>1 DEF Fiber
<1>3. SameWaits /\ (Executing' <=> Executing)
  BY <1>1, ParkedSame DEF Executing
<1>4. ASSUME NEW u \in Uid PROVE StatusOf(u)' = StatusOf(u)
  <2>1. Holds(fiber', u) = Holds(fiber, u)
    BY <1>2 DEF Holds
  <2> QED
    BY <1>1, <1>2, <1>3, <2>1, Undisturbed
<1> QED
  BY <1>3, <1>4, Stutters

\* Who does not run keeps its status when the processor is released; the main
\* fiber comes back as stranded as it was.
LEMMA ReleaseKeeps ==
    ASSUME FiberInv, FiberInv', control \in {"main", "ready"},
           NEW f \in Fiber, ~f.frames, Awake(f), f.state # "Parked", Release(f),
           NEW u \in Uid, u # fiber.uid, fate'[u] = fate[u],
           Count(ready', u) = Count(ready, u), Count(suspended', u) = Count(suspended, u),
           Waits(parked', u) = Waits(parked, u)
    PROVE  StatusOf(u)' = StatusOf(u)
<1>1. /\ saved' = <<>> /\ control' = "drain"
      /\ fiber'.frames => fiber'.state = "Suspended"
      /\ Holds(fiber', u) + SavedHolds(saved', u) =
             Holds(fiber, u) + SavedHolds(saved, u) - (IF fiber.uid = u THEN 1 ELSE 0)
  BY ReleaseStep
<1>2. Holds(fiber, u) = 0
  BY DEF Holds
<1>3. SavedHolds(saved', u) = 0 /\ Holds(fiber', u) \in {0, 1} /\ SavedHolds(saved, u) \in {0, 1}
  BY <1>1, HoldsTypes DEF SavedHolds
<1>4. CASE SavedHolds(saved, u) = 0
  BY <1>2, <1>4, Undisturbed
<1>5. CASE SavedHolds(saved, u) # 0
  <2>1. Holds(fiber', u) # 0
    BY <1>1, <1>2, <1>3, <1>5
  <2>2. fiber'.frames /\ fiber'.uid = u /\ fiber'.state = "Suspended" /\ ~Executing'
    BY <1>1, <2>1 DEF Holds, Executing
  <2>3. StatusOf(u)' = "stranded"
    BY <2>2, NextTable DEF StatusTable
  <2>4. StatusOf(u) = "stranded"
    BY <1>5, TableHolds DEF StatusTable
  <2> QED
    BY <2>3, <2>4
<1> QED
  BY <1>4, <1>5

LEMMA AwaitMaps ==
    ASSUME FiberInv, FiberInv', LedgerOK, AwaitPending
    PROVE  Lifecycle!Next
<1> DEFINE e == Entry(currentId, [fiber EXCEPT !.state = "Parked"])
<1>1. /\ TypeOK /\ HoldersOK /\ Executing /\ control \in {"main", "ready"} /\ lastPending # 0
      /\ parked' = Put(lastPending, e) /\ told' = told \cup {lastPending}
      /\ Release(Empty) /\ fiber \in Fiber
      /\ UNCHANGED <<ready, suspended, fate>>
  BY DEF FiberInv, AwaitPending, ToldOfPending, None, TypeOK, Executing
<1>2. PICK t \in Token : t = lastPending /\ t \notin DOMAIN parked /\ t \notin told
  BY <1>1, BoundsAssumption DEF TypeOK, LedgerOK, IoLedger, Token
<1>3. PICK m \in Uid : m = fiber.uid
  BY <1>1 DEF HoldersOK
<1>4. e.fiber.uid = m
  BY <1>1, <1>3 DEF Entry, Fiber
<1> HIDE DEF e
<1>5. /\ DOMAIN parked \subseteq Token
      /\ parked' = [s \in DOMAIN parked \cup {t} |-> IF s = t THEN e ELSE parked[s]]
  BY <1>1, <1>2 DEF Put, TypeOK
<1>6. \A u : Waits(parked', u) = Waits(parked, u) + (IF m = u THEN 1 ELSE 0)
  BY <1>2, <1>4, <1>5, WaitsPut
<1>7. Empty \in Fiber /\ ~Empty.frames /\ Awake(Empty) /\ Empty.state # "Parked"
  BY FiberTypes DEF Empty, Awake
<1>8. StatusOf(m) = "running"
  BY <1>1, <1>3, TableHolds DEF StatusTable
<1>9. StatusOf(m)' = "parked" /\ WaitsFor(m)' = t
  <2>1. Waits(parked', m) # 0
    BY <1>6, OnlyPlace
  <2>2. t \in DOMAIN parked' /\ parked'[t].fiber.uid = m
    BY <1>4, <1>5
  <2> QED
    BY <2>1, <2>2, NextTable DEF StatusTable
<1>10. ASSUME NEW u \in Uid, u # m
       PROVE  StatusOf(u)' = StatusOf(u) /\ WaitsFor(u)' = WaitsFor(u)
  <2>1. Waits(parked', u) = Waits(parked, u)
    BY <1>6, <1>10, OnlyPlace
  <2>2. StatusOf(u)' = StatusOf(u)
    BY <1>1, <1>3, <1>7, <1>10, <2>1, ReleaseKeeps
  <2>3. ParkedOn(u)' = ParkedOn(u)
    BY <1>2, <1>4, <1>5, <1>10 DEF ParkedOn
  <2>4. WaitsFor(u)' = WaitsFor(u)
    BY <2>3 DEF WaitsFor
  <2> QED
    BY <2>2, <2>4
<1>11. Lifecycle!Park(m, t)
  BY <1>1, <1>2, <1>8, <1>9, <1>10 DEF Lifecycle!Park
<1> QED
  BY <1>1, <1>11, RunningStep DEF Lifecycle!Running, Lifecycle!Fiber, Uid, Lifecycle!Token, Token

\* The executing fiber stays in the main slot while the host gets control.
LEMMA StaysStopped ==
    ASSUME FiberInv, FiberInv', Executing, control' = "host", fiber'.frames,
           fiber'.uid = fiber.uid, UNCHANGED <<ready, suspended, parked, fate, told>>
    PROVE  Lifecycle!Next
<1>1. Executing /\ ~Executing' /\ SameWaits /\ fiber.frames /\ fiber.uid \in Uid
  BY ParkedSame DEF Executing, FiberInv, HoldersOK
<1>2. PICK m \in Uid : m = fiber.uid
  BY <1>1
<1>3. StatusOf(m) \in {"running"}
  BY <1>1, <1>2, TableHolds DEF StatusTable
<1>4. StatusOf(m)' \in {"stranded", "ready"}
  BY <1>1, <1>2, NextTable DEF StatusTable
<1>5. ASSUME NEW u \in Uid, u # m PROVE StatusOf(u)' = StatusOf(u)
  <2>1. Holds(fiber, u) = 0 /\ Holds(fiber', u) = 0
    BY <1>2, <1>5 DEF Holds
  <2> QED
    BY <2>1, Undisturbed
<1>6. CASE StatusOf(m)' = "stranded"
  <2>1. Only(m, "stranded")
    BY <1>5, <1>6 DEF Only
  <2>2. Lifecycle!Suspend(m)
    BY <1>1, <1>3, <2>1, Moves DEF Lifecycle!Suspend
  <2> QED
    BY <1>1, <2>2, RunningStep DEF Lifecycle!Running, Lifecycle!Fiber, Uid
<1>7. CASE StatusOf(m)' = "ready"
  <2>1. Only(m, "ready")
    BY <1>5, <1>7 DEF Only
  <2>2. Lifecycle!Stop(m)
    BY <1>1, <1>3, <2>1, Moves DEF Lifecycle!Stop
  <2> QED
    BY <1>1, <2>2, RunningStep DEF Lifecycle!Running, Lifecycle!Fiber, Uid
<1> QED
  BY <1>4, <1>6, <1>7

LEMMA AwaitSyncMaps == ASSUME FiberInv, FiberInv', AwaitPendingSync PROVE Lifecycle!Next
<1>1. /\ Executing /\ control' = "host" /\ fiber \in Fiber /\ fiber.frames
      /\ fiber' = [fiber EXCEPT !.top = None]
      /\ UNCHANGED <<ready, suspended, parked, fate, told, saved>>
  BY DEF FiberInv, TypeOK, HoldersOK, AwaitPendingSync, ReturnToHost, Executing, queues
<1>2. fiber'.frames /\ fiber'.uid = fiber.uid
  BY <1>1 DEF Fiber
<1> QED
  BY <1>1, <1>2, StaysStopped

\* yield and wait, from run_ready or from a synchronous call.
LEMMA SuspendMaps ==
    ASSUME FiberInv, FiberInv', Yield \/ \E d \in 0..MaxWait : Wait(d)
    PROVE  Lifecycle!Next
<1>1. /\ Executing /\ fiber \in Fiber /\ fiber.frames /\ currentId \in FiberId
      /\ UNCHANGED <<ready, parked, fate, told>>
  BY DEF FiberInv, Yield, Wait, Suspend, MayDo, TypeOK, HoldersOK, io
<1>2. PICK f \in Fiber : Suspend(f) /\ f.frames /\ f.uid = fiber.uid
  <2>1. 0 \in 0..MaxTokens
    BY BoundsAssumption
  <2>2. CASE Yield
    <3> DEFINE f == [fiber EXCEPT !.state = "Suspended", !.top = None]
    <3>1. f \in Fiber /\ f.frames /\ f.uid = fiber.uid
      BY <1>1, <2>1 DEF Fiber, None
    <3>2. Suspend(f)
      BY <2>2 DEF Yield
    <3> QED
      BY <3>1, <3>2
  <2>3. ASSUME NEW d \in 0..MaxWait, Wait(d)
        PROVE  \E f \in Fiber : Suspend(f) /\ f.frames /\ f.uid = fiber.uid
    <3> DEFINE f == [fiber EXCEPT !.state = "Suspended", !.top = None, !.timer = d, !.asked = d]
    <3>1. f \in Fiber /\ f.frames /\ f.uid = fiber.uid
      BY <1>1, <2>1 DEF Fiber, None
    <3>2. Suspend(f)
      BY <2>3 DEF Wait
    <3> QED
      BY <3>1, <3>2
  <2> QED
    BY <2>2, <2>3
<1>3. CASE control = "sync"
  <2>1. control' = "host" /\ fiber' = f /\ UNCHANGED <<saved, suspended>>
    BY <1>2, <1>3 DEF Suspend, ReturnToHost
  <2> QED
    BY <1>1, <1>2, <2>1, StaysStopped
<1>4. CASE control # "sync"
  <2> DEFINE e == Entry(currentId, f)
  <2>1. control \in {"main", "ready"} /\ Release(Empty) /\ suspended' = Append(suspended, e)
    BY <1>1, <1>2, <1>4 DEF Suspend, Executing
  <2>2. PICK m \in Uid : m = fiber.uid
    BY <1>1 DEF FiberInv, HoldersOK
  <2>3. e \in QueueEntry /\ e.fiber.uid = m /\ suspended \in Queue
    BY <1>1, <1>2, <2>2 DEF Entry, QueueEntry, FiberInv, TypeOK, Queue
  <2> HIDE DEF e
  <2>4. \A u : Count(suspended', u) = Count(suspended, u) + (IF m = u THEN 1 ELSE 0)
    BY <2>1, <2>3, CountOfAppend
  <2>5. Empty \in Fiber /\ ~Empty.frames /\ Awake(Empty) /\ Empty.state # "Parked"
    BY FiberTypes DEF Empty, Awake
  <2>6. StatusOf(m) \in {"running"}
    BY <1>1, <2>2, TableHolds DEF StatusTable
  <2>7. StatusOf(m)' = "suspended"
    <3>1. Count(suspended', m) # 0
      BY <2>4, OnlyPlace
    <3> QED
      BY <3>1, NextTable DEF StatusTable
  <2>8. ASSUME NEW u \in Uid, u # m PROVE StatusOf(u)' = StatusOf(u)
    <3>1. Count(suspended', u) = Count(suspended, u)
      BY <2>4, <2>8, OnlyPlace
    <3> QED
      BY <1>1, <2>1, <2>2, <2>5, <2>8, <3>1, ReleaseKeeps
  <2>9. Lifecycle!Suspend(m)
    <3>1. SameWaits /\ Only(m, "suspended")
      BY <1>1, <2>7, <2>8, ParkedSame DEF Only
    <3> QED
      BY <2>6, <3>1, Moves DEF Lifecycle!Suspend
  <2> QED
    BY <1>1, <2>9, RunningStep DEF Lifecycle!Running, Lifecycle!Fiber, Uid
<1> QED
  BY <1>3, <1>4

LEMMA FinishMaps == ASSUME FiberInv, FiberInv', Finish PROVE Lifecycle!Next
<1> DEFINE over == [fiber EXCEPT !.frames = FALSE, !.top = None]
           f == [over EXCEPT !.state = "Finished"]
<1>1. /\ TypeOK /\ Executing /\ fiber \in Fiber /\ fiber.frames /\ Awake(fiber)
      /\ fate' = [fate EXCEPT ![fiber.uid] = "finished"]
      /\ UNCHANGED <<ready, suspended, parked, told>>
      /\ control = "sync" => control' = "host" /\ fiber' = over /\ saved' = saved
      /\ control # "sync" => Release(f)
  BY DEF FiberInv, Finish, MayDo, TypeOK, HoldersOK, SleepOK, ReturnToHost, io
<1>2. PICK m \in Uid : m = fiber.uid
  BY <1>1 DEF FiberInv, HoldersOK
<1>3. over \in Fiber /\ ~over.frames /\ f \in Fiber /\ ~f.frames /\ f.state # "Parked" /\ Awake(f)
  <2>1. 0 \in 0..MaxTokens
    BY BoundsAssumption
  <2> QED
    BY <1>1, <2>1 DEF Fiber, Awake, None
<1>4. \A u \in Uid : fate'[u] = IF u = m THEN "finished" ELSE fate[u]
  BY <1>1, <1>2 DEF TypeOK
<1> HIDE DEF over, f
<1>5. StatusOf(m) \in {"running"} /\ StatusOf(m)' = "finished"
  <2>1. StatusOf(m) = "running"
    BY <1>1, <1>2, TableHolds DEF StatusTable
  <2>2. StatusOf(m)' = "finished"
    BY <1>4, NextTable DEF StatusTable
  <2> QED
    BY <2>1, <2>2
<1>6. ASSUME NEW u \in Uid, u # m PROVE StatusOf(u)' = StatusOf(u)
  <2>1. fate'[u] = fate[u]
    BY <1>4, <1>6
  <2>2. CASE control = "sync"
    <3>1. Holds(fiber, u) = 0 /\ Holds(fiber', u) = 0
      BY <1>1, <1>2, <1>3, <1>6, <2>2 DEF Holds
    <3> QED
      BY <1>1, <2>1, <2>2, <3>1, Undisturbed
  <2>3. CASE control # "sync"
    <3>1. control \in {"main", "ready"}
      BY <1>1, <2>3 DEF Executing
    <3> QED
      BY <1>1, <1>2, <1>3, <1>6, <2>1, <2>3, <3>1, ReleaseKeeps
  <2> QED
    BY <2>2, <2>3
<1>7. Lifecycle!Finish(m)
  <2>1. SameWaits /\ Only(m, "finished")
    BY <1>1, <1>5, <1>6, ParkedSame DEF Only
  <2> QED
    BY <1>5, <2>1, Moves DEF Lifecycle!Finish
<1> QED
  BY <1>1, <1>7, RunningStep DEF Lifecycle!Running, Lifecycle!Fiber, Uid

\* An error from within run_ready drops the main fiber that was set aside.
LEMMA FailMaps == ASSUME FiberInv, FiberInv', Fail PROVE Lifecycle!Next
<1>1. /\ TypeOK /\ HoldersOK /\ DrainOK /\ OnePlace /\ Executing /\ fiber.frames
      /\ control' = "host" /\ saved' = <<>> /\ saved \in Queue
      /\ fate' = IF saved # <<>> /\ saved[1].fiber.frames
                 THEN [fate EXCEPT ![saved[1].fiber.uid] = "discarded"] ELSE fate
      /\ UNCHANGED <<fiber, ready, suspended, parked, told>>
  BY DEF FiberInv, Fail, HoldersOK, TypeOK, Queue, queues, io
<1>2. CASE saved = <<>> \/ ~saved[1].fiber.frames
  <2>1. fate' = fate
    BY <1>1, <1>2
  <2> QED
    BY <1>1, <2>1, StaysStopped
<1>3. CASE saved # <<>> /\ saved[1].fiber.frames
  <2>1. /\ DOMAIN saved = {1} /\ control = "ready"
    BY <1>1, <1>3, QueueSets, EmptySeq DEF TypeOK
  <2>2. PICK m \in Uid : m = fiber.uid
    BY <1>1 DEF HoldersOK
  <2>3. PICK v \in Uid : v = saved[1].fiber.uid
    BY <1>1, <1>3, <2>1 DEF HoldersOK
  <2>4. SavedHolds(saved, v) # 0 /\ fiber.state = "Running"
    BY <1>1, <1>3, <2>1, <2>3 DEF SavedHolds, DrainOK
  <2>5. Holds(fiber, m) # 0
    BY <1>1, <2>2 DEF Holds
  <2>6. StatusOf(m) = "running" /\ StatusOf(v) = "stranded"
    <3>1. StatusOf(m) = "running"
      BY <1>1, <2>2, TableHolds DEF StatusTable
    <3>2. StatusOf(v) = "stranded"
      BY <2>4, TableHolds DEF StatusTable
    <3> QED
      BY <3>1, <3>2
  <2>7. m # v
    BY <2>6
  <2>8. \A u \in Uid : fate'[u] = IF u = v THEN "discarded" ELSE fate[u]
    BY <1>1, <1>3, <2>3 DEF TypeOK
  <2>9. StatusOf(v)' = "discarded"
    BY <2>8, NextTable DEF StatusTable
  <2>10. StatusOf(m)' = "ready"
    <3>1. ~Executing' /\ fiber'.frames /\ fiber'.uid = m /\ fiber'.state = "Running"
      BY <1>1, <2>2, <2>4 DEF Executing
    <3> QED
      BY <3>1, NextTable DEF StatusTable
  <2>11. ASSUME NEW u \in Uid, u # m, u # v PROVE StatusOf(u)' = StatusOf(u)
    <3>1. Holds(fiber, u) = 0 /\ SavedHolds(saved, u) = 0
      BY <2>1, <2>2, <2>3, <2>11 DEF Holds, SavedHolds
    <3>2. fate'[u] = fate[u]
      BY <2>8, <2>11
    <3> QED
      BY <1>1, <3>1, <3>2, Undisturbed
  <2>12. Lifecycle!Stop(m)
    <3>1. SameWaits
      BY <1>1, ParkedSame
    <3>2. ASSUME NEW u \in Uid
          PROVE  StatusOf(u)' = IF u = v THEN "discarded" ELSE IF u = m THEN "ready" ELSE StatusOf(u)
      BY <2>7, <2>9, <2>10, <2>11
    <3> QED
      BY <2>6, <2>7, <3>1, <3>2 DEF SameWaits, Lifecycle!Stop, Lifecycle!Fiber, Uid
  <2> QED
    BY <1>1, <2>12, RunningStep DEF Lifecycle!Running, Lifecycle!Fiber, Uid
<1> QED
  BY <1>2, <1>3

-----------------------------------------------------------------------------
(* The refinement.                                                         *)

LEMMA InitMaps == Init => Lifecycle!Init
<1> SUFFICES ASSUME Init PROVE Lifecycle!Init
  OBVIOUS
<1>1. /\ fate = [u \in Uid |-> "unborn"] /\ told = {} /\ DOMAIN parked = {}
  BY DEF Init
<1>2. \A u \in Uid : StatusOf(u) = "unborn"
  BY <1>1 DEF StatusOf
<1>3. \A u \in Uid : WaitsFor(u) = 0
  BY <1>1 DEF WaitsFor, ParkedOn
<1> QED
  BY <1>1, <1>2, <1>3 DEF Lifecycle!Init, Lifecycle!Fiber, Uid

LEMMA StepMaps ==
    ASSUME FiberInv, FiberInv', LedgerOK, [Next]_vars
    PROVE  [Lifecycle!Next]_Lifecycle!vars
<1>1. CASE UNCHANGED vars
  <2>1. UNCHANGED <<fiber, saved, ready, suspended, parked, fate, told, control>>
    BY <1>1 DEF vars, queues, io
  <2>2. SameWaits /\ (Executing' <=> Executing)
    BY <2>1, ParkedSame DEF Executing
  <2>3. ASSUME NEW u \in Uid PROVE StatusOf(u)' = StatusOf(u)
    BY <2>1, <2>2, Undisturbed
  <2> QED
    BY <2>2, <2>3, Stutters
<1>2. CASE Host
  BY <1>2, LoadMaps, SpawnMaps, InterpretMaps, CallInMaps, ResumeMaps, CancelMaps, PromoteMaps
     DEF Host
<1>3. CASE RunReady
  BY <1>3, MainMaps, TakeMaps DEF RunReady
<1>4. CASE Script
  BY <1>4, SpawnMaps, TopMaps, AwaitMaps, AwaitSyncMaps, SuspendMaps, FinishMaps, FailMaps
     DEF Script, Leave
<1> QED
  BY <1>1, <1>2, <1>3, <1>4 DEF Next

\* Queues, main slot, saved_main and last_pending never show: whatever the host
\* and the scripts do, every step is a step of a fiber's life, for any number of
\* fibers and operations.
THEOREM LifecycleImplemented == Spec => ImplementsLifecycle
<1>1. Init => Lifecycle!Init
  BY InitMaps
<1>2. IInv /\ IInv' /\ [Next]_vars => [Lifecycle!Next]_Lifecycle!vars
  BY StepMaps DEF IInv
<1> QED
  BY <1>1, <1>2, InvariantHolds, PTL DEF Spec, ImplementsLifecycle, Lifecycle!Spec

-----------------------------------------------------------------------------
(***************************************************************************)
(* Two promises of FiberScheduler that hold only if it is used with care,  *)
(* proved for every number of fibers, tokens and ticks: identifiers are    *)
(* distinct (IdsDistinct) for a host that does not call interpret and      *)
(* call, and a fiber parks for its own call (ParksForOwnCall) in scripts   *)
(* that await at the call and meet no runtime error there.  Without those  *)
(* assumptions both fail.                                                  *)
(***************************************************************************)
(* Identifiers.                                                            *)

\* Fiber u is somewhere with frames, under identifier id.
EntryOf(queue, id, u) == \E i \in DOMAIN queue : queue[i].id = id /\ queue[i].fiber.uid = u
Holder(id, u) ==
    \/ fiber.frames /\ currentId = id /\ fiber.uid = u
    \/ \E i \in DOMAIN saved : saved[i].fiber.frames /\ saved[i].id = id /\ saved[i].fiber.uid = u
    \/ EntryOf(ready, id, u)
    \/ EntryOf(suspended, id, u)
    \/ EntryOf(parked, id, u)

\* Identifiers in use were given out already, each to one fiber; what a host
\* with interpret and call breaks is the first conjunct.
IdInv ==
    /\ control # "sync"
    /\ \A id, u : Holder(id, u) => id < nextId
    /\ \A id, u, v : Holder(id, u) /\ Holder(id, v) => u = v

\* The step brings in no holder but those there were.
SameHolders == nextId' = nextId /\ \A id, u : Holder(id, u)' => Holder(id, u)

\* The step makes one fiber, under the next identifier.
OneHolderMore ==
    /\ nextId' = nextId + 1
    /\ \E new : \A id, u : Holder(id, u)' => Holder(id, u) \/ (id = nextId /\ u = new)

LEMMA HoldersKept ==
    ASSUME TypeOK, IdInv, control' # "sync", SameHolders \/ OneHolderMore
    PROVE  IdInv'
<1>1. CASE SameHolders
  BY <1>1 DEF IdInv, SameHolders
<1>2. CASE OneHolderMore
  <2>1. PICK new : \A id, u : Holder(id, u)' => Holder(id, u) \/ (id = nextId /\ u = new)
    BY <1>2 DEF OneHolderMore
  <2>2. nextId' = nextId + 1 /\ nextId \in Nat
    BY <1>2, BoundsAssumption DEF OneHolderMore, TypeOK, FiberId
  <2>3. ASSUME NEW id, NEW u, Holder(id, u) PROVE id < nextId /\ id \in Nat
    <3>1. /\ currentId \in FiberId /\ saved \in Queue /\ ready \in Queue /\ suspended \in Queue
          /\ \A t \in DOMAIN parked : parked[t].id \in FiberId
      BY DEF TypeOK, Queue, QueueEntry
    <3>2. ASSUME NEW q \in Queue, NEW i \in DOMAIN q PROVE q[i].id \in FiberId
      <4>1. q[i] \in QueueEntry
        BY QueueSets, ElementOfSeq DEF Queue
      <4> QED
        BY <4>1 DEF QueueEntry
    <3>3. id \in FiberId
      BY <2>3, <3>1, <3>2 DEF Holder, EntryOf
    <3> QED
      BY <2>3, <3>3 DEF IdInv, FiberId
  <2>4. ASSUME NEW id, NEW u, Holder(id, u)' PROVE id < nextId'
    BY <2>1, <2>2, <2>3, <2>4
  <2>5. ASSUME NEW id, NEW u, NEW v, Holder(id, u)', Holder(id, v)' PROVE u = v
    <3>1. CASE id = nextId
      BY <2>1, <2>2, <2>3, <2>5, <3>1
    <3>2. CASE id # nextId
      BY <2>1, <2>5, <3>2 DEF IdInv
    <3> QED
      BY <3>1, <3>2
  <2> QED
    BY <2>4, <2>5 DEF IdInv
<1> QED
  BY <1>1, <1>2

\* What is in a queue after an entry was added at its end.
LEMMA EntryOfAppend ==
    ASSUME NEW q \in Queue, NEW e, NEW id, NEW u, EntryOf(Append(q, e), id, u)
    PROVE  EntryOf(q, id, u) \/ (e.id = id /\ e.fiber.uid = u)
<1>1. PICK i \in DOMAIN Append(q, e) : Append(q, e)[i].id = id /\ Append(q, e)[i].fiber.uid = u
  BY DEF EntryOf
<1>2. /\ DOMAIN q = 1..Len(q) /\ DOMAIN Append(q, e) = 1..(Len(q) + 1) /\ Len(q) \in Nat
      /\ Append(q, e)[i] = IF i = Len(q) + 1 THEN e ELSE q[i]
  BY QueueSets DEF Queue
<1> QED
  BY <1>1, <1>2 DEF EntryOf

\* load, spawn_closure and spawn: the one way a host without interpret and call,
\* or a script, makes a fiber.
LEMMA CreateHolders ==
    ASSUME FiberInv, Load \/ SpawnClosure \/ Spawn
    PROVE  OneHolderMore
<1>1. /\ ready \in Queue /\ nextId \in Nat /\ NewUid \in Uid
      /\ NewFiber(NewUid).uid = NewUid
  BY BoundsAssumption, NewUidFresh, FiberTypes
     DEF FiberInv, TypeOK, Queue, FiberId, Load, SpawnClosure, Spawn
<1>2. CASE Load
  BY <1>1, <1>2 DEF Load, LoadId, OneHolderMore, Holder, EntryOf, queues
<1>3. CASE SpawnClosure \/ Spawn
  <2>1. /\ ready' = Append(ready, Entry(nextId, NewFiber(NewUid))) /\ nextId' = nextId + 1
        /\ UNCHANGED <<fiber, currentId, saved, suspended, parked>>
    BY <1>3 DEF SpawnClosure, Spawn
  <2>2. ASSUME NEW id, NEW u, EntryOf(ready, id, u)'
        PROVE  EntryOf(ready, id, u) \/ (id = nextId /\ u = NewUid)
    <3>1. EntryOf(Append(ready, Entry(nextId, NewFiber(NewUid))), id, u)
      BY <2>1, <2>2 DEF EntryOf
    <3> QED
      BY <1>1, <3>1, EntryOfAppend DEF Entry
  <2>3. \A id, u : (EntryOf(suspended, id, u)' => EntryOf(suspended, id, u))
                   /\ (EntryOf(parked, id, u)' => EntryOf(parked, id, u))
    BY <2>1 DEF EntryOf
  <2>4. \A id, u : Holder(id, u)' => Holder(id, u) \/ (id = nextId /\ u = NewUid)
    BY <2>1, <2>2, <2>3 DEF Holder
  <2> QED
    BY <2>1, <2>4 DEF OneHolderMore
<1> QED
  BY <1>2, <1>3

\* resume moves an entry, with its identifier, from parked to ready.
LEMMA ResumeHolders ==
    ASSUME FiberInv, NEW t \in Token, Resume(t)
    PROVE  SameHolders
<1> DEFINE e == [parked[t] EXCEPT !.fiber.top = None, !.fiber.state = "Created"]
<1>1. /\ ready \in Queue /\ t \in DOMAIN parked /\ parked[t] \in QueueEntry
      /\ ready' = Append(ready, e) /\ parked' = Without(t)
      /\ UNCHANGED <<fiber, currentId, saved, suspended, nextId>>
  BY DEF FiberInv, TypeOK, Queue, Resume, counters
<1>2. e.id = parked[t].id /\ e.fiber.uid = parked[t].fiber.uid
  BY <1>1 DEF QueueEntry, Fiber
<1> HIDE DEF e
<1>3. ASSUME NEW id, NEW u, EntryOf(ready, id, u)'
      PROVE  EntryOf(ready, id, u) \/ EntryOf(parked, id, u)
  <2>1. EntryOf(Append(ready, e), id, u)
    BY <1>1, <1>3 DEF EntryOf
  <2> QED
    BY <1>1, <1>2, <2>1, EntryOfAppend DEF EntryOf
<1>4. \A id, u : EntryOf(parked, id, u)' => EntryOf(parked, id, u)
  BY <1>1 DEF EntryOf, Without
<1>5. \A id, u : EntryOf(suspended, id, u)' => EntryOf(suspended, id, u)
  BY <1>1 DEF EntryOf
<1> QED
  BY <1>1, <1>3, <1>4, <1>5 DEF SameHolders, Holder

\* cancel_fiber only takes an entry out.
LEMMA CancelHolders ==
    ASSUME FiberInv, NEW id \in FiberId, CancelFiber(id)
    PROVE  SameHolders
<1>1. /\ ready \in Queue /\ suspended \in Queue
      /\ UNCHANGED <<fiber, currentId, saved, nextId>>
  BY DEF FiberInv, TypeOK, Queue, CancelFiber, counters
<1>2. ASSUME NEW q \in Queue, PositionsOf(q, id) # {}, NEW j, NEW u
      PROVE  EntryOf(RemoveAt(q, FirstOf(q, id)), j, u) => EntryOf(q, j, u)
  BY <1>2, FirstIsThere, CountOfRemoveAt DEF EntryOf
<1>3. /\ \/ ready' = ready
         \/ PositionsOf(ready, id) # {} /\ ready' = RemoveAt(ready, FirstOf(ready, id))
      /\ \/ suspended' = suspended
         \/ /\ PositionsOf(suspended, id) # {}
            /\ suspended' = RemoveAt(suspended, FirstOf(suspended, id))
  <2>1. CASE PositionsOf(ready, id) # {}
    BY <2>1, Zenon DEF CancelFiber
  <2>2. CASE PositionsOf(ready, id) = {} /\ PositionsOf(suspended, id) # {}
    BY <2>2, Zenon DEF CancelFiber
  <2>3. CASE PositionsOf(ready, id) = {} /\ PositionsOf(suspended, id) = {}
    BY <2>3, Zenon DEF CancelFiber
  <2> QED
    BY <2>1, <2>2, <2>3
<1>4. /\ \A j, u : EntryOf(ready, j, u)' => EntryOf(ready, j, u)
      /\ \A j, u : EntryOf(suspended, j, u)' => EntryOf(suspended, j, u)
  BY <1>1, <1>2, <1>3 DEF EntryOf
<1>5. \A j, u : EntryOf(parked, j, u)' => EntryOf(parked, j, u)
  BY DEF CancelFiber, EntryOf, AfterCancel, Without
<1> QED
  BY <1>1, <1>4, <1>5 DEF SameHolders, Holder

\* The first part of run_ready sorts the suspended entries, whole.
LEMMA PromoteHolders ==
    ASSUME FiberInv, NEW dt \in Deltas, Promote(dt)
    PROVE  SameHolders
<1>1. /\ \A i \in DOMAIN ready' :
            \/ \E j \in DOMAIN ready : ready'[i] = ready[j]
            \/ \E j \in DueAt(dt) : ready'[i] = Promoted(suspended[j], dt)
      /\ \A i \in DOMAIN suspended' :
            \E j \in DOMAIN suspended \ DueAt(dt) : suspended'[i] = Ticked(suspended[j], dt)
  BY PromoteQueues DEF FiberInv
<1>2. \A j \in DOMAIN suspended : suspended[j] \in QueueEntry
  BY ElementOfSeq, LenProperties DEF FiberInv, TypeOK
<1>3. ASSUME NEW e \in QueueEntry
      PROVE  /\ Promoted(e, dt).id = e.id /\ Promoted(e, dt).fiber.uid = e.fiber.uid
             /\ Ticked(e, dt).id = e.id /\ Ticked(e, dt).fiber.uid = e.fiber.uid
  BY DEF Promoted, Ticked, SleptOn, QueueEntry, Fiber
<1>4. UNCHANGED <<fiber, currentId, saved, parked, nextId>>
  BY DEF Promote, counters
<1>5. ASSUME NEW id, NEW u, EntryOf(ready, id, u)'
      PROVE  EntryOf(ready, id, u) \/ EntryOf(suspended, id, u)
  BY <1>1, <1>2, <1>3, <1>5 DEF EntryOf, DueAt
<1>6. ASSUME NEW id, NEW u, EntryOf(suspended, id, u)'
      PROVE  EntryOf(suspended, id, u)
  BY <1>1, <1>2, <1>3, <1>6 DEF EntryOf
<1> QED
  BY <1>4, <1>5, <1>6 DEF SameHolders, Holder, EntryOf

\* run_ready hands the main slot on with the identifier that belongs to it.
LEMMA RunHolders ==
    ASSUME FiberInv, RunReady
    PROVE  SameHolders
<1>1. fiber \in Fiber /\ ready \in Queue
  BY DEF FiberInv, TypeOK, Queue
<1>2. CASE StartMain
  BY <1>1, <1>2, FiberTypes DEF StartMain, SameHolders, Holder, EntryOf, queues, counters
<1>3. CASE SkipMain \/ EndRun
  BY <1>3 DEF SkipMain, EndRun, SameHolders, Holder, EntryOf, queues, counters
<1>4. CASE TakeReady
  <2>1. /\ saved' = <<Entry(currentId, fiber)>> /\ fiber' = Running(Head(ready).fiber)
        /\ currentId' = Head(ready).id /\ ready' = Tail(ready)
        /\ UNCHANGED <<suspended, parked, nextId>> /\ ready # <<>>
    BY <1>4 DEF TakeReady, counters
  <2>2. /\ Head(ready) \in QueueEntry /\ Head(ready) = ready[1] /\ 1 \in DOMAIN ready
        /\ \A j \in DOMAIN Tail(ready) : \E k \in DOMAIN ready : Tail(ready)[j] = ready[k]
    BY <1>1, <2>1, CountOfTail
  <2>3. fiber'.uid = ready[1].fiber.uid
    BY <2>1, <2>2, FiberTypes DEF QueueEntry
  <2>4. \A id, u : EntryOf(ready, id, u)' => EntryOf(ready, id, u)
    BY <2>1, <2>2 DEF EntryOf
  <2>5. ASSUME NEW id, NEW u, fiber'.frames, currentId' = id, fiber'.uid = u
        PROVE  EntryOf(ready, id, u)
    BY <2>1, <2>2, <2>3, <2>5 DEF EntryOf
  <2>6. \A i \in DOMAIN saved' : saved'[i].id = currentId /\ saved'[i].fiber = fiber
    BY <2>1 DEF Entry
  <2>7. \A id, u : (EntryOf(suspended, id, u)' => EntryOf(suspended, id, u))
                   /\ (EntryOf(parked, id, u)' => EntryOf(parked, id, u))
    BY <2>1 DEF EntryOf
  <2> QED
    BY <2>1, <2>4, <2>5, <2>6, <2>7 DEF SameHolders, Holder
<1> QED
  BY <1>2, <1>3, <1>4 DEF RunReady

\* A fiber that leaves the processor takes its identifier to the queue, or
\* none; the one set aside comes back under its own.
LEMMA ReleaseHolders ==
    ASSUME FiberInv, NEW f, ~f.frames, control \in {"main", "ready"}, Release(f)
    PROVE  /\ control' = "drain"
           /\ \A id, u :
                 \/ fiber'.frames /\ currentId' = id /\ fiber'.uid = u
                 \/ \E i \in DOMAIN saved' :
                       saved'[i].fiber.frames /\ saved'[i].id = id /\ saved'[i].fiber.uid = u
                 => Holder(id, u)
<1>1. Len(saved) = (IF control = "ready" THEN 1 ELSE 0) /\ saved \in Seq(QueueEntry)
  BY DEF FiberInv, TypeOK
<1>2. DOMAIN saved = 1..Len(saved)
  BY <1>1, LenProperties
<1>3. CASE control = "main"
  BY <1>3 DEF Release, Holder
<1>4. CASE control = "ready"
  <2>1. fiber' = saved[1].fiber /\ currentId' = saved[1].id /\ saved' = <<>> /\ 1 \in DOMAIN saved
    BY <1>1, <1>2, <1>4 DEF Release
  <2> QED
    BY <2>1 DEF Holder, Release
<1> QED
  BY <1>3, <1>4 DEF Release

\* The instructions that leave the processor, in a host without interpret and
\* call: await of a pending call, yield, wait and the last return.
LEMMA LeaveHolders ==
    ASSUME FiberInv, control # "sync", Leave
    PROVE  control' # "sync" /\ SameHolders
<1>1. /\ fiber \in Fiber /\ fiber.frames /\ suspended \in Queue
      /\ ~Empty.frames /\ control \in {"main", "ready"}
  BY FiberTypes
     DEF FiberInv, TypeOK, HoldersOK, Queue, Leave, AwaitPending, Yield, Wait, Finish, MayDo, Executing
<1>2. CASE AwaitPending
  <2>1. /\ parked' = Put(lastPending, Entry(currentId, [fiber EXCEPT !.state = "Parked"]))
        /\ Release(Empty) /\ UNCHANGED <<ready, suspended, nextId>>
    BY <1>2 DEF AwaitPending, counters
  <2>2. [fiber EXCEPT !.state = "Parked"].uid = fiber.uid
    BY <1>1 DEF Fiber
  <2>3. ASSUME NEW id, NEW u, EntryOf(parked, id, u)'
        PROVE  Holder(id, u)
    BY <1>1, <2>1, <2>2, <2>3 DEF EntryOf, Put, Entry, Holder
  <2>4. \A id, u : (EntryOf(ready, id, u)' => EntryOf(ready, id, u))
                   /\ (EntryOf(suspended, id, u)' => EntryOf(suspended, id, u))
    BY <2>1 DEF EntryOf
  <2> QED
    BY <1>1, <2>1, <2>3, <2>4, ReleaseHolders DEF SameHolders, Holder
<1>3. ASSUME NEW f, f.uid = fiber.uid, Suspend(f)
      PROVE  control' # "sync" /\ SameHolders
  <2>1. /\ suspended' = Append(suspended, Entry(currentId, f))
        /\ Release(Empty) /\ UNCHANGED <<ready, parked, nextId>>
    BY <1>1, <1>3 DEF Suspend, counters
  <2>2. ASSUME NEW id, NEW u, EntryOf(suspended, id, u)'
        PROVE  Holder(id, u)
    <3>1. EntryOf(Append(suspended, Entry(currentId, f)), id, u)
      BY <2>1, <2>2 DEF EntryOf
    <3> QED
      BY <1>1, <1>3, <3>1, EntryOfAppend DEF Entry, Holder
  <2>3. \A id, u : (EntryOf(ready, id, u)' => EntryOf(ready, id, u))
                   /\ (EntryOf(parked, id, u)' => EntryOf(parked, id, u))
    BY <2>1 DEF EntryOf
  <2> QED
    BY <1>1, <2>1, <2>2, <2>3, ReleaseHolders DEF SameHolders, Holder
<1>4. CASE Yield
  BY <1>1, <1>3, <1>4 DEF Yield, Fiber
<1>5. ASSUME NEW d \in 0..MaxWait, Wait(d)
      PROVE  control' # "sync" /\ SameHolders
  BY <1>1, <1>3, <1>5 DEF Wait, Fiber
<1>6. CASE Finish
  <2> DEFINE over == [fiber EXCEPT !.frames = FALSE, !.top = None]
  <2>1. /\ Release([over EXCEPT !.state = "Finished"])
        /\ UNCHANGED <<ready, suspended, parked, nextId>>
    BY <1>1, <1>6 DEF Finish, counters
  <2>2. ~[over EXCEPT !.state = "Finished"].frames
    BY <1>1 DEF Fiber
  <2>3. \A id, u : /\ EntryOf(ready, id, u)' => EntryOf(ready, id, u)
                   /\ EntryOf(suspended, id, u)' => EntryOf(suspended, id, u)
                   /\ EntryOf(parked, id, u)' => EntryOf(parked, id, u)
    BY <2>1 DEF EntryOf
  <2> QED
    BY <1>1, <2>1, <2>2, <2>3, ReleaseHolders DEF SameHolders, Holder
<1> QED
  BY <1>2, <1>4, <1>5, <1>6 DEF Leave

\* The other instructions, a runtime error included, move nobody.
LEMMA StayHolders ==
    ASSUME FiberInv, CallPending \/ PushValue \/ AwaitValue \/ Fail
    PROVE  SameHolders
<1>1. fiber' = fiber \/ \E top : fiber' = [fiber EXCEPT !.top = top]
  BY DEF CallPending, PushValue, AwaitValue, Fail
<1>2. fiber'.frames = fiber.frames /\ fiber'.uid = fiber.uid
  BY <1>1 DEF FiberInv, TypeOK, Fiber
<1>3. /\ UNCHANGED <<currentId, ready, suspended, parked, nextId>>
      /\ saved' = saved \/ saved' = <<>>
  BY DEF CallPending, PushValue, AwaitValue, Fail, queues, counters
<1> QED
  BY <1>2, <1>3 DEF SameHolders, Holder, EntryOf

\* For a host that does not use interpret and call: through every load, spawn,
\* park, promotion and error no two live fibers share a FiberId, so
\* cancel_fiber(id) ends the one that was meant.
THEOREM IdsAreDistinct == ~Sync => (Spec => []IdsDistinct)
<1> SUFFICES ASSUME ~Sync PROVE Spec => []IdsDistinct
  OBVIOUS
<1>1. Init => IdInv
  BY FiberTypes DEF Init, IdInv, Holder, EntryOf
<1>2. IInv /\ IdInv /\ [Next]_vars => IdInv'
  <2> SUFFICES ASSUME FiberInv, IdInv, [Next]_vars PROVE IdInv'
    BY DEF IInv
  <2>1. TypeOK /\ control # "sync"
    BY DEF FiberInv, IdInv
  <2>2. CASE UNCHANGED vars
    BY <2>2 DEF vars, queues, counters, IdInv, Holder, EntryOf
  <2>3. CASE Load \/ SpawnClosure \/ Spawn
    BY <2>1, <2>3, CreateHolders, HoldersKept DEF Load, SpawnClosure, Spawn
  <2>4. CASE Interpret \/ CallIn
    BY <2>4 DEF Interpret, CallIn
  <2>5. ASSUME NEW t \in Token, Resume(t) PROVE IdInv'
    BY <2>1, <2>5, ResumeHolders, HoldersKept DEF Resume
  <2>6. ASSUME NEW id \in FiberId, CancelFiber(id) PROVE IdInv'
    BY <2>1, <2>6, CancelHolders, HoldersKept DEF CancelFiber
  <2>7. ASSUME NEW dt \in Deltas, Promote(dt) PROVE IdInv'
    BY <2>1, <2>7, PromoteHolders, HoldersKept DEF Promote
  <2>8. CASE RunReady
    <3>1. control' # "sync"
      BY <2>8 DEF RunReady, StartMain, SkipMain, TakeReady, EndRun
    <3> QED
      BY <2>1, <2>8, <3>1, RunHolders, HoldersKept
  <2>9. CASE Leave
    BY <2>1, <2>9, LeaveHolders, HoldersKept
  <2>10. CASE CallPending \/ PushValue \/ AwaitValue \/ Fail
    <3>1. control' # "sync"
      BY <2>1, <2>10 DEF CallPending, PushValue, AwaitValue, Fail
    <3> QED
      BY <2>1, <2>10, <3>1, StayHolders, HoldersKept
  <2>11. CASE AwaitPendingSync
    BY <2>1, <2>11 DEF AwaitPendingSync
  <2> QED
    BY <2>2, <2>3, <2>4, <2>5, <2>6, <2>7, <2>8, <2>9, <2>10, <2>11 DEF Next, Host, Script
<1>3. IdInv => IdsDistinct
  BY DEF IdInv, IdsDistinct, Holder, EntryOf
<1> QED
  BY <1>1, <1>2, <1>3, InvariantHolds, PTL DEF Spec

-----------------------------------------------------------------------------
(* The operation a fiber parks on.                                         *)

\* A noted pending call is the one the executing fiber made just before.
CallInv ==
    /\ ParksForOwnCall
    /\ lastPending # None => Executing /\ fiber.top = lastPending

\* In scripts that await every async native at its call, and fail nowhere
\* between: what a fiber parks on is the call whose placeholder is on top of its
\* stack, so the answer that resume puts there replaces that call's value.
THEOREM ParksOnOwnCall == AwaitDirectly /\ ~MayFail => (Spec => []ParksForOwnCall)
<1> SUFFICES ASSUME AwaitDirectly, ~MayFail PROVE Spec => []ParksForOwnCall
  OBVIOUS
<1> USE DEF None
<1>1. Init => CallInv
  BY DEF Init, CallInv, ParksForOwnCall
<1>2. IInv /\ CallInv /\ [Next]_vars => CallInv'
  <2> SUFFICES ASSUME FiberInv, CallInv, [Next]_vars PROVE CallInv'
    BY DEF IInv
  <2>1. fiber \in Fiber /\ nextToken \in Nat /\ nextToken # 0
    BY BoundsAssumption DEF FiberInv, TypeOK
  <2>2. ASSUME UNCHANGED <<lastPending, parked>>, lastPending = None PROVE CallInv'
    BY <2>2 DEF CallInv, ParksForOwnCall
  <2>3. MayDo \/ ~Executing => lastPending = None
    BY DEF CallInv, MayDo
  <2>4. CASE UNCHANGED vars
    BY <2>4 DEF vars, queues, CallInv, ParksForOwnCall, Executing
  <2>5. CASE Host
    <3>1. lastPending = None
      BY <2>3, <2>5 DEF Host, Load, SpawnClosure, Interpret, CallIn, Resume, CancelFiber,
                        Promote, Executing
    <3>2. CASE UNCHANGED <<lastPending, parked>>
      BY <2>2, <3>1, <3>2
    <3>3. ASSUME NEW t \in Token, lastPending' = lastPending, parked' = Without(t) PROVE CallInv'
      BY <3>1, <3>3 DEF CallInv, ParksForOwnCall, Without
    <3>4. ASSUME NEW id \in FiberId, CancelFiber(id) PROVE CallInv'
      BY <3>1, <3>4 DEF CancelFiber, AfterCancel, Without, CallInv, ParksForOwnCall
    <3> QED
      BY <2>5, <3>2, <3>3, <3>4
         DEF Host, Load, SpawnClosure, Interpret, CallIn, Resume, Promote, queues
  <2>6. CASE RunReady
    BY <2>2, <2>3, <2>6 DEF RunReady, StartMain, SkipMain, TakeReady, EndRun, Executing, queues
  <2>7. CASE Spawn \/ PushValue \/ Yield \/ Finish \/ \E d \in 0..MaxWait : Wait(d)
    <3>1. MayDo /\ UNCHANGED <<lastPending, parked>>
      BY <2>7 DEF Spawn, PushValue, Yield, Finish, Wait, Suspend, queues
    <3> QED
      BY <2>2, <2>3, <3>1
  <2>8. CASE AwaitValue
    BY <2>2, <2>8 DEF AwaitValue, queues
  <2>9. CASE CallPending
    <3>1. /\ lastPending' = nextToken /\ fiber' = [fiber EXCEPT !.top = nextToken]
          /\ UNCHANGED <<parked, control>> /\ Executing
      BY <2>9 DEF CallPending, MayDo, queues
    <3>2. fiber'.top = nextToken
      BY <2>1, <3>1 DEF Fiber
    <3> QED
      BY <3>1, <3>2 DEF CallInv, ParksForOwnCall, Executing
  <2>10. CASE AwaitPending
    <3>1. /\ parked' = Put(lastPending, Entry(currentId, [fiber EXCEPT !.state = "Parked"]))
          /\ lastPending' = None /\ lastPending # None
      BY <2>10 DEF AwaitPending, PendingTaken
    <3>2. [fiber EXCEPT !.state = "Parked"].top = lastPending
      BY <2>1, <3>1 DEF Fiber, CallInv
    <3> QED
      BY <3>1, <3>2 DEF CallInv, ParksForOwnCall, Put, Entry
  <2>11. CASE AwaitPendingSync
    BY <2>11 DEF AwaitPendingSync, PendingTaken, queues, CallInv, ParksForOwnCall
  <2>12. CASE Fail
    BY <2>12 DEF Fail
  <2> QED
    BY <2>4, <2>5, <2>6, <2>7, <2>8, <2>9, <2>10, <2>11, <2>12 DEF Next, Script, Leave
<1>3. CallInv => ParksForOwnCall
  BY DEF CallInv
<1> QED
  BY <1>1, <1>2, <1>3, InvariantHolds, PTL DEF Spec
=============================================================================
