--------------------------- MODULE FiberScheduler ---------------------------
(***************************************************************************)
(* The fiber scheduler of ni_vm (src/crates/ni_vm/src/vm.rs): the main     *)
(* slot self.fiber, the ready, suspended and parked queues, last_pending,  *)
(* run_ready, resume, cancel_fiber, load, spawn_closure, and the           *)
(* synchronous interpret and call, together with the instructions that     *)
(* reach the scheduler: spawn, yield, wait, a native call that returns     *)
(* Pending, await, the return of the last frame, and a runtime error.      *)
(*                                                                         *)
(* Scripts are every sequence of those instructions.  Stacks and frames    *)
(* are left out but for two facts: whether the fiber has frames, and       *)
(* whether its top of stack is the placeholder of a pending call.          *)
(***************************************************************************)
EXTENDS Integers, Sequences, FiniteSets, SequencesExt

CONSTANTS MaxFibers,        \* bound: fibers created
          MaxTokens,        \* bound: PendingTokens created
          MaxWait,          \* bound: the argument of wait
          Deltas,           \* what run_ready is called with
          Sync,             \* does the host also use interpret() and call()?
          MayFail,          \* do scripts meet runtime errors (limits, fail, asserts)?
          AwaitDirectly     \* do scripts await every async native right at its call?

ASSUME BoundsAssumption ==
    MaxFibers \in Nat \ {0} /\ MaxTokens \in Nat /\ MaxWait \in Nat
ASSUME DeltasAssumption == Deltas \subseteq Nat
ASSUME EnvironmentAssumption ==
    Sync \in BOOLEAN /\ MayFail \in BOOLEAN /\ AwaitDirectly \in BOOLEAN

Uid == 1..MaxFibers             \* ghost: which fiber it is
FiberId == 1..(MaxFibers + 1)   \* FiberId; Vm::new takes one for itself
Token == 1..MaxTokens
None == 0                       \* no token

\* struct Fiber.  uid, asked and slept are ghosts: asked is what wait() asked
\* for, slept the time run_ready was told since.  top is the token whose
\* placeholder is on top of the stack, None for any other value.
Fiber == [uid : 0..MaxFibers, frames : BOOLEAN,
          state : {"Created", "Running", "Suspended", "Parked", "Finished"},
          timer : 0..MaxWait, top : 0..MaxTokens, asked : 0..MaxWait, slept : 0..MaxWait]

Empty == [uid |-> 0, frames |-> FALSE, state |-> "Finished", timer |-> 0,
          top |-> None, asked |-> 0, slept |-> 0]

NewFiber(u) == [Empty EXCEPT !.uid = u, !.frames = TRUE, !.state = "Created"]

Entry(id, f) == [id |-> id, fiber |-> f]
QueueEntry == [id : FiberId, fiber : Fiber]

VARIABLES fiber,            \* self.fiber
          currentId,        \* self.current_fiber_id
          saved,            \* <<saved_main with saved_id>> while a ready fiber runs, else <<>>
          ready,            \* self.ready_fibers
          suspended,        \* self.suspended_fibers
          parked,           \* self.parked_fibers: [token -> entry]
          finished,         \* self.finished_fibers
          lastPending,      \* self.last_pending
          control,          \* which code runs
          nextId,           \* FIBER_ID_COUNTER
          nextToken,        \* PENDING_TOKEN_COUNTER
          fate,             \* ghost: what happened to every fiber
          caller,           \* ghost: the fiber whose call lastPending is of, 0 if none
          told,             \* ghost: tokens passed to on_pending
          settled           \* ghost: tokens resumed, or passed to on_cancel

queues == <<ready, suspended, parked, finished>>
counters == <<nextId, nextToken>>
io == <<caller, told, settled>>
vars == <<fiber, currentId, saved, queues, lastPending, control, counters, fate, io>>

\* "host": no call into the VM.  "begin", "drain": inside run_ready.  "main",
\* "ready": run_ready executes the main fiber, or one of the ready queue.
\* "sync": interpret or call executes.
Executing == control \in {"main", "ready", "sync"}

Init ==
    /\ fiber = Empty
    /\ currentId = 1
    /\ saved = <<>>
    /\ ready = <<>> /\ suspended = <<>> /\ finished = <<>>
    /\ parked = [t \in {} |-> 0]
    /\ lastPending = None
    /\ control = "host"
    /\ nextId = 2
    /\ nextToken = 1
    /\ fate = [u \in Uid |-> "unborn"]
    /\ caller = 0 /\ told = {} /\ settled = {}

Unborn == {u \in Uid : fate[u] = "unborn"}
NewUid == CHOOSE u \in Unborn : \A v \in Unborn : u <= v

Put(t, e) == [s \in DOMAIN parked \cup {t} |-> IF s = t THEN e ELSE parked[s]]
Without(t) == [s \in DOMAIN parked \ {t} |-> parked[s]]

-----------------------------------------------------------------------------
(* The host, between two calls into run_ready.                             *)

\* A fiber still in the main slot is overwritten by load and by interpret.
MainHeld == fiber.frames
Born(u) == [fate EXCEPT ![u] = "alive"]
BornOver(u) == IF MainHeld THEN [Born(u) EXCEPT ![fiber.uid] = "discarded"] ELSE Born(u)

KeptId == currentId                                         \* mutant: the id of the last main
LoadId == nextId

Load ==
    /\ control = "host" /\ Unborn # {}
    /\ fiber' = NewFiber(NewUid)
    /\ currentId' = LoadId /\ nextId' = nextId + 1
    /\ fate' = BornOver(NewUid)
    /\ UNCHANGED <<saved, queues, lastPending, control, nextToken, io>>

\* spawn_closure and spawn_call
SpawnClosure ==
    /\ control = "host" /\ Unborn # {}
    /\ ready' = Append(ready, Entry(nextId, NewFiber(NewUid)))
    /\ nextId' = nextId + 1
    /\ fate' = Born(NewUid)
    /\ UNCHANGED <<fiber, currentId, saved, suspended, parked, finished, lastPending,
                   control, nextToken, io>>

\* resume(token, value).  For a token no fiber is parked on the call is an error
\* and changes nothing.
Resume(t) ==
    /\ control = "host"
    /\ t \in DOMAIN parked
    /\ parked' = Without(t)
    /\ ready' = Append(ready, [parked[t] EXCEPT !.fiber.top = None, !.fiber.state = "Created"])
    /\ settled' = settled \cup {t}
    /\ UNCHANGED <<fiber, currentId, saved, suspended, finished, lastPending, control,
                   counters, fate, caller, told>>

PositionsOf(queue, id) == {i \in DOMAIN queue : queue[i].id = id}
FirstOf(queue, id) == CHOOSE i \in PositionsOf(queue, id) :
                          \A j \in PositionsOf(queue, id) : i <= j
CancelledAt(e) == [fate EXCEPT ![e.fiber.uid] = "cancelled"]

\* mutant: the parked fiber is told off but not removed
KeepParked(t) == parked
AfterCancel(t) == Without(t)

\* mutant: the IoProvider is not told
NotTold(t) == settled
SettledByCancel(t) == settled \cup {t}

\* cancel_fiber(id): the first match in ready, else in suspended, else any in
\* parked.  The main slot is not looked at.
CancelFiber(id) ==
    /\ control = "host"
    /\ \/ /\ PositionsOf(ready, id) # {}
          /\ LET i == FirstOf(ready, id)
             IN  ready' = RemoveAt(ready, i) /\ fate' = CancelledAt(ready[i])
          /\ UNCHANGED <<suspended, parked, settled>>
       \/ /\ PositionsOf(ready, id) = {} /\ PositionsOf(suspended, id) # {}
          /\ LET i == FirstOf(suspended, id)
             IN  suspended' = RemoveAt(suspended, i) /\ fate' = CancelledAt(suspended[i])
          /\ UNCHANGED <<ready, parked, settled>>
       \/ /\ PositionsOf(ready, id) = {} /\ PositionsOf(suspended, id) = {}
          /\ \E t \in DOMAIN parked :
               /\ parked[t].id = id
               /\ parked' = AfterCancel(t)
               /\ settled' = SettledByCancel(t)
               /\ fate' = CancelledAt(parked[t])
          /\ UNCHANGED <<ready, suspended>>
    /\ UNCHANGED <<fiber, currentId, saved, finished, lastPending, control, counters, caller, told>>

\* interpret(closure): a new main fiber, run at once, under the id of the last one.
Interpret ==
    /\ Sync /\ control = "host" /\ Unborn # {}
    /\ fiber' = [NewFiber(NewUid) EXCEPT !.state = "Running"]
    /\ fate' = BornOver(NewUid)
    /\ control' = "sync"
    /\ UNCHANGED <<currentId, saved, queues, lastPending, counters, io>>

\* call(callable, args): one more frame on whatever self.fiber is.  Frames left
\* there by an earlier failure are run on when the callable has returned.
CallIn ==
    /\ Sync /\ control = "host"
    /\ IF MainHeld
       THEN fiber' = [fiber EXCEPT !.top = None, !.asked = 0, !.slept = 0] /\ UNCHANGED fate
       ELSE /\ Unborn # {}
            /\ fiber' = [fiber EXCEPT !.uid = NewUid, !.frames = TRUE, !.top = None]
            /\ fate' = Born(NewUid)
    /\ control' = "sync"
    /\ UNCHANGED <<currentId, saved, queues, lastPending, counters, io>>

-----------------------------------------------------------------------------
(* run_ready(delta_time).                                                  *)

Lesser(a, b) == IF a <= b THEN a ELSE b

\* The timer reaches zero within dt; a fiber that yielded has none.
DueEarly(e, dt) == e.fiber.timer <= dt + 1                  \* mutant: off by one
Due(e, dt) == e.fiber.timer <= dt

SleptOn(e, dt) == [e EXCEPT !.fiber.slept = IF e.fiber.asked = 0 THEN 0
                                            ELSE Lesser(@ + dt, MaxWait)]
Promoted(e, dt) == [SleptOn(e, dt) EXCEPT !.fiber.timer = 0, !.fiber.state = "Created"]
NotTicked(e, dt) == SleptOn(e, dt)                          \* mutant: the timer stands
Ticked(e, dt) == [SleptOn(e, dt) EXCEPT !.fiber.timer = @ - dt]

\* The entries of queue at the positions in P, in their order.
Rank(P, i) == Cardinality({j \in P : j <= i})
Picked(queue, P) ==
    [k \in 1..Cardinality(P) |-> queue[CHOOSE i \in P : Rank(P, i) = k]]

\* The loop over suspended_fibers: who is due goes behind the ready ones, in order.
DueAt(dt) == {i \in DOMAIN suspended : Due(suspended[i], dt)}
Promote(dt) ==
    LET due == Picked(suspended, DueAt(dt))
        others == Picked(suspended, DOMAIN suspended \ DueAt(dt))
    IN  /\ control = "host"
        /\ control' = "begin"
        /\ ready' = ready \o [i \in DOMAIN due |-> Promoted(due[i], dt)]
        /\ suspended' = [i \in DOMAIN others |-> Ticked(others[i], dt)]
        /\ UNCHANGED <<fiber, currentId, saved, parked, finished, lastPending, counters,
                       fate, io>>

MainIsReady == fiber.frames /\ fiber.state \notin {"Parked", "Suspended"}

Running(f) == [f EXCEPT !.state = "Running", !.asked = 0, !.slept = 0]

StartMain ==
    /\ control = "begin" /\ MainIsReady
    /\ fiber' = Running(fiber)
    /\ control' = "main"
    /\ UNCHANGED <<currentId, saved, queues, lastPending, counters, fate, io>>

SkipMain ==
    /\ control = "begin" /\ ~MainIsReady
    /\ control' = "drain"
    /\ UNCHANGED <<fiber, currentId, saved, queues, lastPending, counters, fate, io>>

TakeReady ==
    /\ control = "drain" /\ ready # <<>>
    /\ saved' = <<Entry(currentId, fiber)>>
    /\ fiber' = Running(Head(ready).fiber)
    /\ currentId' = Head(ready).id
    /\ ready' = Tail(ready)
    /\ control' = "ready"
    /\ UNCHANGED <<suspended, parked, finished, lastPending, counters, fate, io>>

\* The VmStatus run_ready returns once the queue is drained.
MainRuns == fiber.frames /\ fiber.state = "Running"         \* mutant: not a suspended one
MainActive == fiber.frames /\ fiber.state # "Finished"
Status ==
    CASE suspended # <<>> -> "Suspended"
      [] suspended = <<>> /\ DOMAIN parked = {} /\ ~MainActive -> "AllDone"
      [] suspended = <<>> /\ DOMAIN parked # {} /\ ~MainActive -> "AllParked"
      [] OTHER -> "Mixed"

EndRun ==
    /\ control = "drain" /\ ready = <<>>
    /\ control' = "host"
    /\ UNCHANGED <<fiber, currentId, saved, queues, lastPending, counters, fate, io>>

-----------------------------------------------------------------------------
(* The instructions that reach the scheduler, run by run_fiber.            *)

\* With AwaitDirectly the instruction after an async native call is its await.
MayDo == Executing /\ ~(AwaitDirectly /\ fiber.top # None)

\* The executing fiber is gone from self.fiber, f is left there: run_ready goes
\* on to drain the queue.  The main fiber comes back from saved_main.
Release(f) ==
    /\ control' = "drain"
    /\ IF control = "main"
       THEN fiber' = f /\ UNCHANGED <<currentId, saved>>
       ELSE fiber' = saved[1].fiber /\ currentId' = saved[1].id /\ saved' = <<>>

\* interpret or call returns to the host, self.fiber stays as it is now.
ReturnToHost(f) == control' = "host" /\ fiber' = f /\ UNCHANGED <<currentId, saved>>

Spawn ==
    /\ MayDo /\ Unborn # {}
    /\ ready' = Append(ready, Entry(nextId, NewFiber(NewUid)))
    /\ nextId' = nextId + 1
    /\ fate' = Born(NewUid)
    /\ UNCHANGED <<fiber, currentId, saved, suspended, parked, finished, lastPending,
                   control, nextToken, io>>

\* A native returns Pending: its token is noted for the next await of anyone,
\* None is pushed as a placeholder.
CallPending ==
    /\ MayDo /\ nextToken <= MaxTokens
    /\ lastPending' = nextToken
    /\ fiber' = [fiber EXCEPT !.top = nextToken]
    /\ nextToken' = nextToken + 1
    /\ caller' = fiber.uid
    /\ UNCHANGED <<currentId, saved, queues, control, nextId, fate, told, settled>>

\* Any instruction that puts an ordinary value on top.
PushValue ==
    /\ MayDo /\ fiber.top # None
    /\ fiber' = [fiber EXCEPT !.top = None]
    /\ UNCHANGED <<currentId, saved, queues, lastPending, control, counters, fate, io>>

\* await with no pending call noted: the value on top is the result.
AwaitValue ==
    /\ Executing /\ lastPending = None
    /\ fiber' = [fiber EXCEPT !.top = None]
    /\ UNCHANGED <<currentId, saved, queues, lastPending, control, counters, fate, io>>

\* mutant: the token is copied, not taken
PendingKept == lastPending
PendingTaken == None

\* mutant: on_pending is not called
NobodyTold == told
ToldOfPending == told \cup {lastPending}

\* await with a pending call noted: park, and tell the IoProvider.
AwaitPending ==
    /\ Executing /\ lastPending # None
    /\ control # "sync"
    /\ parked' = Put(lastPending, Entry(currentId, [fiber EXCEPT !.state = "Parked"]))
    /\ told' = ToldOfPending
    /\ lastPending' = PendingTaken /\ caller' = 0
    /\ Release(Empty)
    /\ UNCHANGED <<ready, suspended, finished, counters, fate, settled>>

\* The same under interpret or call is an error; the token is forgotten.
AwaitPendingSync ==
    /\ control = "sync" /\ lastPending # None
    /\ lastPending' = PendingTaken /\ caller' = 0
    /\ ReturnToHost([fiber EXCEPT !.top = None])
    /\ UNCHANGED <<queues, counters, fate, told, settled>>

\* mutant: a fiber that yields or waits goes behind the ready ones at once
SuspendReady(f) ==
    /\ IF control = "sync"
       THEN ReturnToHost(f) /\ UNCHANGED ready
       ELSE Release(Empty) /\ ready' = Append(ready, Entry(currentId, f))
    /\ UNCHANGED <<suspended, parked, finished, lastPending, counters, fate, io>>

\* yield and wait leave a suspended fiber: in the queue, or, under interpret
\* and call, in the main slot.
Suspend(f) ==
    /\ IF control = "sync"
       THEN ReturnToHost(f) /\ UNCHANGED suspended
       ELSE Release(Empty) /\ suspended' = Append(suspended, Entry(currentId, f))
    /\ UNCHANGED <<ready, parked, finished, lastPending, counters, fate, io>>

Yield == MayDo /\ Suspend([fiber EXCEPT !.state = "Suspended", !.top = None])

Wait(d) ==
    /\ MayDo
    /\ Suspend([fiber EXCEPT !.state = "Suspended", !.top = None, !.timer = d, !.asked = d])

\* mutants: the result is reported twice; it is not reported
ReportTwice(e) == Append(Append(finished, e), e)
Report(e) == Append(finished, e)

\* The last frame returns.  interpret and call hand the result back themselves.
Finish ==
    LET over == [fiber EXCEPT !.frames = FALSE, !.top = None]
    IN  /\ MayDo
        /\ fate' = [fate EXCEPT ![fiber.uid] = "finished"]
        /\ IF control = "sync"
           THEN ReturnToHost(over) /\ UNCHANGED finished
           ELSE /\ Release([over EXCEPT !.state = "Finished"])
                /\ finished' = Report([id |-> currentId, uid |-> fiber.uid])
        /\ UNCHANGED <<ready, suspended, parked, lastPending, counters, io>>

\* A runtime error: run_fiber()? leaves run_ready at once.  The failed fiber
\* stays in self.fiber; if it came from the queue, saved_main is dropped.
Fail ==
    /\ MayFail /\ Executing
    /\ control' = "host"
    /\ saved' = <<>>
    /\ fate' = IF saved # <<>> /\ saved[1].fiber.frames
               THEN [fate EXCEPT ![saved[1].fiber.uid] = "discarded"]
               ELSE fate
    /\ UNCHANGED <<fiber, currentId, queues, lastPending, counters, io>>

-----------------------------------------------------------------------------
Host ==
    \/ Load \/ SpawnClosure \/ Interpret \/ CallIn
    \/ \E t \in Token : Resume(t)
    \/ \E id \in FiberId : CancelFiber(id)
    \/ \E dt \in Deltas : Promote(dt)

RunReady == StartMain \/ SkipMain \/ TakeReady \/ EndRun

Leave == AwaitPending \/ Yield \/ (\E d \in 0..MaxWait : Wait(d)) \/ Finish

Script == Spawn \/ CallPending \/ PushValue \/ AwaitValue \/ AwaitPendingSync \/ Leave \/ Fail

Next == Host \/ RunReady \/ Script

Spec == Init /\ [][Next]_vars

\* run_ready goes on while there is anything ready, every script leaves the
\* processor again (one that would not meets the instruction limit), the host
\* ticks with time passing and answers every pending operation.
Fairness ==
    /\ WF_vars(RunReady) /\ WF_vars(Leave)
    /\ SF_vars(\E dt \in Deltas \ {0} : Promote(dt))
    /\ \A t \in Token : SF_vars(Resume(t))

-----------------------------------------------------------------------------
(* Properties.                                                             *)

TypeOK ==
    /\ fiber \in Fiber /\ currentId \in FiberId
    /\ saved \in Seq(QueueEntry) /\ ready \in Seq(QueueEntry) /\ suspended \in Seq(QueueEntry)
    /\ DOMAIN parked \subseteq Token /\ parked \in [DOMAIN parked -> QueueEntry]
    /\ finished \in Seq([id : FiberId, uid : Uid])
    /\ lastPending \in 0..MaxTokens
    /\ control \in {"host", "begin", "drain", "main", "ready", "sync"}
    /\ Len(saved) = IF control = "ready" THEN 1 ELSE 0
    /\ nextId \in FiberId \cup {MaxFibers + 2} /\ nextToken \in 1..(MaxTokens + 1)
    /\ fate \in [Uid -> {"unborn", "alive", "finished", "cancelled", "discarded"}]
    /\ caller \in 0..MaxFibers
    /\ told \subseteq Token /\ settled \subseteq told

\* Where a fiber that still has frames is.
InMain(u) == fiber.frames /\ fiber.uid = u
InSaved(u) == \E i \in DOMAIN saved : saved[i].fiber.frames /\ saved[i].fiber.uid = u
InQueue(queue, u) == {i \in DOMAIN queue : queue[i].fiber.uid = u}
ParkedOn(u) == {t \in DOMAIN parked : parked[t].fiber.uid = u}

Places(u) ==
    (IF InMain(u) THEN 1 ELSE 0) + (IF InSaved(u) THEN 1 ELSE 0)
    + Cardinality(InQueue(ready, u)) + Cardinality(InQueue(suspended, u))
    + Cardinality(ParkedOn(u))

\* No fiber is lost and none runs twice: through spawns, promotions, parks,
\* late resumes, cancellations and errors that cut a run_ready short, a live
\* fiber is in exactly one of the main slot, saved_main and the queues, and an
\* ended one (finished, cancelled, replaced by the host) in none.
OnePlace == \A u \in Uid : Places(u) = IF fate[u] = "alive" THEN 1 ELSE 0

NoFalseReport ==
    /\ \A i \in DOMAIN finished : fate[finished[i].uid] = "finished"
    /\ \A i, j \in DOMAIN finished : finished[i].uid = finished[j].uid => i = j
Reported(u) == \E i \in DOMAIN finished : finished[i].uid = u

\* finished_fibers reports only fibers that ran to their end, each once.  Where
\* the host leaves interpret and call alone, which hand the result back and
\* report nothing, it reports all of them.
FinishedOnce ==
    /\ NoFalseReport
    /\ ~Sync => \A u \in Uid : fate[u] = "finished" => Reported(u)

\* The operations the IoProvider has been told of by on_pending, and neither
\* resumed nor been told to clean up by on_cancel, are those some fiber is
\* parked on: none leaks, none is answered or cancelled twice.
IoLedger == told \ settled = DOMAIN parked

\* A fiber that asked to wait is never run before run_ready was told of that
\* much time, and not kept suspended once it was.
WaitsAsAsked ==
    /\ \A i \in DOMAIN ready : ready[i].fiber.slept >= ready[i].fiber.asked
    /\ \A i \in DOMAIN suspended :
          suspended[i].fiber.asked > 0 => suspended[i].fiber.slept < suspended[i].fiber.asked

\* A host loop may trust what run_ready returns: it stops on AllDone only when
\* no fiber is left anywhere, waits for I/O on AllParked only when nothing but
\* answers can make progress, and ticks on Suspended for a reason.
StatusTruthful ==
    control = "drain" /\ ready = <<>> =>
        /\ Status = "AllDone" <=> \A u \in Uid : fate[u] # "alive"
        /\ Status = "AllParked" => \A u \in Uid : fate[u] = "alive" => ParkedOn(u) # {}
        /\ Status = "Suspended" => suspended # <<>>

\* Scripts that await every async native at its call park only there, so that
\* the answer replaces the placeholder of that call: never on a plain value.
ParksForOwnCall == \A t \in DOMAIN parked : parked[t].fiber.top = t

\* "await on a plain value is a no-op": a fiber parks only for calls it made
\* itself, whether or not other fibers await theirs.
ParksForNoOther ==
    [][DOMAIN parked' \subseteq DOMAIN parked \/ caller = fiber.uid]_vars

\* FiberId is a "unique identifier for a fiber": no two live fibers share one,
\* so cancel_fiber ends the one that was meant.
IdsDistinct ==
    LET held == (IF fiber.frames THEN {<<currentId, fiber.uid>>} ELSE {})
                \cup {<<saved[i].id, saved[i].fiber.uid>> : i \in {j \in DOMAIN saved : saved[j].fiber.frames}}
                \cup {<<ready[i].id, ready[i].fiber.uid>> : i \in DOMAIN ready}
                \cup {<<suspended[i].id, suspended[i].fiber.uid>> : i \in DOMAIN suspended}
                \cup {<<parked[t].id, parked[t].fiber.uid>> : t \in DOMAIN parked}
    IN  \A p, q \in held : p[1] = q[1] => p[2] = q[2]

\* A runtime error (instruction limit, memory limit, uncaught fail) "terminates
\* the fiber": one whose execution an error cut short (its state is still
\* Running) is not executed again by a later run_ready.
ErrorTerminates ==
    [][control = "begin" /\ control' = "main" => fiber.state # "Running"]_vars

Executes(u) == Executing /\ fiber.uid = u

\* What the scheduler state says of a fiber's life.
StatusOf(u) ==
    IF fate[u] # "alive" THEN fate[u]
    ELSE IF Executes(u) THEN "running"
    ELSE IF InQueue(suspended, u) # {} THEN "suspended"
    ELSE IF ParkedOn(u) # {} THEN "parked"
    ELSE IF \/ InMain(u) /\ fiber.state = "Suspended"
            \/ InSaved(u) /\ saved[1].fiber.state = "Suspended"
         THEN "stranded" ELSE "ready"

\* The operation fiber u is parked on.
WaitsFor(u) == IF ParkedOn(u) = {} THEN 0 ELSE CHOOSE t \in ParkedOn(u) : TRUE

Lifecycle == INSTANCE FiberLifecycle WITH
    status <- [u \in Uid |-> StatusOf(u)],
    waitsFor <- [u \in Uid |-> WaitsFor(u)],
    spent <- told

\* To scripts and hosts the queues, the main slot, saved_main and last_pending
\* never show: every step is a step of a fiber's life.
ImplementsLifecycle == Lifecycle!Spec
=============================================================================
