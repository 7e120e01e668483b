--------------------------- MODULE FiberLifecycle ---------------------------
(***************************************************************************)
(* The life of a fiber of ni_vm, as a script author and a host see it: no  *)
(* queues, no main slot, no pending call kept on the side.  At most one    *)
(* fiber runs; a fiber leaves the processor only by its own doing; one that*)
(* waits for a pending operation comes back only through the answer to that*)
(* operation, and an operation is answered at most once; an ended fiber    *)
(* stays ended.  FiberScheduler implements this specification.             *)
(***************************************************************************)
EXTENDS Naturals

CONSTANTS MaxFibers,      \* bound: fibers ever created
          MaxTokens       \* bound: pending operations

VARIABLES status,         \* what became of every fiber
          waitsFor,       \* the operation a parked fiber waits for, 0 for the others
          spent           \* operations some fiber parked on already

vars == <<status, waitsFor, spent>>

Fiber == 1..MaxFibers
Token == 1..MaxTokens

\* "stranded" is a fiber a synchronous call left suspended: no queue has it.
Waiting == {"ready", "suspended", "parked", "stranded"}
Ended == {"finished", "cancelled", "discarded"}

Init ==
    /\ status = [u \in Fiber |-> "unborn"]
    /\ waitsFor = [u \in Fiber |-> 0]
    /\ spent = {}

NobodyRuns == \A u \in Fiber : status[u] # "running"

Move(u, from, to) ==
    /\ status[u] \in from
    /\ status' = [status EXCEPT ![u] = to]
    /\ UNCHANGED <<waitsFor, spent>>

Create(u) == Move(u, {"unborn"}, "ready")

\* A host loads or interprets a program over one that still was there.
Replace(old, u, to) ==
    /\ status[old] \in {"ready", "stranded"} /\ status[u] = "unborn"
    /\ status' = [status EXCEPT ![old] = "discarded", ![u] = to]
    /\ UNCHANGED <<waitsFor, spent>>

Start(u) == Move(u, {"ready", "stranded", "unborn"}, "running")

Finish(u) == Move(u, {"running"}, "finished")

Suspend(u) == Move(u, {"running"}, "suspended") \/ Move(u, {"running"}, "stranded")

\* A runtime error stops the fiber where it is; it may take a stranded one along.
Stop(u) ==
    \/ Move(u, {"running"}, "ready")
    \/ \E v \in Fiber :
         /\ status[u] = "running" /\ status[v] = "stranded"
         /\ status' = [status EXCEPT ![u] = "ready", ![v] = "discarded"]
         /\ UNCHANGED <<waitsFor, spent>>

Park(u, t) ==
    /\ status[u] = "running" /\ t \notin spent
    /\ status' = [status EXCEPT ![u] = "parked"]
    /\ waitsFor' = [waitsFor EXCEPT ![u] = t]
    /\ spent' = spent \cup {t}

Answer(u, t) ==
    /\ status[u] = "parked" /\ waitsFor[u] = t
    /\ status' = [status EXCEPT ![u] = "ready"]
    /\ waitsFor' = [waitsFor EXCEPT ![u] = 0]
    /\ UNCHANGED spent

\* run_ready promotes, in one go, every fiber whose time has come.
Wake(S) ==
    /\ status' = [u \in Fiber |-> IF u \in S THEN "ready" ELSE status[u]]
    /\ UNCHANGED <<waitsFor, spent>>

Cancel(u) ==
    /\ status[u] \in {"ready", "suspended", "parked"}
    /\ status' = [status EXCEPT ![u] = "cancelled"]
    /\ waitsFor' = [waitsFor EXCEPT ![u] = 0]
    /\ UNCHANGED spent

\* While a fiber runs only its own steps, and fibers it spawns, are seen.
Alone ==
    \/ \E u \in Fiber : Start(u) \/ Cancel(u)
    \/ \E u, old \in Fiber : Replace(old, u, "ready") \/ Replace(old, u, "running")
    \/ \E u \in Fiber, t \in Token : Answer(u, t)
    \/ \E S \in SUBSET {u \in Fiber : status[u] = "suspended"} : Wake(S)

Running ==
    \/ \E u \in Fiber : Finish(u) \/ Suspend(u) \/ Stop(u)
    \/ \E u \in Fiber, t \in Token : Park(u, t)

Next ==
    \/ \E u \in Fiber : Create(u)
    \/ NobodyRuns /\ Alone
    \/ ~NobodyRuns /\ Running

Spec == Init /\ [][Next]_vars
=============================================================================
