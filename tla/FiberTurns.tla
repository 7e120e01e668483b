------------------------------ MODULE FiberTurns ------------------------------
(***************************************************************************)
(* Turns of the fibers (src/crates/ni_vm/src/vm.rs, run_ready) when there  *)
(* is no end to the fibers that are spawned.  The steps are those of       *)
(* FiberScheduler; what is over is forgotten as soon as it is, so that     *)
(* MaxFibers bounds the fibers that live at once and MaxTokens the         *)
(* operations since one was last pending, and not how many there ever are. *)
(* The code has no such step: nothing in it depends on a fiber that has    *)
(* ended, and of a FiberId only which fiber has it.                        *)
(***************************************************************************)
EXTENDS FiberScheduler

Ended == {u \in Uid : fate[u] \notin {"unborn", "alive"}}
Answered == nextToken > 1 /\ lastPending = None /\ parked = [t \in {} |-> 0]

(* The ids in use are numbered anew, in their order. *)
IdsOf(queue) == {queue[i].id : i \in DOMAIN queue}
IdsInUse == {currentId} \cup IdsOf(saved) \cup IdsOf(ready) \cup IdsOf(suspended) \cup IdsOf(parked)
Renumbered(id) == Cardinality({j \in IdsInUse : j <= id})
RenumberedIn(queue) == [i \in DOMAIN queue |-> [queue[i] EXCEPT !.id = Renumbered(@)]]
Slot(f) == IF f.frames THEN f ELSE Empty

Forget ==
    /\ Ended # {} \/ Answered
    /\ fate' = [u \in Uid |-> IF u \in Ended THEN "unborn" ELSE fate[u]]
    /\ finished' = <<>>
    /\ fiber' = Slot(fiber) /\ currentId' = Renumbered(currentId)
    /\ saved' = RenumberedIn([i \in DOMAIN saved |-> [saved[i] EXCEPT !.fiber = Slot(@)]])
    /\ ready' = RenumberedIn(ready) /\ suspended' = RenumberedIn(suspended)
    /\ parked' = RenumberedIn(parked)
    /\ nextId' = Cardinality(IdsInUse) + 1
    /\ nextToken' = IF Answered THEN 1 ELSE nextToken
    /\ told' = IF Answered THEN {} ELSE told
    /\ settled' = IF Answered THEN {} ELSE settled
    /\ UNCHANGED <<lastPending, control, caller>>

TurnsNext == (Ended = {} /\ ~Answered /\ Next) \/ Forget
TurnsSpec == Init /\ [][TurnsNext]_vars /\ WF_vars(Forget) /\ Fairness

(* A call of run_ready comes back if there is an end to the fibers that scripts
   spawn, however often those there are yield, wait and await.  It need not
   when each spawns the next one: the loop over ready_fibers, to which spawn
   adds, goes on with them until the instruction limit of the whole VM stops
   it with an error, which is left out here.                                *)
RunReadyReturns == <>[][~Spawn]_vars => []<>(control = "host")

(* While the calls of run_ready come back every live fiber gets to execute
   again, whatever the others do: none is starved by others that are spawned,
   yield, wait and end without end.                                         *)
NoStarvation ==
    []<>(control = "host")
        => \A u \in Uid : (fate[u] = "alive") ~> (Executes(u) \/ fate[u] # "alive")
=============================================================================
