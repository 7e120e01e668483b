------------------------------ MODULE VmMemory ------------------------------
(***************************************************************************)
(* What the interpreter loop of ni_vm (vm.rs) does about memory: at the    *)
(* end of every instruction run_fiber first compares bytes_allocated with  *)
(* memory_limit and only then, if the limit was kept, collects garbage     *)
(* when the object count has reached the threshold.  An instruction that   *)
(* leaves run_fiber (return of the last frame, yield, wait, await of a     *)
(* pending call, an error) skips both.  The heap is GcHeap's.              *)
(***************************************************************************)
EXTENDS GcHeap, FiniteSetsExt

CONSTANTS MemoryLimit,      \* memory_limit; None in the code means no limit
          Thresholds,       \* what gc_set_threshold is called with
          InPlaceGrowth     \* may a program change the size of an object it has?

ASSUME LimitAssumption == MemoryLimit \in Nat /\ InPlaceGrowth \in BOOLEAN

ASSUME HostThresholdAssumption == Thresholds \subseteq Nat          \* usize in the code

\* The code's defaults are 256 and 2.0.  gc_set_growth_factor takes any factor:
\* with one of at most 1 every instruction may be followed by a collection.
ASSUME GrowthAssumption == MinThreshold >= 1 /\ Growth >= 2

VARIABLES at,               \* "host", "instruction", "tail", "gc" or "hostGc"
          gcEnabled

memoryVars == <<vars, at, gcEnabled>>

MemoryInit == Init /\ at = "host" /\ gcEnabled = TRUE

-----------------------------------------------------------------------------
\* run_ready, interpret or call begins to execute a fiber.
EnterFiber == at = "host" /\ at' = "instruction" /\ UNCHANGED <<vars, gcEnabled>>

\* The instruction allocates, overwrites objects, pushes and pops: any number
\* of times, with no check in between (a native may allocate many objects).
Instruction ==
    /\ at = "instruction"
    /\ Program
    /\ \/ InPlaceGrowth
       \/ \A i \in DOMAIN slots : i \in DOMAIN slots' =>
              slots'[i].object.size = slots[i].object.size
    /\ UNCHANGED <<at, gcEnabled>>

EndInstruction ==
    /\ at = "instruction" /\ at' = "tail"
    /\ UNCHANGED <<vars, gcEnabled>>

\* run_fiber returns from within an instruction.
LeaveFiber ==
    /\ at = "instruction" /\ at' = "host"
    /\ UNCHANGED <<vars, gcEnabled>>

\* mutant: the limit is looked at only when gc is enabled
LimitExceededGcOn == gcEnabled /\ bytesAllocated > MemoryLimit
LimitExceeded == bytesAllocated > MemoryLimit

\* "Memory limit exceeded": the error goes to the host, nothing is collected.
FailOnLimit ==
    /\ at = "tail" /\ LimitExceeded
    /\ at' = "host"
    /\ UNCHANGED <<vars, gcEnabled>>

CollectAfterInstruction ==
    /\ at = "tail" /\ ~LimitExceeded
    /\ gcEnabled /\ ShouldCollect
    /\ StartCollect
    /\ at' = "gc"
    /\ UNCHANGED gcEnabled

NextInstruction ==
    /\ at = "tail" /\ ~LimitExceeded
    /\ ~(gcEnabled /\ ShouldCollect)
    /\ at' = "instruction"
    /\ UNCHANGED <<vars, gcEnabled>>

CollectorDone == phase' = "program"

\* collect_garbage at work; when it is done its caller goes on.
CollectorStep ==
    /\ at \in {"gc", "hostGc"}
    /\ Collect
    /\ at' = IF ~CollectorDone THEN at
             ELSE IF at = "gc" THEN "instruction" ELSE "host"
    /\ UNCHANGED gcEnabled

-----------------------------------------------------------------------------
(* The host's API.                                                         *)

GcCollect == at = "host" /\ StartCollect /\ at' = "hostGc" /\ UNCHANGED gcEnabled

GcEnable(b) ==
    /\ at = "host"
    /\ gcEnabled' = b
    /\ UNCHANGED <<vars, at>>

GcSetThreshold(n) ==
    /\ at = "host"
    /\ threshold' = n
    /\ UNCHANGED <<heapVars, phase, rootsLeft, worklist, cursor, roots, ghosts, at, gcEnabled>>

MemoryNext ==
    \/ EnterFiber \/ Instruction \/ EndInstruction \/ LeaveFiber
    \/ FailOnLimit \/ CollectAfterInstruction \/ NextInstruction \/ CollectorStep
    \/ GcCollect
    \/ \E b \in BOOLEAN : GcEnable(b)
    \/ \E n \in Thresholds : GcSetThreshold(n)

MemorySpec == MemoryInit /\ [][MemoryNext]_memoryVars

-----------------------------------------------------------------------------
(* Properties.                                                             *)

\* The bytes the objects in the heap really own.
OwnedBytes == MapThenSumSet(LAMBDA i : slots[i].object.size, DOMAIN slots)

\* As long as no object changes its size, bytes_allocated is the bytes the
\* heap owns, through every order of allocations and sweeps.
BytesExact == ~InPlaceGrowth => bytesAllocated = OwnedBytes

\* VmConfig::memory_limit is "Maximum heap bytes before a runtime error is
\* raised": run_fiber goes from one instruction to the next only while the heap
\* owns no more than the limit.
GoesOn == at \in {"tail", "gc"} /\ at' = "instruction"
MemoryCeiling == [][GoesOn => OwnedBytes' <= MemoryLimit]_memoryVars

\* With gc enabled an instruction starts below the threshold: a collection
\* raises it above what survived, so the next instruction does not collect
\* again at once, and the heap holds less than threshold plus what one
\* instruction allocates.
CollectorKeepsUp == [][GoesOn /\ gcEnabled => objectCount' < threshold']_memoryVars
=============================================================================
