----------------------------- MODULE ObjectStore -----------------------------
(***************************************************************************)
(* What the heap of ni_vm promises to the code that uses it: objects that  *)
(* hold references to objects, a set of roots, and a store that may take   *)
(* back, at any moment and in any order, objects no root leads to, and     *)
(* nothing else.  An object is a number, never used twice; the slots,      *)
(* generations, marks and free list of gc.rs do not exist here.            *)
(* GcHeap implements this specification.                                   *)
(***************************************************************************)
EXTENDS Naturals

CONSTANT MaxObjects     \* bound: objects ever created

VARIABLES objs,         \* the objects in the store: [id -> set of ids it refers to]
          roots,        \* ids the program holds
          used          \* ids ever given out

vars == <<objs, roots, used>>

Id == 1..MaxObjects

\* What the objects of S that are in the store refer to.
Successors(S) == UNION {objs[o] : o \in S \cap DOMAIN objs}

\* What the roots lead to.  No path needs more than MaxObjects steps.
Reachable ==
    LET walk[n \in 0..MaxObjects] ==
          IF n = 0 THEN roots
          ELSE LET before == walk[n - 1] IN before \cup Successors(before)
    IN walk[MaxObjects]

Init == objs = [o \in {} |-> {}] /\ roots = {} /\ used = {}

\* A new object has a number never used before, references the program can
\* reach, and is held itself.
Create(o, S) ==
    /\ o \notin used
    /\ S \subseteq Reachable
    /\ objs' = [p \in DOMAIN objs \cup {o} |-> IF p = o THEN S ELSE objs[p]]
    /\ roots' = roots \cup {o}
    /\ used' = used \cup {o}

\* The program changes the references of an object it can reach.
Rewrite(o, S) ==
    /\ o \in Reachable \cap DOMAIN objs
    /\ S \subseteq Reachable
    /\ objs' = [objs EXCEPT ![o] = S]
    /\ UNCHANGED <<roots, used>>

\* Holding and letting go; a host may hand back a number whose object is gone.
Hold(o) == o \in used /\ roots' = roots \cup {o} /\ UNCHANGED <<objs, used>>

LetGo(o) == roots' = roots \ {o} /\ UNCHANGED <<objs, used>>

\* The store takes back one object, and only one that no root leads to.
Reclaim(o) ==
    /\ o \in DOMAIN objs \ Reachable
    /\ objs' = [p \in DOMAIN objs \ {o} |-> objs[p]]
    /\ UNCHANGED <<roots, used>>

Next == \E o \in Id : \/ \E S \in SUBSET Id : Create(o, S) \/ Rewrite(o, S)
                      \/ Hold(o) \/ LetGo(o) \/ Reclaim(o)

Spec == Init /\ [][Next]_vars
=============================================================================
