------------------------------ MODULE Verifier ------------------------------
(***************************************************************************)
(* What the interpreter relies on in the code it runs.  Nothing in ni      *)
(* checks bytecode: run_fiber takes what the compiler made on trust.  This *)
(* module says what the trust is in, as a check of the code alone, in the  *)
(* way of a bytecode verifier: every instruction of a function finds a     *)
(* stack of one of a few shapes, and where control goes from it, handlers  *)
(* of errors included, it leaves a shape that is expected there.           *)
(*                                                                         *)
(* A shape is what is known of the slots of a frame: how many they are,    *)
(* the try expressions being evaluated, what kind of value is in some of   *)
(* them, and which of them an open upvalue may refer to.  ShapesOf gives   *)
(* those a program is said to have; Trusted are the programs of which it   *)
(* is true.                                                                *)
(***************************************************************************)
EXTENDS Interpreter

CONSTANT ShapesOf(_)    \* for each function of a program, the shapes at each instruction

Shape(height, tries, known, captured) ==
    [height |-> height, tries |-> tries, known |-> known, captured |-> captured]

ValueKinds == {"closure", "object", "iterator"}
IsA(v, kind) == IF kind = "object" THEN IsObject(v) ELSE v.is = kind

AllShapes == [height : Nat, tries : Seq([size : Nat, handler : Nat]),
              known : SUBSET (Nat \X ValueKinds), captured : SUBSET Nat]

(* Slot 0 is the function or the receiver, and is not captured. *)
WellShaped(s) ==
    /\ s \in AllShapes /\ s.height # 0
    /\ \A slot \in s.captured : slot \in 1 .. s.height - 1
    /\ \A p \in s.known : p[1] < s.height /\ p[1] \notin s.captured
    /\ \A n \in DOMAIN s.tries : s.tries[n].size \in 1 .. s.height
    /\ \A m, n \in DOMAIN s.tries : m < n => s.tries[m].size <= s.tries[n].size

(* The lowest n slots; one slot more; slots that change. *)
Cut(s, n) == Shape(n, s.tries, {p \in s.known : p[1] < n}, s.captured)
Push(s, kinds) == Shape(s.height + 1, s.tries, s.known \cup ({s.height} \X kinds), s.captured)
Forget(s, slots) == {p \in s.known : p[1] \notin slots}

-----------------------------------------------------------------------------
(* What an instruction takes off the stack, and whether it leaves a value. *)

CallOps == {"Call", "Invoke", "SuperInvoke"}
Throwing == CallOps \cup {"Fail"}

Taken(ins) ==
    CASE ins.op \in CallOps \cup {"AssertOp"} -> ins.arg + 1
      [] ins.op = "Build"    -> ins.arg
      [] ins.op = "SetIndex" -> 3
      [] ins.op \in {"Equal", "Arithmetic", "Compare", "BuildRange", "GetIndex", "SetProperty",
                     "AssertCmp"} -> 2
      [] ins.op \in {"Pop", "DefineGlobal", "CloseUpvalue", "Negate", "Not", "NoneCoalesce",
                     "GetIterator", "IteratorNext", "Fail", "Method", "Inherit", "GetProperty",
                     "SafeNav", "Yield", "Wait"} -> 1
      [] OTHER -> 0

Leaving ==
    Throwing \cup {"Build", "SetIndex", "Equal", "Arithmetic", "Compare", "BuildRange", "GetIndex",
        "SetProperty", "Negate", "Not", "GetIterator", "IteratorNext", "GetProperty", "SafeNav",
        "Wait", "Constant", "None", "Dup", "GetLocal", "GetGlobal", "GetUpvalue", "Class"}

(* The shape below what the instruction takes. *)
Rest(s, ins) ==
    LET below == Cut(s, s.height - Taken(ins))
    IN  IF ins.op # "CloseUpvalue" THEN below
        ELSE Shape(below.height, below.tries, below.known, below.captured \ {below.height})

KindsLeft(s, ins) ==
    CASE ins.op = "GetLocal"    -> {kind \in ValueKinds : <<ins.arg, kind>> \in s.known}
      [] ins.op = "GetIterator" -> {"iterator"}
      [] OTHER                  -> {}

(* The slots of its frame that a new closure captures: perhaps the one it
   goes to itself, when a function names itself.                           *)
CapturedBy(upvals) == {upvals[k].index : k \in {n \in DOMAIN upvals : upvals[n].isLocal}}

ShapeAfter(fns, i, s, ins) ==
    LET r == Rest(s, ins)
        more == CapturedBy(fns[ins.arg].upvalues)
    IN  CASE ins.op = "SetCatchPoint" ->
                Shape(r.height, Append(r.tries, [size |-> r.height, handler |-> i + 1 + ins.arg]),
                      r.known, r.captured)
          [] ins.op = "ClearCatchPoint" -> Shape(r.height, Front(r.tries), r.known, r.captured)
          [] ins.op = "SetLocal" -> Shape(r.height, r.tries, Forget(r, {ins.arg}), r.captured)
          [] ins.op = "Closure" ->
                Shape(r.height + 1, r.tries, Forget(Push(r, {"closure"}), more), r.captured \cup more)
          [] ins.op \in Leaving -> Push(r, KindsLeft(s, ins))
          [] OTHER -> r

-----------------------------------------------------------------------------
(* Where control goes next, and with which shape. *)

Falls(fns, log, i, s, ins) ==
    IF ins.op \in {"Jump", "Loop", "Return"} \/ (ins.op = "Fail" /\ ~log) THEN {}
    ELSE {<<i + 1, ShapeAfter(fns, i, s, ins)>>}

Jumps(i, s, ins) ==
    CASE ins.op \in {"Jump", "JumpIfFalse", "JumpIfTrue", "NoneCoalesce"} -> {<<i + 1 + ins.arg, s>>}
      [] ins.op = "Loop"         -> {<<i + 1 - ins.arg, s>>}
      [] ins.op = "IteratorNext" -> {<<i + 1 + ins.arg, Rest(s, ins)>>}
      [] OTHER                   -> {}

(* An error, thrown by the instruction at i or by what it called. *)
Covering(table, ip) == {n \in DOMAIN table : ip > table[n].start /\ ip <= table[n].end}
FirstEntry(table, ip) == table[Min(Covering(table, ip))]

ByTry(r) ==
    LET try == Last(r.tries)
        below == Cut(r, try.size)
    IN  <<try.handler, Shape(try.size, Front(r.tries), below.known, r.captured)>>
ByEntry(entry, r) == <<entry.handler, Cut(r, entry.depth)>>

Caught(fc, i, r) ==
    IF r.tries # <<>> THEN {ByTry(r)}
    ELSE IF Covering(fc.table, i + 1) # {} THEN {ByEntry(FirstEntry(fc.table, i + 1), r)}
    ELSE {}

Thrown(fc, i, s, ins) == IF ins.op \in Throwing THEN Caught(fc, i, Rest(s, ins)) ELSE {}

Flow(fns, log, fc, i, s) ==
    LET ins == fc.code[i]
    IN  Falls(fns, log, i, s, ins) \cup Jumps(i, s, ins)
            \cup {<<q[1], Push(q[2], {})>> : q \in Thrown(fc, i, s, ins)}

(* What an instruction asks of its shape and its operands. *)
Allowed(fns, fc, i, s) ==
    LET ins == fc.code[i]
        Has(slot, kind) == <<slot, kind>> \in s.known
    IN  /\ WellShaped(s) /\ Taken(ins) <= s.height /\ WellShaped(Rest(s, ins))
        /\ \A q \in Thrown(fc, i, s, ins) : WellShaped(q[2]) /\ q[2].height <= Rest(s, ins).height
        /\ CASE ins.op = "SetLocal"      -> ins.arg < s.height
             [] ins.op \in {"GetGlobal", "SetGlobal", "DefineGlobal"} -> ins.name \in GlobalNames
             [] ins.op = "Closure"       ->
                  /\ ins.arg \in DOMAIN fns
                  /\ \A k \in DOMAIN fns[ins.arg].upvalues :
                        LET uv == fns[ins.arg].upvalues[k]
                        IN  uv.index \in IF uv.isLocal THEN 1 .. s.height ELSE DOMAIN fc.upvalues
             [] ins.op = "Method"        -> Has(s.height - 1, "closure")
             [] ins.op = "SuperInvoke"   -> Has(s.height - 1 - ins.arg, "object")
             [] ins.op = "IteratorNext"  -> Has(s.height - 1, "iterator")
             [] ins.op = "Return"        -> s.tries = <<>>
             [] ins.op = "ClearCatchPoint" -> s.tries # <<>>
             [] ins.op = "SpawnFiber"    -> FALSE
             [] OTHER                    -> TRUE

-----------------------------------------------------------------------------
(* A function is as it is said to be. *)

Instructions == [op : STRING, arg : Nat, name : STRING]
UpvalueInfos == [index : Nat, isLocal : BOOLEAN, name : STRING]
ExceptionEntries == [start : Nat, end : Nat, handler : Nat, depth : Nat]

WellFormed(fc) ==
    /\ fc.name \in STRING /\ fc.arity \in Nat /\ fc.defaults \in Nat
    /\ fc.code \in Seq(Instructions) /\ fc.upvalues \in Seq(UpvalueInfos)
    /\ fc.table \in Seq(ExceptionEntries)

Entry(fc) == Shape(fc.arity + 1, <<>>, {<<0, "object">>}, {})

FlowsInto(fns, log, fc, shapes) ==
    /\ 1 \in DOMAIN fc.code /\ Entry(fc) \in shapes[1]
    /\ \A i \in DOMAIN fc.code : \A s \in shapes[i] :
          /\ Allowed(fns, fc, i, s)
          /\ \A q \in Flow(fns, log, fc, i, s) :
                q[1] \in DOMAIN fc.code /\ q[2] \in shapes[q[1]]

(* Where a statement starts, there is a slot for each local, and no try
   expression is being evaluated.                                          *)
AsCompiled(fc, shapes) ==
    \A m \in DOMAIN fc.starts : fc.starts[m].at \in DOMAIN fc.code =>
        \A s \in shapes[fc.starts[m].at] : s.height = fc.starts[m].height /\ s.tries = <<>>

(* Of two try statements one inside the other the inner one comes first. *)
Nested(table) ==
    \A m, n \in DOMAIN table : m < n =>
        \/ table[m].end <= table[n].start \/ table[n].end <= table[m].start
        \/ table[n].start < table[m].start

Verified(fns, log, shapes) ==
    /\ Len(fns) \in DOMAIN fns /\ DOMAIN fns \subseteq Nat
    /\ fns[Len(fns)].arity = 0 /\ fns[Len(fns)].upvalues = <<>>
    /\ \A n \in DOMAIN fns :
          /\ WellFormed(fns[n]) /\ Nested(fns[n].table)
          /\ FlowsInto(fns, log, fns[n], shapes[n])
          /\ AsCompiled(fns[n], shapes[n])

Trusted == {p \in Programs : Verified(CodeOf(p), PolicyOf(p) = "log", ShapesOf(p))}
=============================================================================
