------------------------------ MODULE Bytecode ------------------------------
(***************************************************************************)
(* The bytecode compiler of ni (src/crates/ni_compiler/src/compiler.rs):   *)
(* what the statements and expressions that move control or own stack      *)
(* slots are compiled to.  A program is abstract syntax (records with a    *)
(* field s for statements, e for expressions, p for patterns); Compile     *)
(* gives the sequence of its functions, the script last.                   *)
(*                                                                         *)
(* The compilation of a piece of syntax is a sequence of tasks in the      *)
(* order of the code: an instruction to emit, a jump to patch, a scope to  *)
(* open or close, syntax inside to compile.  Run carries them out.         *)
(*                                                                         *)
(* An instruction stands for its opcode and operands, so offsets count     *)
(* instructions, from 1; jumps are relative, as in the code.  A constant   *)
(* is the name of the variable it is meant for, and a lambda has a name,   *)
(* so that a stack slot shows whose value it holds.  Four fields of a      *)
(* function are no part of the program: subjects, starts and cases say     *)
(* where statements and case bodies begin and what the source expects on   *)
(* the stack there, class which class declares the method.                 *)
(***************************************************************************)
EXTENDS Integers, SequencesExt

Matchable == {"a", "b", "c"}    \* the values match subjects range over
Forever == 2147483647           \* end_offset of a variable still in scope

-----------------------------------------------------------------------------
(* A FunctionCompiler, and the Compiler: functions being compiled, innermost
   last, functions finished, globals that may not be assigned, whether the
   program is still right, and the offsets held in local variables of the
   compile_... calls in progress, those of the innermost call last.        *)

NewLocal(name, depth, mutable) ==
    [name |-> name, depth |-> depth, captured |-> FALSE, mutable |-> mutable]

NewFunction(name, depth) ==
    [name |-> name, arity |-> 0, defaults |-> 0, code |-> <<>>,
     locals |-> <<NewLocal("", 0, FALSE)>>, upvalues |-> <<>>, depth |-> depth,
     loops |-> <<>>, table |-> <<>>,
     vars |-> <<[slot |-> 0, name |-> "", start |-> 1, end |-> Forever]>>,
     subjects |-> 0, starts |-> <<>>, cases |-> <<>>, class |-> ""]

NewCompiler == [compilers |-> <<NewFunction("<script>", 0)>>, fns |-> <<>>,
                immutable |-> {}, ok |-> TRUE, noted |-> <<>>]
Refuse(c) == [c EXCEPT !.ok = FALSE]        \* NiError::compile

Current(c) == Last(c.compilers)
Replace(c, fc) == [c EXCEPT !.compilers = Append(Front(@), fc)]
CurrentOffset(c) == Len(Current(c).code) + 1

Emit(c, op, arg, name) ==
    LET fc == Current(c)
    IN  Replace(c, [fc EXCEPT !.code = Append(@, [op |-> op, arg |-> arg, name |-> name])])

EmitOp(c, op) == Emit(c, op, 0, "")

(* A jump is emitted with a placeholder, and patched when its target is
   known.                                                                  *)
PatchJump(c, at) ==
    LET fc == Current(c)
    IN  Replace(c, [fc EXCEPT !.code[at].arg = Len(fc.code) - at])

PatchJumps(c, ats) == FoldLeft(PatchJump, c, ats)

Placed(c) == Len(Current(c).code)
Noted(c, name) == Last(c.noted)[name]
Note(c, name, offsets) == [c EXCEPT !.noted[Len(c.noted)][name] = offsets]

BeginScope(c) == Replace(c, [Current(c) EXCEPT !.depth = @ + 1])

\* mutant: a captured variable leaves the stack like any other
JustPop(local) == [op |-> "Pop", arg |-> 0, name |-> ""]

(* What takes a local off the stack. *)
Discard(local) ==
    [op |-> IF local.captured THEN "CloseUpvalue" ELSE "Pop", arg |-> 0, name |-> ""]

RECURSIVE PopLocals(_)
PopLocals(fc) ==
    IF fc.locals = <<>> \/ Last(fc.locals).depth <= fc.depth THEN fc
    ELSE LET code == Append(fc.code, Discard(Last(fc.locals)))
             open == {i \in DOMAIN fc.vars : /\ fc.vars[i].slot = Len(fc.locals) - 1
                                             /\ fc.vars[i].end = Forever}
         IN  PopLocals([fc EXCEPT !.code = code, !.locals = Front(@),
                                  !.vars[Max(open)].end = Len(code) + 1])

EndScope(c) == Replace(c, PopLocals([Current(c) EXCEPT !.depth = @ - 1]))

AddLocal(c, name, mutable) ==
    LET fc == Current(c)
    IN  Replace(c, [fc EXCEPT
            !.locals = Append(@, NewLocal(name, fc.depth, mutable)),
            !.vars = Append(@, [slot |-> Len(fc.locals), name |-> name,
                                start |-> Len(fc.code) + 1, end |-> Forever])])

(* The slots of the locals of that name; the last one shadows the others. *)
Slots(fc, name) == {i - 1 : i \in {k \in DOMAIN fc.locals : fc.locals[k].name = name}}
ResolveLocal(fc, name) == Max(Slots(fc, name))

-----------------------------------------------------------------------------
(* Upvalues. *)

AddUpvalue(c, at, index, isLocal, name) ==
    LET known == {k \in DOMAIN c.compilers[at].upvalues :
                     /\ c.compilers[at].upvalues[k].index = index
                     /\ c.compilers[at].upvalues[k].isLocal = isLocal}
    IN  IF known # {} THEN [c |-> c, slot |-> Min(known)]
        ELSE [c |-> [c EXCEPT !.compilers[at].upvalues =
                         Append(@, [index |-> index, isLocal |-> isLocal, name |-> name])],
              slot |-> Len(c.compilers[at].upvalues) + 1]

Named(upvalues, name) == {k \in DOMAIN upvalues : upvalues[k].name = name}

(* The enclosing functions that hold the variable, as a local or an upvalue. *)
Holders(c, name) ==
    {d \in 1 .. Len(c.compilers) - 1 :
        Slots(c.compilers[d], name) # {} \/ Named(c.compilers[d].upvalues, name) # {}}

(* Captures the variable of the nearest holder, through every function in
   between; the result is the new compiler and the slot of the upvalue.    *)
ResolveUpvalue(c, name) ==
    LET holder == Max(Holders(c, name))
        fc == c.compilers[holder]
        local == Slots(fc, name) # {}
        slot == IF local THEN ResolveLocal(fc, name) ELSE Min(Named(fc.upvalues, name))
        marked == IF local THEN [c EXCEPT !.compilers[holder].locals[slot + 1].captured = TRUE]
                  ELSE c
        between == [k \in 1 .. Len(c.compilers) - holder - 1 |-> holder + 1 + k]
        Link(acc, d) == AddUpvalue(acc.c, d, acc.slot, FALSE, name)
    IN  FoldLeft(Link, AddUpvalue(marked, holder + 1, slot, local, name), between)

(* check_assignment_allowed: the nearest local of that name decides, in this
   function or one around it, else the globals.                            *)
Declaring(c, name) == {d \in DOMAIN c.compilers : Slots(c.compilers[d], name) # {}}
Assignable(c, name) ==
    IF Declaring(c, name) = {} THEN name \notin c.immutable
    ELSE LET fc == c.compilers[Max(Declaring(c, name))]
         IN  fc.locals[ResolveLocal(fc, name) + 1].mutable

(* Load or store, by how the name resolves: local, upvalue or global. *)
Access(c, verb, name) ==
    IF Slots(Current(c), name) # {}
    THEN Emit(c, verb \o "Local", ResolveLocal(Current(c), name), name)
    ELSE IF Holders(c, name) # {}
    THEN LET r == ResolveUpvalue(c, name) IN Emit(r.c, verb \o "Upvalue", r.slot, name)
    ELSE Emit(c, verb \o "Global", 0, name)

-----------------------------------------------------------------------------
(* Declarations, loops and functions. *)

(* A declared value is on the stack: it becomes a local, or a global. *)
Declare(c, name, mutable) ==
    IF Current(c).depth > 0 THEN AddLocal(c, name, mutable)
    ELSE Emit(IF mutable THEN c ELSE [c EXCEPT !.immutable = @ \cup {name}],
              "DefineGlobal", 0, name)

Assign(c, name) == IF Assignable(c, name) THEN Access(c, "Set", name) ELSE Refuse(c)

BeginLoop(c) ==
    LET fc == Current(c)
    IN  Replace(c, [fc EXCEPT !.loops = Append(@,
            [start |-> Len(fc.code) + 1, breaks |-> <<>>, depth |-> fc.depth])])

EndLoop(c) ==
    PatchJumps(Replace(c, [Current(c) EXCEPT !.loops = Front(@)]), Last(Current(c).loops).breaks)

EmitLoop(c) == Emit(c, "Loop", CurrentOffset(c) + 1 - Last(Current(c).loops).start, "")

\* mutant: break and continue leave the locals of the loop body on the stack
SkipPops(c) == c

(* Pops of the locals declared inside the innermost loop, innermost first. *)
LeaveLoop(c) ==
    LET fc == Current(c)
        inner == SelectSeq(fc.locals, LAMBDA l : l.depth > Last(fc.loops).depth)
        pops == [k \in DOMAIN inner |-> Discard(inner[Len(inner) - k + 1])]
    IN  Replace(c, [fc EXCEPT !.code = @ \o pops])

AddBreak(c) ==
    Replace(c, [Current(c) EXCEPT
        !.loops[Len(Current(c).loops)].breaks = Append(@, Placed(c))])

InLoop(c) == Current(c).loops # <<>>
Break(c) == IF InLoop(c) THEN AddBreak(EmitOp(LeaveLoop(c), "Jump")) ELSE Refuse(c)
Continue(c) == IF InLoop(c) THEN EmitLoop(LeaveLoop(c)) ELSE Refuse(c)

(* compile_function and compile_method begin alike; slot 0 of a method is
   named self.                                                             *)
OpenFunction(c, fun, class) ==
    LET fc == [NewFunction(fun.name, 1) EXCEPT
                  !.arity = Len(fun.params),
                  !.locals[1].name = IF class = "" THEN "" ELSE "self",
                  !.class = class,
                  !.defaults = Len(SelectSeq(fun.params, LAMBDA p : p.default # <<>>))]
    IN  FoldLeft(LAMBDA acc, p : AddLocal(acc, p.name, TRUE),
                 [c EXCEPT !.compilers = Append(@, fc)], fun.params)

(* The name of a function or class is a local before the value is made, so
   that it can refer to itself; or a global after.                         *)
DeclareLocal(c, name) == IF Current(c).depth > 0 THEN AddLocal(c, name, FALSE) ELSE c
DeclareGlobal(c, name) == IF Current(c).depth > 0 THEN c ELSE Declare(c, name, FALSE)

(* finish_function: the function is done, and its closure is made by the
   one around it.                                                          *)
FinishFunction(c) ==
    LET fc == Current(c)
        done == [fc EXCEPT !.vars = [i \in DOMAIN @ |->
                    IF @[i].end = Forever THEN [@[i] EXCEPT !.end = Len(fc.code) + 1] ELSE @[i]]]
        outer == [c EXCEPT !.compilers = Front(@), !.fns = Append(@, done)]
    IN  IF outer.compilers = <<>> THEN outer
        ELSE Emit(outer, "Closure", Len(outer.fns), "")

\* mutant: the entry of an outer try statement comes before those of inner ones
OutermostFirst(c) ==
    Replace(c, [Current(c) EXCEPT !.table = <<
        [start |-> Head(Noted(c, "start")), end |-> Head(Noted(c, "stop")),
         handler |-> Head(Noted(c, "handler")), depth |-> Head(Noted(c, "depth"))]>> \o @])

AddException(c) ==
    Replace(c, [Current(c) EXCEPT !.table = Append(@,
        [start |-> Head(Noted(c, "start")), end |-> Head(Noted(c, "stop")),
         handler |-> Head(Noted(c, "handler")), depth |-> Head(Noted(c, "depth"))])])

(* Ghost.  Expected at the start of every statement: the locals in scope,
   above them the subjects of the match statements around.                 *)
MarkStart(c) ==
    LET fc == Current(c)
    IN  Replace(c, [fc EXCEPT !.starts = Append(@,
            [at |-> Len(fc.code) + 1, height |-> Len(fc.locals) + fc.subjects])])

AddSubject(c) ==
    LET fc == Current(c)
    IN  Note(Replace(c, [fc EXCEPT !.subjects = @ + 1]), "subject",
             <<Len(fc.locals) + fc.subjects>>)
DropSubject(c) == Replace(c, [Current(c) EXCEPT !.subjects = @ - 1])

(* Ghost.  Expected where the body of a case begins: a subject in takes. *)
MarkCase(c, takes) ==
    Replace(c, [Current(c) EXCEPT !.cases = Append(@,
        [at |-> CurrentOffset(c), slot |-> Head(Noted(c, "subject")), takes |-> takes])])
-----------------------------------------------------------------------------
(* Tasks. *)

DoEmit(op) == [do |-> "emit", op |-> op]
DoConstant(name) == [do |-> "constant", name |-> name]
DoGet(name) == [do |-> "get", name |-> name]
DoSet(name) == [do |-> "set", name |-> name]
DoCall(count, name) == [do |-> "call", count |-> count, name |-> name]
DoJump(op, var) == [do |-> "jump", op |-> op, var |-> var]     \* var = emit_jump(op)
DoPatch(var) == [do |-> "patch", var |-> var]                  \* all jumps in var
DoForget(var) == [do |-> "forget", var |-> var]
DoNote(var) == [do |-> "note", var |-> var]                    \* var = current_offset()
DoLocal(name, mutable) == [do |-> "local", name |-> name, mutable |-> mutable]
DoDeclare(name, mutable) == [do |-> "declare", name |-> name, mutable |-> mutable]
DoOpen(fun, class) == [do |-> "open", fun |-> fun, class |-> class]
DoWith(op, name) == [do |-> "with", op |-> op, count |-> 0, name |-> name]
DoInvoke(op, name, count) == [do |-> "with", op |-> op, count |-> count, name |-> name]
Naming(made, name) ==
    <<[do |-> "name local", name |-> name]>> \o made \o <<[do |-> "name global", name |-> name]>>
DoMarkCase(takes) == [do |-> "mark case", takes |-> takes]
DoIt(do) == [do |-> do]
DoExpr(expr) == [do |-> "expr", expr |-> expr]
DoStatement(st) == [do |-> "statement", st |-> st]
DoBody(body) == [do |-> "body", body |-> body]
DoCases(cases) == [do |-> "cases", cases |-> cases]

Pieces == {"expr", "statement", "body", "cases"}

(* The offsets a call of the compiler keeps; ends is a Vec, pushed to. *)
NothingNoted ==
    [var \in {"jump", "skip", "ends", "miss", "guard", "start", "stop", "handler",
              "depth", "subject"} |-> <<>>]

Remember(c, var) ==
    Note(c, var, IF var = "ends" THEN Append(Noted(c, var), Placed(c)) ELSE <<Placed(c)>>)

Perform(c, t) ==
    CASE t.do = "emit"         -> EmitOp(c, t.op)
      [] t.do = "constant"     -> Emit(c, "Constant", 0, t.name)
      [] t.do = "get"          -> Access(c, "Get", t.name)
      [] t.do = "set"          -> Access(c, "Set", t.name)
      [] t.do = "assign"       -> Assign(c, t.name)
      [] t.do = "call"         -> Emit(c, "Call", t.count, t.name)
      [] t.do = "jump"         -> Remember(EmitOp(c, t.op), t.var)
      [] t.do = "patch"        -> PatchJumps(c, Noted(c, t.var))
      [] t.do = "forget"       -> Note(c, t.var, <<>>)
      [] t.do = "note"         -> Note(c, t.var, <<CurrentOffset(c)>>)
      [] t.do = "note depth"   -> Note(c, "depth", <<Len(Current(c).locals)>>)
      [] t.do = "begin scope"  -> BeginScope(c)
      [] t.do = "end scope"    -> EndScope(c)
      [] t.do = "local"        -> AddLocal(c, t.name, t.mutable)
      [] t.do = "declare"      -> Declare(c, t.name, t.mutable)
      [] t.do = "begin loop"   -> BeginLoop(c)
      [] t.do = "loop"         -> EmitLoop(c)
      [] t.do = "end loop"     -> EndLoop(c)
      [] t.do = "break"        -> Break(c)
      [] t.do = "continue"     -> Continue(c)
      [] t.do = "open"         -> OpenFunction(c, t.fun, t.class)
      [] t.do = "with"         -> Emit(c, t.op, t.count, t.name)
      [] t.do = "name local"   -> DeclareLocal(c, t.name)
      [] t.do = "name global"  -> DeclareGlobal(c, t.name)
      [] t.do = "finish"       -> FinishFunction(c)
      [] t.do = "exception"    -> AddException(c)
      [] t.do = "mark start"   -> MarkStart(c)
      [] t.do = "mark case"    -> MarkCase(c, t.takes)
      [] t.do = "add subject"  -> AddSubject(c)
      [] t.do = "drop subject" -> DropSubject(c)

-----------------------------------------------------------------------------
(* Expressions. *)

(* A parameter that was not given is None: it gets its default. *)
CompileDefault(param) ==
    IF param.default = <<>> THEN <<>>
    ELSE <<DoGet(param.name), DoEmit("None"), DoEmit("Equal"), DoJump("JumpIfFalse", "jump"),
           DoEmit("Pop"), DoExpr(Head(param.default)), DoSet(param.name), DoEmit("Pop"),
           DoJump("Jump", "skip"), DoPatch("jump"), DoEmit("Pop"), DoPatch("skip")>>

Parameters(fun) == FlattenSeq([k \in DOMAIN fun.params |-> CompileDefault(fun.params[k])])

CompileFunction(fun) ==
    <<DoOpen(fun, "")>> \o Parameters(fun)
      \o <<DoBody(fun.body), DoEmit("None"), DoEmit("Return"), DoIt("finish")>>

(* A constructor returns the instance, unless it says return. *)
Self == [do |-> "with", op |-> "GetLocal", count |-> 0, name |-> "self"]

CompileMethod(fun, class) ==
    <<DoOpen(fun, class)>> \o Parameters(fun)
      \o <<DoBody(fun.body), IF fun.name = "init" THEN Self ELSE DoEmit("None"),
           DoEmit("Return"), DoIt("finish"), DoWith("Method", fun.name)>>

\* mutant: the catch point stays when nothing was thrown
KeepCatchPoint(inner) ==
    <<DoJump("SetCatchPoint", "jump"), DoExpr(inner), DoJump("Jump", "skip"),
      DoPatch("jump"), DoPatch("skip")>>

(* try e: the handler is where the result would be, None is pushed for it. *)
CompileTryExpr(inner) ==
    <<DoJump("SetCatchPoint", "jump"), DoExpr(inner), DoEmit("ClearCatchPoint"),
      DoJump("Jump", "skip"), DoPatch("jump"), DoPatch("skip")>>

Each(exprs) == [k \in DOMAIN exprs |-> DoExpr(exprs[k])]

CompileCall(expr) ==
    <<DoGet(expr.name)>> \o Each(expr.args)
      \o <<DoCall(Len(expr.args), expr.name)>>

(* and, or: the left value stays where the jump is taken. *)
Shortcut(jump, expr) ==
    <<DoExpr(expr.left), DoJump(jump, "jump"), DoEmit("Pop"), DoExpr(expr.right),
      DoPatch("jump")>>

CompileIfExpr(expr) ==
    <<DoExpr(expr.cond), DoJump("JumpIfFalse", "jump"), DoEmit("Pop"), DoExpr(expr.value),
      DoJump("Jump", "skip"), DoPatch("jump"), DoEmit("Pop"), DoExpr(expr.orelse), DoPatch("skip")>>

(* target += value, where the target is evaluated twice if it is an element. *)
CompileCompound(expr) ==
    CASE expr.target = "variable" ->
            <<DoGet(expr.name), DoExpr(expr.value), DoEmit("Arithmetic"),
              [DoSet(expr.name) EXCEPT !.do = "assign"]>>
      [] expr.target = "field" ->
            <<DoExpr(expr.object), DoEmit("Dup"), DoWith("GetProperty", expr.name),
              DoExpr(expr.value), DoEmit("Arithmetic"), DoWith("SetProperty", expr.name)>>
      [] expr.target = "element" ->
            <<DoExpr(expr.object), DoExpr(expr.index), DoExpr(expr.object), DoExpr(expr.index),
              DoEmit("GetIndex"), DoExpr(expr.value), DoEmit("Arithmetic"), DoEmit("SetIndex")>>

(* Arithmetic stands for Add to Modulo, Compare for Less to GreaterEqual,
   Build for BuildList, BuildMap and StringConcat.                         *)
CompileExpr(expr) ==
    CASE expr.e = "const"  -> <<DoConstant(expr.name)>>
      [] expr.e = "none"   -> <<DoEmit("None")>>
      [] expr.e = "get"    -> <<DoGet(expr.name)>>
      [] expr.e = "set"    -> <<DoExpr(expr.value), [DoSet(expr.name) EXCEPT !.do = "assign"]>>
      [] expr.e = "and"    -> Shortcut("JumpIfFalse", expr)
      [] expr.e = "or"     -> Shortcut("JumpIfTrue", expr)
      [] expr.e = "call"   -> CompileCall(expr)
      [] expr.e = "lambda" -> CompileFunction(expr)
      [] expr.e = "yield"  -> <<DoExpr(expr.value), DoEmit("Yield")>>
      [] expr.e = "wait"   -> <<DoExpr(expr.value), DoEmit("Wait")>>
      [] expr.e = "try"    -> CompileTryExpr(expr.value)
      [] expr.e = "fail"   -> <<DoExpr(expr.value), DoEmit("Fail")>>
      [] expr.e = "spawn"  -> <<DoExpr(expr.value), DoEmit("SpawnFiber")>>
      [] expr.e = "self"   -> <<Self>>
      [] expr.e = "field"  -> <<DoExpr(expr.object), DoWith("GetProperty", expr.name)>>
      [] expr.e = "safe"   -> <<DoExpr(expr.object), DoWith("SafeNav", expr.name)>>
      [] expr.e = "set field" ->
            <<DoExpr(expr.object), DoExpr(expr.value), DoWith("SetProperty", expr.name)>>
      [] expr.e = "element" -> <<DoExpr(expr.object), DoExpr(expr.index), DoEmit("GetIndex")>>
      [] expr.e = "set element" ->
            <<DoExpr(expr.object), DoExpr(expr.index), DoExpr(expr.value), DoEmit("SetIndex")>>
      [] expr.e = "compound" -> CompileCompound(expr)
      [] expr.e = "method" ->
            <<DoExpr(expr.object)>> \o Each(expr.args)
              \o <<DoInvoke("Invoke", expr.name, Len(expr.args))>>
      [] expr.e = "super"  ->
            <<Self>> \o Each(expr.args) \o <<DoInvoke("SuperInvoke", expr.name, Len(expr.args))>>
      [] expr.e = "build"  -> Each(expr.items) \o <<DoInvoke("Build", expr.name, Len(expr.items))>>
      [] expr.e \in {"Arithmetic", "Compare", "Equal", "BuildRange"} ->
            <<DoExpr(expr.left), DoExpr(expr.right), DoEmit(expr.e)>>
      [] expr.e \in {"Not", "Negate"} -> <<DoExpr(expr.value), DoEmit(expr.e)>>
      [] expr.e = "if"     -> CompileIfExpr(expr)
      [] expr.e = "coalesce" ->
            <<DoExpr(expr.left), DoJump("NoneCoalesce", "jump"), DoExpr(expr.right), DoPatch("jump")>>

-----------------------------------------------------------------------------
(* Statements. *)

Scope(body) == <<DoIt("begin scope"), DoBody(body), DoIt("end scope")>>

CompileBranch(branch) ==
    <<DoExpr(branch.cond), DoJump("JumpIfFalse", "jump"), DoEmit("Pop")>> \o Scope(branch.body)
      \o <<DoJump("Jump", "ends"), DoPatch("jump"), DoEmit("Pop")>>

CompileIf(st) ==
    FlattenSeq([k \in DOMAIN st.branches |-> CompileBranch(st.branches[k])])
      \o (IF st.orelse = <<>> THEN <<>> ELSE Scope(st.orelse)) \o <<DoPatch("ends")>>

CompileWhile(st) ==
    <<DoIt("begin loop"), DoExpr(st.cond), DoJump("JumpIfFalse", "jump"), DoEmit("Pop")>>
      \o Scope(st.body)
      \o <<DoIt("loop"), DoPatch("jump"), DoEmit("Pop"), DoIt("end loop")>>

CompileFor(st) ==
    <<DoIt("begin scope"), DoExpr(st.iterable), DoEmit("GetIterator"), DoLocal("__iter__", FALSE),
      DoEmit("None"), DoLocal(st.name, TRUE), DoIt("begin loop"), DoGet("__iter__"),
      DoJump("IteratorNext", "jump"), DoSet(st.name), DoEmit("Pop")>>
      \o Scope(st.body)
      \o <<DoIt("loop"), DoPatch("jump"), DoIt("end loop"), DoIt("end scope")>>

CompileCatch(st) ==
    CASE st.catch = "block" ->
            <<DoIt("begin scope"),
              IF st.name = "" THEN DoEmit("Pop") ELSE DoLocal(st.name, FALSE),
              DoBody(st.handler), DoIt("end scope")>>
      [] st.catch = "match" /\ st.name # "" ->
            <<DoIt("begin scope"), DoLocal(st.name, FALSE), DoGet(st.name),
              DoCases(st.handler), DoIt("end scope")>>
      [] st.catch = "match" /\ st.name = "" -> <<DoCases(st.handler)>>

CompileTry(st) ==
    <<DoNote("start"), DoIt("note depth")>> \o Scope(st.body)
      \o <<DoNote("stop"), DoJump("Jump", "skip"), DoNote("handler")>> \o CompileCatch(st)
      \o <<DoPatch("skip"), DoIt("exception")>>

(* A member with a value is set on the class that is on the stack. *)
CompileMember(field) ==
    IF field.default = <<>> THEN <<>>
    ELSE <<DoEmit("Dup"), DoExpr(Head(field.default)), DoWith("SetProperty", field.name),
           DoEmit("Pop")>>

CompileMembers(fields) == FlattenSeq([k \in DOMAIN fields |-> CompileMember(fields[k])])

CompileSuperclass(st) ==
    IF st.extends = "" THEN <<>>
    ELSE <<DoGet(st.name), DoGet(st.extends), DoEmit("Inherit"), DoEmit("Pop")>>

(* Methods and static methods alike. *)
CompileClass(st) ==
    Naming(<<DoWith("Class", st.name)>>, st.name) \o CompileSuperclass(st) \o <<DoGet(st.name)>>
      \o CompileMembers(st.fields)
      \o FlattenSeq([k \in DOMAIN st.methods |-> CompileMethod(st.methods[k], st.name)])
      \o <<DoEmit("Pop")>>

(* An enum is a class with its variants as fields; a variant without a value
   has its number.                                                         *)
Numbered(variant) ==
    IF variant.default # <<>> THEN variant
    ELSE [variant EXCEPT !.default = <<[e |-> "const", name |-> "d"]>>]

CompileEnum(st) ==
    <<DoWith("Class", st.name)>>
      \o CompileMembers([k \in DOMAIN st.variants |-> Numbered(st.variants[k])])
      \o <<DoDeclare(st.name, FALSE)>>

(* A comparison is asserted as it is evaluated, with no message. *)
CompileAssert(st) ==
    IF st.message = <<>> /\ st.value.e \in {"Compare", "Equal"}
    THEN <<DoExpr(st.value.left), DoExpr(st.value.right), DoWith("AssertCmp", st.value.e)>>
    ELSE <<DoExpr(st.value)>> \o Each(st.message) \o <<DoInvoke("AssertOp", "", Len(st.message))>>

CompileStatement(st) ==
    CASE st.s = "expr"     -> <<DoExpr(st.value), DoEmit("Pop")>>
      [] st.s = "var"      -> <<DoExpr(st.value), DoDeclare(st.name, TRUE)>>
      [] st.s = "const"    -> <<DoExpr(st.value), DoDeclare(st.name, FALSE)>>
      [] st.s = "fun"      -> Naming(CompileFunction(st), st.name)
      [] st.s = "if"       -> CompileIf(st)
      [] st.s = "while"    -> CompileWhile(st)
      [] st.s = "for"      -> CompileFor(st)
      [] st.s = "match"    -> <<DoExpr(st.value), DoCases(st.cases)>>
      [] st.s = "return"   -> <<DoExpr(st.value), DoEmit("Return")>>
      [] st.s = "break"    -> <<DoIt("break")>>
      [] st.s = "continue" -> <<DoIt("continue")>>
      [] st.s = "pass"     -> <<>>
      [] st.s = "block"    -> Scope(st.body)
      [] st.s = "try"      -> CompileTry(st)
      [] st.s = "fail"     -> <<DoExpr(st.value), DoEmit("Fail")>>
      [] st.s = "class"    -> CompileClass(st)
      [] st.s = "enum"     -> CompileEnum(st)
      [] st.s = "assert"   -> CompileAssert(st)

-----------------------------------------------------------------------------
(* match.  The subject is on top of the stack. *)

IsLiteral(pattern) == pattern.p = "literal"

\* mutant: the jump over the body is taken on a match
JumpOnMatch(patterns, k) ==
    <<DoEmit("Dup"), DoConstant(patterns[k].name), DoEmit("Equal"),
      DoJump("JumpIfTrue", "jump"), DoEmit("Pop")>>

(* The k-th pattern of a case; jump is pattern_jump, which the code takes
   and replaces by miss when the last of several literals does not match.  *)
CompileLiteral(patterns, k) ==
    <<DoEmit("Dup"), DoConstant(patterns[k].name), DoEmit("Equal")>> \o
    IF k < Len(patterns) THEN <<DoJump("JumpIfTrue", "jump"), DoEmit("Pop")>>
    ELSE IF \E j \in 1 .. k - 1 : IsLiteral(patterns[j])
    THEN <<DoJump("JumpIfFalse", "miss"), DoEmit("Pop"), DoPatch("jump"), DoEmit("Pop"),
           DoForget("jump")>>
    ELSE <<DoJump("JumpIfFalse", "jump"), DoEmit("Pop")>>

CompilePattern(patterns, k) ==
    CASE patterns[k].p = "literal"  -> CompileLiteral(patterns, k)
      [] patterns[k].p = "binding"  ->
            <<DoEmit("Dup"), DoIt("begin scope"), DoLocal(patterns[k].name, FALSE)>>
      [] patterns[k].p = "wildcard" -> <<>>

(* Ghost: the subjects the source sends to the k-th case: those it matches
   that no case before it takes, which a case with a guard need not do.    *)
Accepts(case) ==
    IF \A j \in DOMAIN case.patterns : IsLiteral(case.patterns[j])
    THEN {case.patterns[j].name : j \in DOMAIN case.patterns} ELSE Matchable
Takes(cases, k) ==
    Accepts(cases[k]) \ UNION {Accepts(cases[j]) : j \in {i \in 1 .. k - 1 : cases[i].guard = <<>>}}

CompileCase(case, takes) ==
    LET pats == case.patterns
        binds == \E j \in DOMAIN pats : pats[j].p = "binding"
    IN  <<DoForget("jump"), DoForget("miss")>>
          \o FlattenSeq([k \in DOMAIN pats |-> CompilePattern(pats, k)])
          \o (IF case.guard = <<>> THEN <<>>
              ELSE <<DoExpr(Head(case.guard)), DoJump("JumpIfFalse", "guard"), DoEmit("Pop")>>)
          \o <<DoMarkCase(takes)>> \o Scope(case.body)
          \o (IF binds THEN <<DoIt("end scope")>> ELSE <<>>)
          \o <<DoJump("Jump", "ends")>>
          \o (IF case.guard = <<>> THEN <<>> ELSE <<DoPatch("guard"), DoEmit("Pop")>>)
          \o (IF \A j \in DOMAIN pats : ~IsLiteral(pats[j]) THEN <<>>
              ELSE <<DoPatch("jump"), DoPatch("miss"), DoEmit("Pop")>>)

CompileCases(cases) ==
    <<DoIt("add subject")>>
      \o FlattenSeq([k \in DOMAIN cases |-> CompileCase(cases[k], Takes(cases, k))])
      \o <<DoPatch("ends"), DoEmit("Pop"), DoIt("drop subject")>>

-----------------------------------------------------------------------------
(* Running the tasks. *)

TasksOf(t) ==
    CASE t.do = "expr"      -> CompileExpr(t.expr)
      [] t.do = "statement" -> <<DoIt("mark start")>> \o CompileStatement(t.st)
      [] t.do = "body"      -> [k \in DOMAIN t.body |-> DoStatement(t.body[k])]
      [] t.do = "cases"     -> CompileCases(t.cases)

(* A call to compile a piece has offsets of its own. *)
Enter(c) == [c EXCEPT !.noted = Append(@, NothingNoted)]
Leave(c) == [c EXCEPT !.noted = Front(@)]

(* In order; an error ends it, wherever it is. *)
RECURSIVE Run(_, _)
Run(c, tasks) ==
    IF tasks = <<>> \/ ~c.ok THEN c
    ELSE LET t == Head(tasks)
         IN  Run(IF t.do \in Pieces THEN Leave(Run(Enter(c), TasksOf(t))) ELSE Perform(c, t),
                 Tail(tasks))

(* A program: the script, whose functions are declarations in it.  Nothing
   is compiled of a script that is refused.                                *)
Compile(script) ==
    LET c == Run(NewCompiler, <<DoBody(script), DoEmit("None"), DoEmit("Return")>>)
    IN  IF c.ok THEN FinishFunction(c).fns ELSE <<>>
=============================================================================
