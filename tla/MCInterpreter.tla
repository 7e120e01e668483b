--------------------------- MODULE MCInterpreter ---------------------------
(***************************************************************************)
(* Interpreter for TLC: the scripts it runs.                               *)
(***************************************************************************)
EXTENDS Verifier, Bytecode

(* Syntax. *)
Const(x) == [e |-> "const", name |-> x]
GetVar(x) == [e |-> "get", name |-> x]
SetVar(x, value) == [e |-> "set", name |-> x, value |-> value]
CallTo(f, args) == [e |-> "call", name |-> f, args |-> args]
Lambda(g, body) == [e |-> "lambda", name |-> g, params |-> <<>>, body |-> body]
WaitFor == [e |-> "wait", value |-> Const("d")]
YieldUp == [e |-> "yield", value |-> Const("d")]
SelfExpr == [e |-> "self"]
Field(object, x) == [e |-> "field", object |-> object, name |-> x]
SafeField(object, x) == [Field(object, x) EXCEPT !.e = "safe"]
SetField(object, x, value) == [e |-> "set field", object |-> object, name |-> x, value |-> value]
Element(object) == [e |-> "element", object |-> object, index |-> Const("d")]
SetElement(object) ==
    [e |-> "set element", object |-> object, index |-> Const("d"), value |-> Const("n")]
Increase(x) == [e |-> "compound", target |-> "variable", name |-> x, value |-> Const("d")]
IncreaseField(object, x) ==
    [e |-> "compound", target |-> "field", object |-> object, name |-> x, value |-> Const("d")]
IncreaseElement(object) ==
    [e |-> "compound", target |-> "element", object |-> object, index |-> Const("d"),
     value |-> Const("d")]
MethodOf(object, m, args) == [e |-> "method", object |-> object, name |-> m, args |-> args]
SuperOf(m, args) == [e |-> "super", name |-> m, args |-> args]
Collection(x, items) == [e |-> "build", name |-> x, items |-> items]
Operation(op, left, right) == [e |-> op, left |-> left, right |-> right]
Unary(op, value) == [e |-> op, value |-> value]
Choice(value, orelse) == [e |-> "if", cond |-> CallTo("cond", <<>>), value |-> value, orelse |-> orelse]
Coalesce(left, right) == [e |-> "coalesce", left |-> left, right |-> right]
Spawn(value) == [e |-> "spawn", value |-> value]
TryExpr(value) == [e |-> "try", value |-> value]
Either(op, left, right) == [e |-> op, left |-> left, right |-> right]
FailExpr == [e |-> "fail", value |-> Const("e")]

Expr(value) == [s |-> "expr", value |-> value]
VarDecl(x) == [s |-> "var", name |-> x, value |-> Const(x)]
VarIs(x, value) == [s |-> "var", name |-> x, value |-> value]
If(then, orelse) == [s |-> "if", branches |-> <<[cond |-> CallTo("cond", <<>>), body |-> then]>>,
                     orelse |-> orelse]
While(body) == [s |-> "while", cond |-> CallTo("cond", <<>>), body |-> body]
For(body) == [s |-> "for", name |-> "i", iterable |-> Const("list"), body |-> body]
ReturnIt(x) == [s |-> "return", value |-> Const(x)]
Plain(s) == [s |-> s]
Block(body) == [s |-> "block", body |-> body]
Try(body, x, handler) ==
    [s |-> "try", body |-> body, name |-> x, catch |-> "block", handler |-> handler]
TryMatch(body, x, cases) ==
    [s |-> "try", body |-> body, name |-> x, catch |-> "match", handler |-> cases]
FailIt == [s |-> "fail", value |-> Const("e")]
Match(cases) == [s |-> "match", value |-> CallTo("pick", <<>>), cases |-> cases]
When(patterns, guard, body) == [patterns |-> patterns, guard |-> guard, body |-> body]
Lit(v) == [p |-> "literal", name |-> v]
Bind(x) == [p |-> "binding", name |-> x]
Wildcard == [p |-> "wildcard"]
Fun(f, params, body) == [s |-> "fun", name |-> f, params |-> params, body |-> body]
Param(p) == [name |-> p, default |-> <<>>]
Defaulted(p) == [name |-> p, default |-> <<Const(p)>>]

Class(name, above, fields, methods) ==
    [s |-> "class", name |-> name, extends |-> above, fields |-> fields, methods |-> methods]
Enum(name, variants) == [s |-> "enum", name |-> name, variants |-> variants]
AssertThat(value, message) == [s |-> "assert", value |-> value, message |-> message]

Risky == Expr(CallTo("risky", <<>>))
Cond == CallTo("cond", <<>>)
Guess == <<Either("or", Either("and", Cond, Cond), Cond)>>
-----------------------------------------------------------------------------
(* Loops: f declares a variable, loops, declares another and returns.  The
   loop body declares x, perhaps captures it before or after a nested block
   that declares y and leaves by a jump; a try statement may be around the
   loop or the body of the loop.                                           *)

Keep(x) == Expr(SetVar("keep", Lambda("keep", <<Expr(SetVar(x, Const(x)))>>)))
Local(g, body) == <<VarIs(g, Lambda(g, body)), Expr(CallTo(g, <<>>))>>

Before(capture) ==
    CASE capture = "before" -> <<Keep("x")>>
      [] capture = "local"  -> Local("g", <<Expr(SetVar("x", GetVar("x")))>>)
      [] capture = "chain"  -> Local("g", Local("h", <<Expr(SetVar("x", Const("x"))),
                                                       Expr(GetVar("p"))>>))
      [] OTHER              -> <<>>
After(capture) == IF capture = "after" THEN <<Keep("x"), Expr(CallTo("keep", <<>>))>> ELSE <<>>
Inner(capture) == IF capture = "inner" THEN <<Keep("y")>> ELSE <<>>

JumpOf(jump) ==
    CASE jump = "break"    -> Plain("break")
      [] jump = "continue" -> Plain("continue")
      [] jump = "return"   -> ReturnIt("t")
      [] jump = "fail"     -> FailIt
      [] jump = "risky"    -> Risky

Body(capture, jump) ==
    <<VarDecl("x")>> \o Before(capture)
      \o <<If(<<VarDecl("y")>> \o Inner(capture) \o <<JumpOf(jump)>>, <<Plain("pass")>>)>>
      \o After(capture)

Guarded(body) == <<VarDecl("u"), Try(body, "e", <<VarDecl("v"), Expr(GetVar("e"))>>)>>
LoopOf(loop, body) == IF loop = "for" THEN For(body) ELSE While(body)
LoopIn(loop, try, body) ==
    CASE try = "none"   -> <<LoopOf(loop, body)>>
      [] try = "inside" -> <<LoopOf(loop, Guarded(body))>>
      [] try = "around" -> Guarded(<<LoopOf(loop, body)>>)

KeepIs == VarIs("keep", [e |-> "none"])
Callers(caller) ==
    CASE caller = "plain" -> <<Expr(CallTo("f", <<>>)), Expr(CallTo("keep", <<>>))>>
      [] caller = "try"   -> <<Block(<<VarDecl("z"),
                                 Try(<<VarDecl("w"), Expr(CallTo("f", <<Const("p")>>))>>, "e",
                                     <<Expr(CallTo("keep", <<>>))>>)>>)>>
      [] caller = "tryexpr" -> <<Block(<<VarIs("t", TryExpr(CallTo("f", <<>>))), VarDecl("z"),
                                         Expr(CallTo("keep", <<>>))>>)>>

Script(body, caller) ==
    <<KeepIs, Fun("f", <<Defaulted("p")>>, <<VarDecl("a")>> \o body \o
                  <<VarDecl("b"), ReturnIt("t")>>)>> \o Callers(caller)

(* Left out: a variable captured in a try body that then fails. *)
Loops ==
    {c \in {"loop"} \X {"none", "before", "after", "local", "chain", "inner"}
            \X {"break", "continue", "return", "fail", "risky"}
            \X {"for", "while"} \X {"none", "inside", "around"}
            \X {"plain", "try", "tryexpr"} :
        ~(c[2] # "none" /\ c[3] \in {"fail", "risky"} /\ c[5] # "none")}

-----------------------------------------------------------------------------
(* Errors: a try statement in another, and what is raised in the body and
   in the catch of the inner one; called in the three ways.                *)

Raise(raised) ==
    CASE raised = "fail"    -> <<FailIt>>
      [] raised = "native"  -> <<Risky>>
      [] raised = "tryexpr" -> <<VarIs("t", TryExpr(CallTo("risky", <<>>))), FailIt>>
      [] raised = "wait"    -> <<Expr(WaitFor), Expr(TryExpr(FailExpr))>>
      [] raised = "lambda"  -> <<VarIs("g", Lambda("g", <<VarDecl("y"), FailIt>>)),
                                 Expr(CallTo("g", <<>>))>>

Tried(first, second) ==
    <<VarDecl("u"),
      Try(<<VarDecl("v"), Try(<<VarDecl("w")>> \o Raise(first), "e",
                              <<VarDecl("x")>> \o Raise(second)), VarDecl("y")>>,
          "", <<VarDecl("z"), Expr(SetVar("u", GetVar("u")))>>)>>

Raised == {"fail", "native", "tryexpr", "wait", "lambda"}
Tries == {"try"} \X Raised \X Raised \X {"plain", "try", "tryexpr"}

-----------------------------------------------------------------------------
(* match: two cases and what their bodies do, as a statement, in a loop, in
   another match, or on a caught error.  Left out: several alternatives, a
   guard after a literal or a binding, declarations and jumps in a body.   *)

CaseOf(kind, body) ==
    CASE kind = "a"     -> When(<<Lit("a")>>, <<>>, body)
      [] kind = "b"     -> When(<<Lit("b")>>, <<>>, body)
      [] kind = "bound" -> When(<<Bind("m")>>, <<>>, <<Expr(GetVar("m"))>> \o body)
      [] kind = "any"   -> When(<<Wildcard>>, <<>>, body)
      [] kind = "guard" -> When(<<Wildcard>>, Guess, body)

CaseBody(body) ==
    CASE body = "set"    -> <<Expr(SetVar("u", Const("u")))>>
      [] body = "call"   -> <<Expr(TryExpr(CallTo("risky", <<>>)))>>
      [] body = "return" -> <<ReturnIt("t")>>
      [] body = "match"  -> <<Match(<<CaseOf("b", <<Expr(GetVar("u"))>>), CaseOf("guard", <<>>)>>)>>

Matched(first, second, body, where) ==
    LET cases == <<CaseOf(first, CaseBody(body)), CaseOf(second, CaseBody(body))>>
    IN  CASE where = "plain" -> <<VarDecl("u"), Match(cases), VarDecl("v")>>
          [] where = "loop"  -> <<VarDecl("u"), For(<<Match(cases), VarDecl("v")>>)>>
          [] where = "catch" -> <<VarDecl("u"),
                                  TryMatch(<<VarDecl("w"), [FailIt EXCEPT !.value = Const("a")]>>,
                                           "m", cases), VarDecl("v")>>

Kinds == {"a", "b", "bound", "any", "guard"}
Matches == {"match"} \X Kinds \X Kinds \X {"set", "call", "return", "match"}
                     \X {"plain", "loop", "catch"}

-----------------------------------------------------------------------------
(* Classes: K declares m and n, L below it has an m that calls the other
   one, M below L has one that does not.  A method is called in five ways,
   by a script or by a function, and does what ends it or its caller.      *)

KClass(done) ==
    Class("K", "", <<Defaulted("x")>>, <<
        Fun("init", <<Param("p")>>, <<VarDecl("a"), Expr(SetField(SelfExpr, "y", GetVar("p")))>>),
        Fun("m", <<Defaulted("q")>>, <<VarDecl("b"), Expr(GetVar("q"))>> \o done \o <<ReturnIt("t")>>),
        Fun("n", <<>>, <<VarDecl("b"), VarIs("t", MethodOf(SelfExpr, "m", <<>>)), VarDecl("c")>>),
        Fun("s", <<Param("p")>>, <<VarDecl("a"), ReturnIt("t")>>)>>)
LClass ==
    Class("L", "K", <<>>, <<
        Fun("init", <<Defaulted("p")>>, <<VarDecl("a"), Expr(SuperOf("init", <<Const("p")>>))>>),
        Fun("m", <<>>, <<VarDecl("d"), VarIs("t", SuperOf("m", <<Const("q")>>)),
                         Keep("d"), ReturnIt("t")>>)>>)
MClass == Class("M", "L", <<>>, <<
        Fun("init", <<>>, <<VarDecl("a")>>),
        Fun("m", <<>>, <<VarDecl("a"), ReturnIt("t")>>)>>)

Using(use) ==
    CASE use = "direct" -> <<VarIs("t", MethodOf(GetVar("o"), "m", <<>>))>>
      [] use = "above"  -> <<VarIs("t", MethodOf(GetVar("o"), "n", <<>>))>>
      [] use = "bound"  -> <<VarIs("m", Field(GetVar("o"), "m")), VarIs("t", CallTo("m", <<>>))>>
      [] use = "static" -> <<VarIs("t", MethodOf(GetVar("K"), "s", <<Const("p")>>))>>
      [] use = "field"  -> <<Expr(SetField(GetVar("o"), "g", Lambda("g", <<VarDecl("a")>>))),
                             VarIs("t", MethodOf(GetVar("o"), "g", <<>>))>>

Made(class) == CallTo(class, IF class = "K" THEN <<Const("p")>> ELSE <<>>)

Classes == {"class"} \X {"K", "L"} \X {"direct", "above", "bound", "static", "field"}
               \X Raised \X {"plain", "try", "tryexpr"}

ClassScript(class, use, raised, caller) ==
    <<KeepIs, KClass(Raise(raised)), LClass,
      Fun("f", <<Defaulted("p")>>, <<VarIs("o", Made(class)), VarDecl("u")>> \o Using(use)
                                     \o <<VarDecl("v"), Expr(Field(GetVar("o"), "y"))>>)>>
      \o Callers(caller)

-----------------------------------------------------------------------------
(* Fibers: f waits between its declarations; it is spawned twice, or a
   closure over a variable of a function that has returned is.  Left out: a
   closure over a variable that is still on the stack of another fiber.    *)

Sleepy(last) == <<VarDecl("a")>> \o Local("g", <<Expr(SetVar("a", Const("a"))), Expr(WaitFor)>>)
                  \o <<Expr(WaitFor), VarDecl("b")>> \o last

Fibers == {"fiber"} \X {"function", "closure"} \X {"return", "fail"}

FiberScript(what, last) ==
    IF what = "function"
    THEN <<Fun("f", <<>>, Sleepy(<<JumpOf(last)>>)), Expr(Spawn(GetVar("f"))), Expr(Spawn(GetVar("f"))),
           Expr(WaitFor)>>
    ELSE <<KeepIs, Fun("f", <<>>, <<VarDecl("x"), [ReturnIt("t") EXCEPT !.value =
             Lambda("h", <<VarDecl("a"), Expr(SetVar("x", GetVar("x"))), Expr(WaitFor)>>
                         \o <<JumpOf(last)>>)]>>),
           Expr(SetVar("keep", CallTo("f", <<>>))), Expr(Spawn(GetVar("keep"))), Expr(WaitFor),
           Expr(Spawn(CallTo("f", <<>>))), Expr(CallTo("keep", <<>>))>>

-----------------------------------------------------------------------------
(* Programs of their own: what ends a fiber, and what the families above
   have no room for.                                                       *)

Special ==
    [recursion |-> <<Fun("f", <<>>, <<VarDecl("a"), Expr(CallTo("f", <<>>))>>),
                     Try(<<Expr(CallTo("f", <<>>))>>, "", <<>>)>>,
     arity     |-> <<Fun("f", <<Param("p")>>, <<>>), Expr(CallTo("f", <<>>))>>,
     undefined |-> <<Try(<<Expr(GetVar("keep"))>>, "", <<>>)>>,
     unset     |-> <<Expr(SetVar("keep", Const("x")))>>,
     refused   |-> <<[VarDecl("keep") EXCEPT !.s = "const"], Expr(SetVar("keep", Const("x")))>>,
     iterate   |-> <<[For(<<>>) EXCEPT !.iterable = Const("x")]>>,
     wait      |-> <<Expr([WaitFor EXCEPT !.value = Const("x")])>>,
     outside   |-> <<KeepIs, Plain("break")>>,
     \* two closures over one variable, one of them outliving it, in two loops
     shared    |-> <<KeepIs, For(<<VarDecl("x"), Keep("x"), VarIs("g", Lambda("g",
                         <<Expr(SetVar("x", Const("x")))>>)), While(<<VarDecl("y"),
                         Expr(CallTo("g", <<>>)), If(<<Plain("break")>>, <<Plain("continue")>>)>>),
                         Expr(CallTo("keep", <<>>))>>)>>,
     \* what an instance of a class two below the first one answers
     grandchild |-> <<KeepIs, KClass(<<>>), LClass, MClass,
                      Block(<<VarIs("o", CallTo("M", <<>>)), Expr(MethodOf(GetVar("o"), "n", <<>>))>>)>>,
     \* a function that names itself
     nested    |-> <<Fun("f", <<>>, <<VarDecl("a"), Fun("g", <<>>,
                         <<If(<<Expr(CallTo("g", <<>>))>>, <<>>)>>), Expr(CallTo("g", <<>>))>>),
                     Expr(CallTo("f", <<>>))>>,
     \* operators and collections, each with its operands on the stack
     operators |-> <<Enum("E", <<Param("x"), Defaulted("y")>>), Fun("f", <<>>,
                       <<VarIs("n", Operation("Arithmetic", Const("d"), Unary("Negate", Const("d")))),
                         VarIs("list", Collection("list", <<Const("a"), Collection("b", <<>>)>>)),
                         Expr(Increase("n")), Expr(IncreaseElement(GetVar("list"))),
                         Expr(SetElement(GetVar("list"))), Expr(Element(GetVar("list"))),
                         VarIs("true", Unary("Not", Coalesce([e |-> "none"], [e |-> "none"]))),
                         Expr(Choice(Field(GetVar("E"), "x"), SafeField([e |-> "none"], "x"))),
                         Expr(Coalesce(SafeField(GetVar("E"), "y"), Const("x"))),
                         AssertThat(Operation("Compare", GetVar("n"), Const("d")), <<>>),
                          AssertThat(Operation("Compare", GetVar("n"), Const("d")), <<Const("x")>>),
                         AssertThat(Operation("Equal", Const("x"), Const("x")), <<>>),
                         AssertThat(GetVar("true"), <<>>), AssertThat(GetVar("n"), <<Const("x")>>),
                         For(<<VarDecl("a"), Expr(MethodOf(GetVar("list"), "pop", <<>>))>>),
                         VarIs("list", Operation("BuildRange", Const("d"), Const("n"))),
                         Expr(SetField(GetVar("E"), "z", Const("d"))),
                         Expr(IncreaseField(GetVar("E"), "z")),
                         AssertThat(Operation("Equal", Const("x"), Const("y")), <<>>)>>),
                     Expr(CallTo("f", <<>>))>>,
     \* what a field may hold that is called as a method
     members   |-> <<KClass(<<>>), Fun("f", <<>>, <<VarIs("o", Made("K")), VarDecl("u"),
                        Try(<<Expr(SetField(GetVar("o"), "g", GetVar("risky"))),
                              Expr(TryExpr(MethodOf(GetVar("o"), "g", <<>>))),
                              Expr(MethodOf(GetVar("o"), "g", <<>>)),
                              Expr(TryExpr(MethodOf(Const("list"), "pop", <<>>))),
                              Expr(MethodOf(Const("list"), "pop", <<>>))>>, "e", <<VarDecl("v")>>),
                        Expr(SetField(GetVar("o"), "g", GetVar("K"))),
                        VarIs("o", MethodOf(GetVar("o"), "g", <<Const("p")>>)),
                        Expr(SetField(GetVar("o"), "g", Field(GetVar("o"), "m"))),
                        VarIs("t", MethodOf(GetVar("o"), "g", <<Const("q")>>)),
                        Expr(Field(GetVar("K"), "m")), Expr(SetField(GetVar("K"), "z", Const("x"))),
                        Expr(Field(GetVar("K"), "z")), Expr(SafeField(GetVar("o"), "y")),
                        Expr(SafeField(GetVar("o"), "n")), Expr(SafeField(GetVar("K"), "m")),
                        Expr(SafeField(GetVar("K"), "z")), Expr(SafeField(Const("list"), "length")),
                        Expr(SetField(GetVar("o"), "g", Const("x"))),
                        Expr(MethodOf(GetVar("o"), "g", <<>>))>>),
                     Expr(CallTo("f", <<>>))>>,
     \* what ends the fiber
     field     |-> <<KClass(<<>>), Block(<<VarIs("o", Made("K")), Expr(Field(GetVar("o"), "z"))>>)>>,
     member    |-> <<KClass(<<>>), Expr(Field(GetVar("K"), "z"))>>,
     method    |-> <<KClass(<<>>), Block(<<VarIs("o", Made("K")),
                                           Expr(MethodOf(GetVar("o"), "z", <<>>))>>)>>,
     receiver  |-> <<Expr(MethodOf(Const("x"), "z", <<>>))>>,
     target    |-> <<Expr(SetField(Const("x"), "z", Const("x")))>>,
     extends   |-> <<[LClass EXCEPT !.extends = "risky"]>>,
     nothing   |-> <<KeepIs, [LClass EXCEPT !.extends = "keep"]>>,
     orphan    |-> <<[KClass(<<Expr(SuperOf("m", <<>>))>>) EXCEPT !.name = "K"],
                     Block(<<VarIs("o", Made("K")), Expr(MethodOf(GetVar("o"), "m", <<>>))>>)>>,
     absent    |-> <<KClass(<<>>), Class("L", "K", <<>>, <<Fun("z", <<>>, <<Expr(SuperOf("z", <<>>))>>)>>),
                     Block(<<VarIs("o", CallTo("L", <<Const("p")>>)),
                             Expr(MethodOf(GetVar("o"), "z", <<>>))>>)>>,
     bare      |-> <<Class("K", "", <<Defaulted("x")>>, <<>>),
                     Block(<<VarIs("o", CallTo("K", <<>>)), Expr(CallTo("K", <<Const("p")>>))>>)>>,
     dispatch  |-> <<KClass(<<>>), Block(<<VarIs("s", Field(GetVar("K"), "s")),
                                           Expr(Field(Const("list"), "length")),
                                           VarDecl("x"), Expr(CallTo("x", <<>>))>>)>>,
     spawned   |-> <<Expr(Spawn([e |-> "none"]))>>,
     \* yield where the value is not used
     yields    |-> <<Fun("f", <<>>, <<VarDecl("a"), [ReturnIt("t") EXCEPT !.value = YieldUp]>>),
                     Expr(CallTo("f", <<>>))>>]

Specials == {"special"} \X DOMAIN Special

(* Under FailPolicy::Log an error nobody catches is logged. *)
Logged == {"log"} \X {"before", "local"} \X {"break", "risky"}

(* What runs of their own show wrong: yield as a statement, and several
   alternatives in one case.                                               *)
Wrong ==
    [yield |-> <<Fun("f", <<>>, <<VarDecl("a"), Expr(YieldUp), VarDecl("b"), Expr(GetVar("a"))>>),
                 Expr(CallTo("f", <<>>))>>,
     alternatives |-> Script(<<VarDecl("u"), Match(<<
                         When(<<Lit("a"), Lit("b"), Lit("c")>>, <<>>, CaseBody("set")),
                         CaseOf("any", CaseBody("set"))>>), VarDecl("v")>>, "plain")]

YieldPrograms == {<<"wrong", "yield">>}
AlternativePrograms == {<<"wrong", "alternatives">>}

-----------------------------------------------------------------------------
AllPrograms == Loops \cup Tries \cup Matches \cup Classes \cup Fibers \cup Specials \cup Logged

MCScriptOf(c) ==
    CASE c[1] = "loop"    -> Script(LoopIn(c[4], c[5], Body(c[2], c[3])), c[6])
      [] c[1] = "try"     -> Script(Tried(c[2], c[3]), c[4])
      [] c[1] = "match"   -> Script(Matched(c[2], c[3], c[4], c[5]), "plain")
      [] c[1] = "class"   -> ClassScript(c[2], c[3], c[4], c[5])
      [] c[1] = "fiber"   -> FiberScript(c[2], c[3])
      [] c[1] = "special" -> Special[c[2]]
      [] c[1] = "wrong"   -> Wrong[c[2]]
      [] c[1] = "log"     -> Script(LoopIn("while", "none", Body(c[2], c[3])), "plain")
                                 \o <<Expr(CallTo("risky", <<>>)), Expr(FailExpr)>>

MCCodeOf(c) == Compile(MCScriptOf(c))
MCPolicyOf(c) == IF c[1] = "log" THEN "log" ELSE "error"

-----------------------------------------------------------------------------
(* The shapes of a program, found by following its code: each instruction,
   with each shape it has been reached with, until no more come up.  A stack
   that has grown to MaxHeight is not followed further: it never stops.    *)
MaxHeight == 30

RECURSIVE Explore(_, _, _, _, _)
Explore(fns, log, fc, reached, left) ==
    IF left = {} THEN reached
    ELSE LET place == CHOOSE p \in left : TRUE
             new == {q \in Flow(fns, log, fc, place[1], place[2]) :
                        q[1] \in DOMAIN fc.code /\ q[2].height <= MaxHeight} \ reached
         IN  Explore(fns, log, fc, reached \cup new, (left \ {place}) \cup new)

FunctionShapes(fns, log, fc) ==
    LET start == {<<1, Entry(fc)>>}
        found == Explore(fns, log, fc, start, start)
    IN  [i \in DOMAIN fc.code |-> {p[2] : p \in {q \in found : q[1] = i}}]

MCShapesOf(c) ==
    LET fns == MCCodeOf(c)
    IN  [n \in DOMAIN fns |-> FunctionShapes(fns, MCPolicyOf(c) = "log", fns[n])]

(* The programs with one fiber in which no try statement has a captured
   variable to drop: SpawnFiber is in no trusted code, and a handler leaves
   the upvalues of its own frame open.                                     *)
OneFiber == {c \in AllPrograms : c[1] # "fiber" /\ c # <<"special", "spawned">>}
ToBeTrusted == {c \in OneFiber : c[1] = "loop" => c[2] = "none" \/ c[5] = "none"}

(* What the compiler makes of a program is trusted code: on every path each
   instruction finds the slots, the try expressions and the upvalues it was
   compiled for.  This is what the theorems of InterpreterProofs assume of a
   program.  (It is about code alone, so it is asked before anything ran.) *)
CompiledCodeVerified ==
    outcome = "running" /\ Len(frames) = 1 /\ Frame.ip = 1 /\ program \in ToBeTrusted
        => program \in Trusted
=============================================================================
