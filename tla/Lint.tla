-------------------------------- MODULE Lint --------------------------------
(***************************************************************************)
(* The linter of ni (src/crates/ni_lint): naming conventions and variables *)
(* that are never used.                                                    *)
(*                                                                         *)
(* A walk over the program (the visitor) yields the sequence of what the   *)
(* checks react to: a scope opened or closed, a name declared in one of    *)
(* several ways, a name used.  Which names follow the conventions is a     *)
(* matter of their spelling, so the sets of those that do are constants.   *)
(***************************************************************************)
EXTENDS Parser

CONSTANTS SnakeNames,    \* names in snake_case
          PascalNames,   \* names in PascalCase
          SilentNames    \* names that start with an underscore

Visit(xs, Event(_)) == FlattenSeq([k \in DOMAIN xs |-> Event(xs[k])])
Declared(how, name) == <<<<how, name>>>>
Scope(events) == <<<<"open", "">>>> \o events \o <<<<"close", "">>>>

RECURSIVE Walk(_, _)
ExprEvents(e) == Walk("expression", e)
BodyEvents(body) == Walk("body", body)
StatementEvents(s) == Walk("statement", s)
SectionEvents(s) == Walk("section", s)
FunEvents(f) == Walk("function", f)
CaseEvents(case) == Walk("case", case)

(* The expressions inside an expression, in the order of the visit. *)
Operands(e) ==
    CASE e[1] = "Prefix" -> <<e[3]>>
      [] e[1] = "Infix" -> <<e[3], e[4]>>
      [] e[1] \in {"GetField", "SafeNav"} -> <<e[2]>>
      [] e[1] = "GetIndex" -> <<e[2], e[3]>>
      [] e[1] = "Call" -> <<e[2]>> \o e[3] \o [k \in DOMAIN e[4] |-> e[4][k][2]]
      [] e[1] = "Method" -> <<e[2]>> \o e[4] \o [k \in DOMAIN e[5] |-> e[5][k][2]]
      [] e[1] = "Super" -> e[3]
      [] e[1] \in {"List", "Yield"} -> e[2]
      [] e[1] = "Map" -> FlattenSeq(e[2])
      [] e[1] = "IfExpr" -> <<e[2], e[3], e[4]>>
      [] e[1] = "FStr" -> Visit(e[2], LAMBDA part : IF part[1] = "lit" THEN <<>> ELSE <<part[2]>>)
      [] OTHER -> <<>>

ParamEvents(params) ==
    Visit(params, LAMBDA p : Declared("param", p[1]) \o Visit(p[3], ExprEvents))

VisitExpr(e) ==
    CASE e[1] = "Id" -> Declared("use", e[2])
      [] e[1] = "Lambda" -> Scope(ParamEvents(e[2]) \o BodyEvents(e[3]))
      [] OTHER -> Visit(Operands(e), ExprEvents)

Branches(branches) == Visit(branches, LAMBDA b : ExprEvents(b[1]) \o BodyEvents(b[2]))

(* A name bound by the type it has is not recorded. *)
PatternEvents(pattern) ==
    CASE pattern[1] = "Literal" -> ExprEvents(pattern[2])
      [] pattern[1] = "Binding" -> Declared("param", pattern[2])
      [] OTHER -> <<>>

VisitCase(case) ==
    Scope(Visit(case[1], PatternEvents) \o Visit(case[2], ExprEvents) \o BodyEvents(case[3]))

(* The patterns of a catch are not visited, nor do its cases open scopes. *)
CatchEvents(handler) ==
    IF handler[1] = "Block" THEN BodyEvents(handler[2])
    ELSE Visit(handler[2], LAMBDA c : Visit(c[2], ExprEvents) \o BodyEvents(c[3]))

VisitStatement(s) ==
    CASE s[1] = "Var" -> ExprEvents(s[4]) \o Declared("var", s[3])
      [] s[1] = "Const" -> ExprEvents(s[4]) \o Declared("const", s[3])
      [] s[1] \in {"Expr", "Fail"} -> ExprEvents(s[3])
      [] s[1] = "Return" -> Visit(s[3], ExprEvents)
      [] s[1] = "Assert" -> ExprEvents(s[3]) \o Visit(s[4], ExprEvents)
      [] s[1] = "If" -> Branches(<<<<s[3], s[4]>>>> \o s[5]) \o Visit(s[6], BodyEvents)
      [] s[1] = "While" -> Branches(<<<<s[3], s[4]>>>>)
      [] s[1] = "For" ->
            ExprEvents(s[5]) \o Scope(Visit(<<s[3]>> \o s[4], LAMBDA v : Declared("param", v))
                                          \o BodyEvents(s[6]))
      [] s[1] = "Match" -> ExprEvents(s[3]) \o Visit(s[4], CaseEvents)
      [] s[1] = "Try" ->
            BodyEvents(s[3]) \o Scope(Visit(s[4], LAMBDA v : Declared("param", v))
                                          \o CatchEvents(s[5]))
      [] OTHER -> <<>>

VisitSection(s) == BodyEvents(s[4]) \o Visit(s[5], SectionEvents)

VisitFun(f) == Declared("fun", f[3]) \o Scope(ParamEvents(f[4]) \o BodyEvents(f[6]))

Defaults(fields) == Visit(fields, LAMBDA f : Visit(f[2], ExprEvents))

VisitDeclaration(d) ==
    CASE d[1] = "Fun" -> FunEvents(d)
      [] d[1] = "Class" ->
            Declared("class", d[3]) \o Defaults(d[6]) \o Visit(d[8], FunEvents)
                \o Defaults(d[7]) \o Visit(d[9], FunEvents)
      [] d[1] = "Enum" -> Declared("enum", d[3]) \o Defaults(d[4])
      [] d[1] = "Spec" ->
            BodyEvents(d[4]) \o Visit(d[5], SectionEvents)
                \o Visit(d[6], LAMBDA items : Visit(items, ExprEvents))
      [] d[1] \in {"Import", "From", "FromAll"} -> <<>>
      [] OTHER -> StatementEvents(d)

Walk(what, x) ==
    CASE what = "expression" -> VisitExpr(x)
      [] what = "statement" -> VisitStatement(x)
      [] what = "body" -> Visit(x, StatementEvents)
      [] what = "case" -> VisitCase(x)
      [] what = "section" -> VisitSection(x)
      [] what = "function" -> VisitFun(x)
      [] what = "program" -> Visit(x.decls, VisitDeclaration)

VisitProgram(program) == Walk("program", program)

-----------------------------------------------------------------------------
(* The check for unused variables: a stack of scopes, each the set of its
   entries, and the warnings given when a scope is closed.                 *)

Entry(name, at) == [name |-> name, at |-> at, used |-> FALSE]

RegisterVar(c, name, at) ==
    [c EXCEPT !.scopes[Len(c.scopes)] =
        {entry \in @ : entry.name # name} \cup {Entry(name, at)}]

\* mutant: a use counts in the innermost scope only.
MarkUsedHere(c, name) ==
    [c EXCEPT !.scopes[Len(c.scopes)] =
        {IF entry.name = name THEN [entry EXCEPT !.used = TRUE] ELSE entry : entry \in @}]

MarkUsed(c, name) ==
    LET holding == {k \in DOMAIN c.scopes : \E entry \in c.scopes[k] : entry.name = name}
    IN  IF holding = {} THEN c
        ELSE [c EXCEPT !.scopes[Max(holding)] =
                {IF entry.name = name THEN [entry EXCEPT !.used = TRUE] ELSE entry : entry \in @}]

PopScope(c) ==
    LET unused == {entry \in Last(c.scopes) : ~entry.used /\ entry.name \notin SilentNames}
    IN  [scopes |-> Front(c.scopes),
         warned |-> c.warned \cup {<<"NI010", entry.name, entry.at>> : entry \in unused}]

CheckEvent(c, event, at) ==
    CASE event[1] = "open" -> [c EXCEPT !.scopes = Append(@, {})]
      [] event[1] = "close" -> PopScope(c)
      [] event[1] \in {"var", "const", "param"} -> RegisterVar(c, event[2], at)
      [] event[1] = "use" -> MarkUsed(c, event[2])
      [] OTHER -> c

RECURSIVE CheckEvents(_, _, _)
CheckEvents(c, events, k) ==
    IF c.scopes = <<>> \/ k > Len(events) THEN c
    ELSE CheckEvents(CheckEvent(c, events[k], k), events, k + 1)

UnusedVars(events) == PopScope(CheckEvents([scopes |-> <<{}>>, warned |-> {}], events, 1)).warned

(* The check of the naming conventions. *)
NamingCode(event) ==
    CASE event[1] = "var" /\ event[2] \notin SnakeNames -> {"NI001"}
      [] event[1] = "fun" /\ event[2] \notin SnakeNames \cup {"init"} -> {"NI002"}
      [] event[1] = "const" /\ event[2] \notin SnakeNames -> {"NI003"}
      [] event[1] = "class" /\ event[2] \notin PascalNames -> {"NI004"}
      [] event[1] = "enum" /\ event[2] \notin PascalNames -> {"NI005"}
      [] OTHER -> {}

Naming(events) ==
    UNION {{<<code, events[k][2], k>> : code \in NamingCode(events[k])} : k \in DOMAIN events}

Warnings(events) == Naming(events) \cup UnusedVars(events)
LintProgram(program) == Warnings(VisitProgram(program))
=============================================================================
