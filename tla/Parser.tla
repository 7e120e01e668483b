------------------------------- MODULE Parser -------------------------------
(***************************************************************************)
(* The parser of ni (src/crates/ni_parser): recursive descent for          *)
(* declarations and statements, binding powers for expressions.            *)
(*                                                                         *)
(* A parser is a record of its tokens, the index of the current one and    *)
(* the nesting depth; an error is a parser whose index is 0, on which no   *)
(* check succeeds, so that it stays an error to the end of the parse.      *)
(* What a method returns is [n |-> the node, p |-> the parser after it].   *)
(*                                                                         *)
(* A node is a tuple that starts with its kind; statements and             *)
(* declarations have the line they start on second.  Operators written     *)
(* between two operands share the kind "Infix", those before their operand *)
(* "Prefix".  An optional part is a sequence of at most one element.       *)
(***************************************************************************)
EXTENDS Lexer

CONSTANT MaxNesting         \* MAX_NESTING_DEPTH

ASSUME NestingAssumption == MaxNesting \in Nat \ {0}

NewParser(tokens, depth) == [ts |-> tokens, i |-> 1, d |-> depth]
Result(node, p) == [n |-> node, p |-> p]

Current(p) == IF p.i = 0 THEN <<"error", "", 0>> ELSE p.ts[p.i]
Following(p) == IF p.i \in 1 .. Len(p.ts) - 1 THEN p.ts[p.i + 1] ELSE <<"end", "", 0>>
At(p, kind) == Kind(Current(p)) = kind
AtAny(p, kinds) == Kind(Current(p)) \in kinds

Advance(p) == IF p.i \in {0, Len(p.ts)} THEN p ELSE [p EXCEPT !.i = @ + 1]
Fail(p) == [p EXCEPT !.i = 0]
Expect(p, kind) == IF At(p, kind) THEN Advance(p) ELSE Fail(p)

Identifier(p) ==
    CASE At(p, "id") -> Result(Text(Current(p)), Advance(p))
      [] AtAny(p, {"spawn", "type"}) -> Result(Kind(Current(p)), Advance(p))
      [] OTHER -> Result("", Fail(p))

ExpectLineEnd(p) ==
    CASE At(p, "newline") -> Advance(p)
      [] AtAny(p, {"eof", "dedent"}) -> p
      [] OTHER -> Fail(p)

RECURSIVE SkipNewlines(_)
SkipNewlines(p) == IF At(p, "newline") THEN SkipNewlines(Advance(p)) ELSE p

EnterNesting(p) == IF p.d < MaxNesting THEN [p EXCEPT !.d = @ + 1] ELSE Fail(p)
ExitNesting(r) == [r EXCEPT !.p.d = @ - 1]

-----------------------------------------------------------------------------
(* Binding powers.  An operator goes on with the expression on its left when
   LeftPower is at least the power asked for, and asks RightPower of the
   expression on its right.                                                *)

Assignments == {"=", "+=", "-=", "*=", "/=", "%="}
Equalities == {"==", "!=", "is", "in"}
Comparisons == {"<", ">", "<=", ">="}
Ranges == {"..", "..="}
Additions == {"+", "-"}
Multiplications == {"*", "/", "%"}
Postfixes == {"(", "[", ".", "?."}
BinaryOps == Assignments \cup {"or", "and", "??"} \cup Equalities \cup Comparisons
                \cup Ranges \cup Additions \cup Multiplications
TernaryPower == 3
UnaryPower == 18
CallPower == 20

LeftPower(op) ==
    CASE op \in Assignments -> 1
      [] op \in {"or", "??"} -> 4
      [] op = "and" -> 6
      [] op \in Equalities -> 8
      [] op \in Comparisons -> 10
      [] op \in Ranges -> 12
      [] op \in Additions -> 14
      [] op \in Multiplications -> 16
      [] op \in Postfixes -> CallPower

\* mutant: and groups from the left.
RightPowerLeftAnd(op) ==
    CASE op \in Assignments -> 1
      [] op \in {"or", "??"} -> 4
      [] op = "and" -> 7
      [] op \in Equalities \cup Comparisons -> 9
      [] op \in Ranges -> 13
      [] op \in Additions -> 15
      [] op \in Multiplications -> 17

RightPower(op) ==
    CASE op \in Assignments -> 1
      [] op \in {"or", "??"} -> 4
      [] op = "and" -> 6
      [] op \in Equalities \cup Comparisons -> 9
      [] op \in Ranges -> 13
      [] op \in Additions -> 15
      [] op \in Multiplications -> 17

PrefixPower(op) == IF op \in {"spawn", "wait", "await"} THEN CallPower ELSE UnaryPower
PrefixOps == {"-", "not", "try", "fail", "spawn", "wait", "await"}

(* One recursive operator for the whole grammar: a symbol, and the power, the
   kind of item or whatever else it is asked with.                         *)
RECURSIVE Rule(_, _, _)
Expression(p) == Rule("expression", p, 0)
BoundBy(p, power) == Rule("expression", p, power)
Statement(p) == Rule("statement", p, 0)
Block(p) == Rule("block", p, 0)
Items(p, what) == Rule("items", p, what)
TypeAnnotation(p) == Rule("type", p, 0)
ParamList(p) == Rule("parameters", p, 0)
Guarded(p) == Rule("guarded", p, 0)
FunDecl(p) == Rule("function", p, 0)
Field(p) == Rule("field", p, 0)
IndentedBlock(p, what) == Rule("indented", p, what)
PatternList(p) == Rule("patterns", p, 0)
EmbeddedExpr(p, pieces) == Rule("embedded", p, pieces)
Arguments(p) == Rule("arguments", p, 0)
PathOf(p) == Rule("path", p, 0)

(* {EXPR:...}: lexed and parsed alone, at the depth of the string; what is
   left after the expression is not looked at.                             *)
ParseLexed(lexed, depth) ==
    IF lexed.ok THEN Expression(NewParser(lexed.tokens, depth))
    ELSE Result(<<"None">>, Fail(NewParser(<<>>, depth)))

RECURSIVE FStringParts(_, _, _)
FStringParts(p, parts, acc) ==
    IF parts = <<>> THEN Result(<<"FStr", acc>>, p)
    ELSE IF Head(parts)[1] = "lit" THEN FStringParts(p, Tail(parts), Append(acc, Head(parts)))
    ELSE LET e == EmbeddedExpr(p, Head(parts)[2])
         IN  IF e.p.i = 0 THEN Result(<<"FStr", acc>>, Fail(p))
             ELSE FStringParts(p, Tail(parts), Append(acc, <<"expr", e.n>>))

(* e, e, ... up to stop; a comma before stop is allowed.  With stop "" there
   is none: the list ends where no comma follows.                          *)
RECURSIVE Elements(_, _, _)
Elements(p, acc, stop) ==
    LET e == Expression(p)
        more == Append(acc, e.n)
    IN  IF ~At(e.p, ",") THEN Result(more, e.p)
        ELSE IF At(Advance(e.p), stop) THEN Result(more, Advance(e.p))
        ELSE Elements(Advance(e.p), more, stop)

(* A bare name is a string when it is the key of an entry in braces. *)
MapKey(p, stop) ==
    IF stop = "}" /\ At(p, "id") /\ Kind(Following(p)) = ":"
    THEN Result(<<"Str", <<Text(Current(p))>>>>, Advance(p))
    ELSE Expression(p)

RECURSIVE Entries(_, _, _)
Entries(key, acc, stop) ==
    LET value == Expression(Expect(key.p, ":"))
        more == Append(acc, <<key.n, value.n>>)
        next == Advance(value.p)
    IN  CASE ~At(value.p, ",") -> Result(<<"Map", more>>, Expect(value.p, stop))
          [] At(value.p, ",") /\ At(next, stop) -> Result(<<"Map", more>>, Advance(next))
          [] OTHER -> Entries(MapKey(next, stop), more, stop)

BracketLiteral(p) ==
    IF At(p, ":") THEN Result(<<"Map", <<>>>>, Expect(Advance(p), "]"))
    ELSE IF At(p, "]") THEN Result(<<"List", <<>>>>, Advance(p))
    ELSE LET first == Expression(p)
             rest == Elements(p, <<>>, "]")
         IN  IF At(first.p, ":") THEN Entries(first, <<>>, "]")
             ELSE Result(<<"List", rest.n>>, Expect(rest.p, "]"))

BraceLiteral(p) ==
    IF At(p, "}") THEN Result(<<"Map", <<>>>>, Advance(p)) ELSE Entries(MapKey(p, "}"), <<>>, "}")

RECURSIVE TypeArgs(_, _)
ParseType(p) ==
    LET name == Identifier(p)
        args == TypeArgs(Advance(name.p), <<>>)
    IN  IF At(name.p, "[") THEN Result(<<name.n, args.n>>, Expect(args.p, "]"))
        ELSE Result(<<name.n, <<>>>>, name.p)

TypeArgs(p, acc) ==
    LET t == TypeAnnotation(p)
    IN  IF At(t.p, ",") THEN TypeArgs(Advance(t.p), Append(acc, t.n))
        ELSE Result(Append(acc, t.n), t.p)

Optional(p, kind, r) == IF At(p, kind) THEN Result(<<r.n>>, r.p) ELSE Result(<<>>, p)

OptionalType(p) == Optional(p, ":", TypeAnnotation(Advance(p)))
OptionalValue(p) == Optional(p, "=", Expression(Advance(p)))

Param(p) ==
    LET name == Identifier(p)
        type == OptionalType(name.p)
        default == OptionalValue(type.p)
    IN  Result(<<name.n, type.n, default.n>>, default.p)

RECURSIVE Params(_, _)
Params(p, acc) ==
    LET param == Rule("parameter", p, 0)
        more == Append(acc, param.n)
    IN  IF At(param.p, ",") THEN Params(Advance(param.p), more) ELSE Result(more, param.p)

ParseParams(p) ==
    LET open == Expect(p, "(")
        ps == IF At(open, ")") THEN Result(<<>>, open) ELSE Params(open, <<>>)
    IN  Result(ps.n, Expect(ps.p, ")"))

(* The statements or other items of an indented block, to its Dedent. *)
ParseIndented(p, what) == Items(Expect(p, "indent"), what)

(* A block: indented, or one statement on the same line. *)
ParseBlock(p) ==
    LET q == EnterNesting(p)
        single == Statement(q)
    IN  ExitNesting(IF At(q, "newline") THEN IndentedBlock(Advance(q), "statement")
                    ELSE Result(<<single.n>>, single.p))

Lambda(p, line) ==
    LET params == ParamList(p)
        body == Expect(params.p, ":")
        block == Block(body)
        value == Expression(body)
    IN  IF At(body, "newline") THEN Result(<<"Lambda", params.n, block.n>>, block.p)
        ELSE Result(<<"Lambda", params.n, <<<<"Return", line, <<value.n>>>>>>>>, value.p)

ArgList(p) ==
    LET args == IF At(p, ")") THEN Result(<<>>, p) ELSE Elements(p, <<>>, "")
    IN  Result(args.n, Expect(args.p, ")"))

SuperCall(p) ==
    LET method == Identifier(Expect(p, "."))
        args == ArgList(Advance(method.p))
    IN  IF At(method.p, "(") THEN Result(<<"Super", method.n, args.n>>, args.p)
        ELSE Result(<<"Super", method.n, <<>>>>, method.p)

Yield(p) ==
    LET value == BoundBy(p, 2)
    IN  IF AtAny(p, {"newline", "eof", "dedent"}) THEN Result(<<"Yield", <<>>>>, p)
        ELSE Result(<<"Yield", <<value.n>>>>, value.p)

Literals == {"int", "float", "str", "true", "false", "none", "self", "id"}
LiteralNode(t) ==
    CASE Kind(t) = "int" -> <<"Int", Text(t)>>
      [] Kind(t) = "float" -> <<"Float", Text(t)>>
      [] Kind(t) = "str" -> <<"Str", Text(t)>>
      [] Kind(t) \in {"true", "false"} -> <<"Bool", Kind(t)>>
      [] Kind(t) = "none" -> <<"None">>
      [] Kind(t) = "self" -> <<"Self">>
      [] Kind(t) = "id" -> <<"Id", Text(t)>>

PrefixInner(p) ==
    LET t == Current(p)
        q == Advance(p)
        operand == BoundBy(q, PrefixPower(Kind(t)))
        inner == Expression(q)
    IN  CASE Kind(t) \in Literals -> Result(LiteralNode(t), q)
          [] Kind(t) = "type" -> Result(<<"Id", "type">>, q)
          [] Kind(t) = "fstr" -> FStringParts(q, Text(t), <<>>)
          [] Kind(t) = "super" -> SuperCall(q)
          [] Kind(t) \in PrefixOps -> Result(<<"Prefix", Kind(t), operand.n>>, operand.p)
          [] Kind(t) = "(" -> Result(inner.n, Expect(inner.p, ")"))
          [] Kind(t) = "[" -> BracketLiteral(q)
          [] Kind(t) = "{" -> BraceLiteral(q)
          [] Kind(t) = "fun" -> Lambda(q, Line(t))
          [] Kind(t) = "yield" -> Yield(q)
          [] OTHER -> Result(<<"None">>, Fail(p))

ParsePrefix(p) == ExitNesting(PrefixInner(EnterNesting(p)))

(* Positional arguments, then named ones. *)
RECURSIVE CallArgs(_, _, _)
CallArgs(p, positional, named) ==
    LET isNamed == At(p, "id") /\ Kind(Following(p)) = "="
        e == Expression(IF isNamed THEN Advance(Advance(p)) ELSE p)
        args == IF isNamed THEN <<positional, Append(named, <<Text(Current(p)), e.n>>)>>
                ELSE <<Append(positional, e.n), named>>
    IN  IF ~isNamed /\ named # <<>> THEN Result(args, Fail(p))
        ELSE IF At(e.p, ",") THEN CallArgs(Advance(e.p), args[1], args[2])
        ELSE Result(args, e.p)

ParseCall(left) ==
    LET p == Advance(left.p)
        args == IF At(p, ")") THEN Result(<<<<>>, <<>>>>, p) ELSE Arguments(p)
    IN  Result(IF left.n[1] = "GetField"
               THEN <<"Method", left.n[2], left.n[3], args.n[1], args.n[2]>>
               ELSE <<"Call", left.n, args.n[1], args.n[2]>>,
               Expect(args.p, ")"))

ParseInfix(left) ==
    LET op == Kind(Current(left.p))
        p == Advance(left.p)
        right == BoundBy(p, RightPower(op))
        index == Expression(p)
        name == Identifier(p)
    IN  CASE op \in BinaryOps -> Result(<<"Infix", op, left.n, right.n>>, right.p)
          [] op = "(" -> ParseCall(left)
          [] op = "[" -> Result(<<"GetIndex", left.n, index.n>>, Expect(index.p, "]"))
          [] op = "." -> Result(<<"GetField", left.n, name.n>>, name.p)
          [] op = "?." -> Result(<<"SafeNav", left.n, name.n>>, name.p)

Ternary(left) ==
    LET condition == BoundBy(Advance(left.p), TernaryPower)
        other == BoundBy(Expect(condition.p, "else"), 0)
    IN  Result(<<"IfExpr", left.n, condition.n, other.n>>, other.p)

RECURSIVE Extend(_, _)
Extend(left, power) ==
    LET op == Kind(Current(left.p))
    IN  CASE op = "if" /\ power < TernaryPower -> Extend(Ternary(left), power)
          [] op \in BinaryOps \cup Postfixes /\ LeftPower(op) >= power ->
                Extend(ParseInfix(left), power)
          [] OTHER -> left

ParseBp(p, power) == Extend(ParsePrefix(p), power)

-----------------------------------------------------------------------------
(* Statements. *)

LineOf(p) == Line(Current(p))
Ended(node, r) == Result(node, ExpectLineEnd(r.p))

(* var name = value, const name = value *)
Binding(p, kind) ==
    LET name == Identifier(Advance(p))
        value == Expression(Expect(name.p, "="))
    IN  Ended(<<kind, LineOf(p), name.n, value.n>>, value)

Docstring(body) ==
    IF body # <<>> /\ body[1][1] = "Expr" /\ body[1][3][1] = "Str" THEN <<body[1][3][2]>> ELSE <<>>

ParseFun(p) ==
    LET name == Identifier(Expect(p, "fun"))
        params == ParamList(name.p)
        returns == Optional(params.p, "->", TypeAnnotation(Advance(params.p)))
        body == Block(Expect(returns.p, ":"))
        doc == Docstring(body.n)
    IN  Result(<<"Fun", LineOf(p), name.n, params.n, returns.n,
                 IF doc = <<>> THEN body.n ELSE Tail(body.n), doc>>, body.p)

(* A function inside a block is a variable that holds a lambda. *)
NestedFun(p) ==
    LET f == FunDecl(p)
    IN  Result(<<"Var", LineOf(p), f.n[3], <<"Lambda", f.n[4], f.n[6]>>>>, f.p)

BlockItem(p) ==
    CASE At(p, "var") -> Binding(p, "Var")
      [] At(p, "const") -> Binding(p, "Const")
      [] At(p, "fun") -> NestedFun(p)
      [] OTHER -> Statement(p)

(* condition: block *)
ParseGuarded(p) ==
    LET condition == Expression(p)
        body == Block(Expect(condition.p, ":"))
    IN  Result(<<condition.n, body.n>>, body.p)

RECURSIVE Elifs(_, _)
Elifs(p, acc) ==
    IF ~At(p, "elif") THEN Result(acc, p)
    ELSE LET branch == Guarded(Advance(p)) IN Elifs(branch.p, Append(acc, branch.n))

IfStmt(p) ==
    LET then == Guarded(Advance(p))
        elifs == Elifs(then.p, <<>>)
        else == Optional(elifs.p, "else", Block(Expect(Advance(elifs.p), ":")))
    IN  Result(<<"If", LineOf(p), then.n[1], then.n[2], elifs.n, else.n>>, else.p)

WhileStmt(p) ==
    LET loop == Guarded(Advance(p))
    IN  Result(<<"While", LineOf(p), loop.n[1], loop.n[2]>>, loop.p)

ForStmt(p) ==
    LET variable == Identifier(Advance(p))
        second == Optional(variable.p, ",", Identifier(Advance(variable.p)))
        loop == Guarded(Expect(second.p, "in"))
    IN  Result(<<"For", LineOf(p), variable.n, second.n, loop.n[1], loop.n[2]>>, loop.p)

Pattern(p) ==
    LET t == Current(p)
        type == Identifier(Advance(Advance(p)))
        literal == Expression(p)
    IN  CASE Kind(t) = "id" /\ Text(t) = "_" -> Result(<<"Wildcard">>, Advance(p))
          [] Kind(t) = "id" /\ Text(t) # "_" /\ Kind(Following(p)) = "is" ->
                Result(<<"TypeCheck", Text(t), type.n>>, type.p)
          [] Kind(t) = "id" /\ Text(t) # "_" /\ Kind(Following(p)) \in {"if", ":"} ->
                Result(<<"Binding", Text(t)>>, Advance(p))
          [] OTHER -> Result(<<"Literal", literal.n>>, literal.p)

RECURSIVE Patterns(_, _)
Patterns(p, acc) ==
    LET one == Pattern(p)
    IN  IF At(one.p, ",") THEN Patterns(Advance(one.p), Append(acc, one.n))
        ELSE Result(Append(acc, one.n), one.p)

MatchCase(p) ==
    LET patterns == PatternList(Expect(p, "when"))
        guard == Optional(patterns.p, "if", Expression(Advance(patterns.p)))
        body == Block(Expect(guard.p, ":"))
    IN  Result(<<patterns.n, guard.n, body.n>>, body.p)

MatchStmt(p) ==
    LET subject == Expression(Advance(p))
        cases == IndentedBlock(Expect(Expect(subject.p, ":"), "newline"), "case")
    IN  Result(<<"Match", LineOf(p), subject.n, cases.n>>, cases.p)

(* What follows catch is cases when its block starts with one. *)
CatchBody(p) ==
    LET indent == Advance(p)
        cases == IndentedBlock(indent, "case")
        block == Block(p)
        single == Statement(p)
    IN  CASE ~At(p, "newline") -> Result(<<"Block", <<single.n>>>>, single.p)
          [] At(p, "newline") /\ At(indent, "indent") /\ At(Advance(indent), "when") ->
                Result(<<"Match", cases.n>>, cases.p)
          [] OTHER -> Result(<<"Block", block.n>>, block.p)

TryStmt(p) ==
    LET body == Block(Expect(Advance(p), ":"))
        catch == Expect(body.p, "catch")
        named == Identifier(catch)
        variable == IF At(catch, ":") THEN Result(<<>>, catch) ELSE Result(<<named.n>>, named.p)
        handler == CatchBody(Expect(variable.p, ":"))
    IN  Result(<<"Try", LineOf(p), body.n, variable.n, handler.n>>, handler.p)

ReturnStmt(p) ==
    LET q == Advance(p)
        value == Expression(q)
    IN  IF AtAny(q, {"newline", "eof", "dedent"})
        THEN Result(<<"Return", LineOf(p), <<>>>>, ExpectLineEnd(q))
        ELSE Ended(<<"Return", LineOf(p), <<value.n>>>>, value)

AssertStmt(p) ==
    LET condition == Expression(Advance(p))
        message == Optional(condition.p, ",", Expression(Advance(condition.p)))
    IN  Ended(<<"Assert", LineOf(p), condition.n, message.n>>, message)

ParseStatement(p) ==
    LET value == Expression(Advance(p))
        expr == Expression(p)
    IN  CASE At(p, "if") -> IfStmt(p)
          [] At(p, "while") -> WhileStmt(p)
          [] At(p, "for") -> ForStmt(p)
          [] At(p, "match") -> MatchStmt(p)
          [] At(p, "return") -> ReturnStmt(p)
          [] AtAny(p, {"break", "continue", "pass"}) ->
                Result(<<Kind(Current(p)), LineOf(p)>>, ExpectLineEnd(Advance(p)))
          [] At(p, "try") -> TryStmt(p)
          [] At(p, "fail") -> Ended(<<"Fail", LineOf(p), value.n>>, value)
          [] At(p, "assert") -> AssertStmt(p)
          [] OTHER -> Ended(<<"Expr", LineOf(p), expr.n>>, expr)

-----------------------------------------------------------------------------
(* Declarations. *)

ParseField(p) ==
    LET name == Identifier(Expect(p, "var"))
        default == OptionalValue(name.p)
    IN  Ended(<<name.n, default.n>>, default)

(* A member and the list of the class it goes to; after a static that is
   neither a field nor a method the parser just goes on.                   *)
ClassMember(p) ==
    LET static == At(p, "static")
        q == IF static THEN Advance(p) ELSE p
        prefix == IF static THEN "static " ELSE ""
        field == Field(q)
        method == FunDecl(q)
    IN  CASE At(q, "var") -> Result(<<prefix \o "field", field.n>>, field.p)
          [] At(q, "fun") -> Result(<<prefix \o "method", method.n>>, method.p)
          [] static /\ ~AtAny(q, {"var", "fun"}) -> Result(<<"nothing">>, q)
          [] OTHER -> Result(<<"nothing">>, Fail(q))

MembersOf(members, list) ==
    LET kept == SelectSeq(members, LAMBDA m : m[1] = list)
    IN  [k \in DOMAIN kept |-> kept[k][2]]

SkipDocstring(p) ==
    IF ~AtAny(p, {"str", "fstr"}) THEN p
    ELSE IF At(Advance(p), "newline") THEN Advance(Advance(p)) ELSE Advance(p)

(* The characters of a string, which for an interpolated one are those in
   which the lexer hands its parts on; an expression in it stands as one.  *)
NoKeys(chars) == {}
Characters == INSTANCE StringScan WITH text <- <<>>, Keys <- NoKeys

Handed(parts) ==
    <<"__fstring__:">> \o Characters!Encode([k \in DOMAIN parts |->
        IF parts[k][1] = "lit" THEN parts[k] ELSE <<"expr", <<ToString(parts[k][2])>>>>])
Content(t) == IF Kind(t) = "fstr" THEN Handed(Text(t)) ELSE Text(t)

ClassNode(p, name, super, open, members) ==
    LET list(which) == MembersOf(members.n, which)
    IN  Result(<<"Class", LineOf(p), name, super,
                 IF AtAny(open, {"str", "fstr"}) THEN <<Content(Current(open))>> ELSE <<>>,
                 list("field"), list("static field"), list("method"), list("static method")>>,
               members.p)

OpenBlock(p) == Expect(Expect(Expect(p, ":"), "newline"), "indent")

ClassDecl(p) ==
    LET name == Identifier(Advance(p))
        super == Optional(name.p, "extends", Identifier(Advance(name.p)))
        open == OpenBlock(super.p)
    IN  ClassNode(p, name.n, super.n, open, Items(SkipDocstring(open), "member"))

Variant(p) ==
    LET name == Identifier(p)
        value == OptionalValue(name.p)
    IN  Ended(<<name.n, value.n>>, value)

EnumDecl(p) ==
    LET name == Identifier(Advance(p))
        variants == IndentedBlock(Expect(Expect(name.p, ":"), "newline"), "variant")
    IN  Result(<<"Enum", LineOf(p), name.n, variants.n>>, variants.p)

RECURSIVE Path(_, _)
Path(p, acc) ==
    LET name == Identifier(p)
    IN  IF At(name.p, ".") THEN Path(Advance(name.p), Append(acc, name.n))
        ELSE Result(Append(acc, name.n), name.p)

Alias(p) == Optional(p, "as", Identifier(Advance(p)))

ImportDecl(p) ==
    LET path == PathOf(Advance(p))
        alias == Alias(path.p)
    IN  Ended(<<"Import", LineOf(p), path.n, alias.n>>, alias)

RECURSIVE ImportNames(_, _)
ImportNames(p, acc) ==
    LET name == Identifier(p)
        alias == Alias(name.p)
        more == Append(acc, <<name.n, alias.n>>)
    IN  IF At(alias.p, ",") THEN ImportNames(Advance(alias.p), more) ELSE Result(more, alias.p)

FromImportDecl(p) ==
    LET path == PathOf(Advance(p))
        import == Expect(path.p, "import")
        names == Rule("import names", import, 0)
    IN  IF At(import, "*")
        THEN Result(<<"FromAll", LineOf(p), path.n>>, ExpectLineEnd(Advance(import)))
        ELSE Ended(<<"From", LineOf(p), path.n, names.n>>, names)

(* A string between a keyword and its colon. *)
Label(p) ==
    IF AtAny(p, {"str", "fstr"}) THEN Result(Content(Current(p)), Advance(p))
    ELSE Result(<<>>, Fail(p))

Sections == {"given", "when", "then"}
Split(items, sections) == SelectSeq(items, LAMBDA x : (x[1] = "Section") = sections)

SpecSection(p) ==
    LET kind == Kind(Current(p))
        label == Label(Advance(p))
        open == Expect(label.p, ":")
        leaf == Block(open)
        items == IndentedBlock(Expect(open, "newline"), "section item")
    IN  IF kind = "then" THEN Result(<<"Section", kind, label.n, leaf.n, <<>>>>, leaf.p)
        ELSE Result(<<"Section", kind, label.n, Split(items.n, FALSE), Split(items.n, TRUE)>>,
                    items.p)

EachItems(p) ==
    LET open == Advance(p)
        items == IF At(open, ")") THEN Result(<<>>, open) ELSE Elements(open, <<>>, ")")
    IN  IF At(p, "(") THEN Result(items.n, Expect(items.p, ")")) ELSE Elements(p, <<>>, "")

SpecNode(p, name, each, items) ==
    Result(<<"Spec", LineOf(p), name, Split(items.n, FALSE), Split(items.n, TRUE), each>>, items.p)

SpecDecl(p) ==
    LET name == Label(Advance(p))
        each == Optional(name.p, "each", EachItems(Advance(name.p)))
        colon == Expect(each.p, ":")
        line == IF At(name.p, "each") THEN SkipNewlines(colon) ELSE Expect(colon, "newline")
    IN  SpecNode(p, name.n, each.n, IndentedBlock(line, "spec item"))

Item(p, what) ==
    CASE what = "statement" -> BlockItem(p)
      [] what = "case" -> MatchCase(p)
      [] what = "member" -> ClassMember(p)
      [] what = "variant" -> Variant(p)
      [] what = "spec item" /\ AtAny(p, Sections) -> SpecSection(p)
      [] what = "section item" /\ AtAny(p, {"when", "then"}) -> SpecSection(p)
      [] OTHER -> BlockItem(p)

RECURSIVE ItemsFrom(_, _, _)
ItemsFrom(p, acc, what) ==
    LET q == SkipNewlines(p)
        item == Rule("item", q, what)
    IN  IF AtAny(q, {"dedent", "eof", "error"})
        THEN Result(acc, IF At(q, "dedent") THEN Advance(q) ELSE q)
        ELSE ItemsFrom(item.p, Append(acc, item.n), what)

Declaration(p) ==
    CASE AtAny(p, {"var", "const"}) -> Binding(p, IF At(p, "var") THEN "Var" ELSE "Const")
      [] At(p, "fun") -> FunDecl(p)
      [] At(p, "class") -> ClassDecl(p)
      [] At(p, "enum") -> EnumDecl(p)
      [] At(p, "import") -> ImportDecl(p)
      [] At(p, "from") -> FromImportDecl(p)
      [] At(p, "spec") -> SpecDecl(p)
      [] OTHER -> Statement(p)

RECURSIVE Declarations(_, _)
Declarations(p, acc) ==
    LET q == SkipNewlines(p)
        decl == Rule("declaration", q, 0)
    IN  IF AtAny(q, {"eof", "error"}) THEN Result(acc, q)
        ELSE Declarations(decl.p, Append(acc, decl.n))

Rule(symbol, p, with) ==
    CASE symbol = "expression" -> ParseBp(p, with)
      [] symbol = "statement" -> ParseStatement(p)
      [] symbol = "block" -> ParseBlock(p)
      [] symbol = "indented" -> ParseIndented(p, with)
      [] symbol = "items" -> ItemsFrom(p, <<>>, with)
      [] symbol = "guarded" -> ParseGuarded(p)
      [] symbol = "type" -> ParseType(p)
      [] symbol = "parameters" -> ParseParams(p)
      [] symbol = "function" -> ParseFun(p)
      [] symbol = "field" -> ParseField(p)
      [] symbol = "parameter" -> Param(p)
      [] symbol = "arguments" -> CallArgs(p, <<>>, <<>>)
      [] symbol = "path" -> Path(p, <<>>)
      [] symbol = "import names" -> ImportNames(p, <<>>)
      [] symbol = "patterns" -> Patterns(p, <<>>)
      [] symbol = "embedded" -> ParseLexed(Lex(with), p.d)
      [] symbol = "item" -> Item(p, with)
      [] symbol = "declaration" -> Declaration(p)
      [] symbol = "program" -> Declarations(p, <<>>)

(* parse: the declarations and the docstring of the program, or an error. *)
Program(r) ==
    LET doc == Docstring(r.n)
    IN  [ok |-> r.p.i # 0, doc |-> doc, decls |-> IF doc = <<>> THEN r.n ELSE Tail(r.n)]

Parse(tokens) == Program(Rule("program", NewParser(tokens, 0), 0))
=============================================================================
