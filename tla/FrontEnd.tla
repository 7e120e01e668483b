------------------------------ MODULE FrontEnd ------------------------------
(***************************************************************************)
(* What the front end of ni promises about a text: how lines nest, what    *)
(* formatting keeps of a program and of its comments, which variables the  *)
(* linter warns about.  Each is stated on its own terms, not with the      *)
(* definitions of the lexer, the parser, the printer and the linter, and   *)
(* holds of every text an editor shows.                                    *)
(***************************************************************************)
EXTENDS Blocks, Printer, Lint

CONSTANT Variables          \* names that the texts declare as variables, once

(* What the lexer or else the parser makes of a text. *)
ParseText(pieces) == IF Lex(pieces).ok THEN Parse(Lex(pieces).tokens) ELSE Lex(pieces)

(***************************************************************************)
(* Expressions written without parentheses.  An operand demands a level of *)
(* the operators that may go on with it; the words after an expression are *)
(* its operands' too when they meet a demand that is still open.           *)
(***************************************************************************)
Level(op) ==
    CASE op \in Assignments -> 1
      [] op \in {"or", "??"} -> 4
      [] op = "and" -> 6
      [] op \in {"==", "!=", "is", "in"} -> 8
      [] op \in {"<", ">", "<=", ">="} -> 10
      [] op \in {"..", "..="} -> 12
      [] op \in {"+", "-"} -> 14
      [] op \in {"*", "/", "%"} -> 16
      [] OTHER -> 20
FromTheRight == Assignments \cup {"or", "??", "and", "<", ">", "<=", ">="}
Demand(op) == IF op \in FromTheRight THEN Level(op) ELSE Level(op) + 1

(* next: the operator after the expression, "last" or "line" when it ends the
   line of a statement that is, or is not, the last one of its block, and
   "close" before anything else.                                           *)
LineEnd == {"last", "line"}
Joins(next, demand) ==
    CASE next \in LineEnd \cup {"close"} -> FALSE
      [] next = "if" -> demand < 3
      [] OTHER -> Level(next) >= demand

(* The innermost expression at the start of an expression that has an operand
   before its word, or the one that has nothing before it.                  *)
LeftOf(e) == IF e[1] = "Infix" THEN e[3] ELSE e[2]
Leads == {"Infix", "IfExpr", "GetField", "SafeNav", "GetIndex", "Call", "Method"}
RECURSIVE FirstIn(_)
FirstIn(e) == IF e[1] \in Leads /\ LeftOf(e)[1] \in Leads \cup {"Prefix", "Lambda"}
              THEN FirstIn(LeftOf(e)) ELSE e

StartsWithWord(e) == FirstIn(e)[1] = "Lambda" \/ (FirstIn(e)[1] = "Prefix" /\ FirstIn(e)[2] \in {"try", "fail"})
NameThen(e, op) == FirstIn(e)[1] = "Infix" /\ FirstIn(e)[2] = op /\ FirstIn(e)[3][1] = "Id"

(* A body written on the line of its lambda is the value it returns. *)
Inline(body) == Len(body) = 1 /\ (body[1][1] = "Expr" \/ (body[1][1] = "Return" /\ body[1][3] # <<>>))

(* Texts that are written as they are between quotes, and read the same.  A
   label has no quote, no backslash and no line end.  A docstring keeps its
   backslashes where no escape begins with them, and its line ends but for a
   first and a last one; the margin that all of its lines have is lost.  The
   text of an interpolated string has no backtick, no backslash, no line end
   and no left brace, which begins an expression.                          *)
LabelSame(chars) == Range(chars) \cap {"quote", "back", "nl"} = {}

Escapes == {"back", "quote", "tick", "lbrace", "rbrace"}
Starts(chars) == {i \in DOMAIN chars : i = 1 \/ chars[i - 1] = "nl"}
Bare(chars, i) == \A j \in i .. Len(chars) :
                     (\A h \in i .. j : chars[h] # "nl") => chars[j] = "space"
DocstringSame(chars) ==
    /\ \A i \in DOMAIN chars :
          /\ chars[i] = "nl" => i \notin {1, Len(chars)}
          /\ chars[i] = "quote" => i < Len(chars) /\ {chars[j] : j \in i .. Min({i + 2, Len(chars)})} # {"quote"}
          /\ chars[i] = "back" => i < Len(chars) /\ chars[i + 1] \notin Escapes
    /\ (\E i \in Starts(chars) : chars[i] = "space" /\ ~Bare(chars, i))
          => \E i \in Starts(chars) : chars[i] # "space" /\ ~Bare(chars, i)

LiteralSame(chars) == Range(chars) \cap {"tick", "back", "nl", "lbrace"} = {}

(* One recursive operator: what is written, and for an expression the demand
   it is under and what comes next, for the others how they end.           *)
RECURSIVE Same(_, _, _)
Reads(e, demand, next) == Same("expression", e, <<demand, next>>)
KeepsBody(body) == Same("body", body, "last")
KeepsSections(sections) == \A k \in DOMAIN sections : Same("section", sections[k], "")
KeepsStatement(s, end) == Same("statement", s, end)
Alone(e) == Reads(e, 0, "close")
AllAlone(es) == \A k \in DOMAIN es : Alone(es[k])
ParamsAlone(params) == \A k \in DOMAIN params : AllAlone(params[k][3])
NamedAlone(named) == \A k \in DOMAIN named : Alone(named[k][2])
Positional(args) == AllAlone(args) /\ \A k \in DOMAIN args : ~NameThen(args[k], "=")

(* The operand at the end of an expression, under a demand. *)
Closing(e, demand, next) == Reads(e, demand, next) /\ ~Joins(next, demand)

ReadsSame(e, demand, next) ==
    CASE e[1] = "Infix" ->
            /\ Level(e[2]) >= demand
            /\ Reads(e[3], demand, e[2]) /\ Closing(e[4], Demand(e[2]), next)
      [] e[1] = "Prefix" ->
            Closing(e[3], IF e[2] \in {"spawn", "wait", "await"} THEN 20 ELSE 18, next)
      [] e[1] = "IfExpr" ->
            demand < 3 /\ Reads(e[2], demand, "if") /\ Reads(e[3], 3, "close")
                /\ Closing(e[4], 0, next)
      [] e[1] = "Yield" -> IF e[2] = <<>> THEN next \in LineEnd ELSE Closing(e[2][1], 2, next)
      [] e[1] = "Lambda" ->
            /\ ParamsAlone(e[2])
            /\ IF Inline(e[3]) THEN e[3][1][1] = "Return" /\ Closing(e[3][1][3][1], 0, next)
               ELSE next = "last" /\ KeepsBody(e[3])
      [] e[1] \in {"GetField", "SafeNav"} -> Reads(e[2], demand, ".")
      [] e[1] = "GetIndex" -> Reads(e[2], demand, "[") /\ Alone(e[3])
      [] e[1] = "Call" -> Reads(e[2], demand, "(") /\ Positional(e[3]) /\ NamedAlone(e[4])
      [] e[1] = "Method" -> Reads(e[2], demand, ".") /\ Positional(e[4]) /\ NamedAlone(e[5])
      [] e[1] = "Super" -> Positional(e[3])
      [] e[1] = "List" -> AllAlone(e[2])
      [] e[1] = "Map" -> \A k \in DOMAIN e[2] : AllAlone(e[2][k])
      [] e[1] = "FStr" ->
            \A k \in DOMAIN e[2] :
                IF e[2][k][1] = "expr" THEN Reads(e[2][k][2], 0, "line") ELSE LiteralSame(e[2][k][2])
      [] OTHER -> TRUE

(* Statements and declarations that read the same when they are written.  The
   printer adds pass to a body without statements, gives a lambda of one
   expression its value back, leaves out the guards of a catch and the each
   clause of a spec, and takes a body that goes on over several lines for the
   end of its block.                                                       *)
Branch(b) == Alone(b[1]) /\ KeepsBody(b[2])

KeepsPattern(patterns, k) ==
    patterns[k][1] = "Literal" =>
        /\ Alone(patterns[k][2])
        /\ ~NameThen(patterns[k][2], "is")
        /\ ~(patterns[k][2][1] = "IfExpr" /\ patterns[k][2][2][1] = "Id")
        /\ patterns[k][2][1] = "Id" => k < Len(patterns)

KeepsCases(cases) ==
    \A k \in DOMAIN cases :
        /\ \A n \in DOMAIN cases[k][1] : KeepsPattern(cases[k][1], n)
        /\ AllAlone(cases[k][2]) /\ KeepsBody(cases[k][3])

KeepsHandler(handler) ==
    IF handler[1] = "Block" THEN KeepsBody(handler[2])
    ELSE KeepsCases(handler[2]) /\ \A k \in DOMAIN handler[2] : handler[2][k][2] = <<>>

StatementSame(s, end) ==
    CASE s[1] \in {"Var", "Const"} -> Reads(s[4], 0, end)
      [] s[1] = "Expr" ->
            Reads(s[3], 0, end) /\ ~StartsWithWord(s[3])
      [] s[1] = "Return" -> \A k \in DOMAIN s[3] : Reads(s[3][k], 0, end)
      [] s[1] = "Fail" -> Reads(s[3], 0, end)
      [] s[1] = "Assert" ->
            IF s[4] = <<>> THEN Reads(s[3], 0, end) ELSE Alone(s[3]) /\ Reads(s[4][1], 0, end)
      [] s[1] = "If" ->
            /\ \A k \in 1 .. 1 + Len(s[5]) : Branch((<<<<s[3], s[4]>>>> \o s[5])[k])
            /\ \A k \in DOMAIN s[6] : KeepsBody(s[6][k])
      [] s[1] = "While" -> Branch(<<s[3], s[4]>>)
      [] s[1] = "For" -> Branch(<<s[5], s[6]>>)
      [] s[1] = "Match" -> Alone(s[3]) /\ KeepsCases(s[4])
      [] s[1] = "Try" -> KeepsBody(s[3]) /\ KeepsHandler(s[5])
      [] OTHER -> TRUE

BodySame(body, end) ==
    /\ body # <<>>
    /\ \A k \in DOMAIN body : KeepsStatement(body[k], IF k = Len(body) THEN end ELSE "line")

(* The sections inside a section come after its statements. *)
SectionSame(s) ==
    /\ LabelSame(s[3])
    /\ Same("body", s[4], IF s[5] = <<>> THEN "last" ELSE "line")
    /\ KeepsSections(s[5])

KeepsDoc(doc) == \A k \in DOMAIN doc : DocstringSame(doc[k])
KeepsFun(f) == ParamsAlone(f[4]) /\ KeepsDoc(f[7]) /\ KeepsBody(f[6])
KeepsFields(fields) == \A f \in DOMAIN fields : \A k \in DOMAIN fields[f][2] : Reads(fields[f][2][k], 0, "line")

KeepsDeclaration(d, end) ==
    CASE d[1] = "Fun" -> KeepsFun(d)
      [] d[1] = "Class" ->
            /\ KeepsDoc(d[5]) /\ KeepsFields(d[6] \o d[7])
            /\ \A k \in 1 .. Len(d[8] \o d[9]) : KeepsFun((d[8] \o d[9])[k])
      [] d[1] = "Enum" -> KeepsFields(d[4])
      [] d[1] = "Spec" -> d[6] = <<>> /\ LabelSame(d[3]) /\ KeepsSections(d[5]) /\ KeepsBody(d[4])
      [] d[1] \in Imports -> TRUE
      [] OTHER -> KeepsStatement(d, end)

ProgramSame(program) ==
    /\ KeepsDoc(program.doc)
    /\ \A k \in DOMAIN program.decls :
        KeepsDeclaration(program.decls[k], IF k = Len(program.decls) THEN "last" ELSE "line")

Same(what, x, with) ==
    CASE what = "expression" -> ReadsSame(x, with[1], with[2])
      [] what = "body" -> BodySame(x, with)
      [] what = "section" -> SectionSame(x)
      [] what = "statement" -> StatementSame(x, with)
      [] what = "program" -> ProgramSame(x)

Keeps(program) == Same("program", program, "")

(* Formatting keeps the program: the text the printer answers with parses to
   the program of the text it was given, apart from the lines, if and only if
   that program reads the same without any parentheses, has none of what the
   printer cannot write, and its labels, docstrings and interpolated texts
   read the same without escapes.                                          *)
Unlined(tokens) == [k \in DOMAIN tokens |-> [tokens[k] EXCEPT ![3] = 0]]
ProgramOf(text) == IF Lex(text).ok THEN Parse(Unlined(Lex(text).tokens)) ELSE Lex(text)

FormatKeepsProgram ==
    \A u \in Open : \A answer \in Answers(shown[u]) :
        \A program \in {p \in {ProgramOf(shown[u])} : p.ok} :
            ProgramOf(answer) = program <=> Keeps(program)

(***************************************************************************)
(* Comments.  The printer asks for those of a line of its own up to a line *)
(* where a declaration or statement starts, and for the one at the end of  *)
(* such a line.                                                            *)
(***************************************************************************)
AsksFor(step, comment) ==
    IF comment.trailing THEN step = <<"trailing", comment.line>>
    ELSE step[1] = "leading" /\ step[2] > comment.line
Attached(comment, steps) == \E step \in Range(steps) : AsksFor(step, comment)

CommentsIn(text) == SelectSeq(text, LAMBDA piece : Kind(piece) = "//")
Kept(comments, programs) ==
    {comment \in Range(comments) :
        \E program \in programs : Attached(comment, Doc("program", program))}

(* Formatting writes each comment that belongs to the start of a declaration
   or statement, or stands before one, exactly once, and no other: a comment
   after the last of them, or inside one, is dropped, and so are all those of
   a text that does not parse.                                             *)
Carries(written, kept) ==
    /\ Len(written) = Cardinality(kept)
    /\ Range(written) = {<<"//", comment.text>> : comment \in kept}

CommentsKept ==
    \A u \in Open : \A answer \in Answers(shown[u]) :
        Carries(CommentsIn(answer), Kept(ExtractComments(shown[u]), Readings(shown[u])))

(***************************************************************************)
(* Variables.                                                              *)
(***************************************************************************)
Mentions(pieces, name) ==
    {i \in DOMAIN pieces : pieces[i] = <<"id", name>> /\ (i > 1 => Kind(pieces[i - 1]) \notin {".", "?."})}
Embedded(pieces) ==
    UNION {{part[2] : part \in {x \in Range(Text(pieces[i])) : x[1] = "expr"}} :
              i \in {j \in DOMAIN pieces : Kind(pieces[j]) = "fstr"}}

(* A variable is warned about if and only if its name is written nowhere but
   where it is declared, whatever expression, statement or declaration it is
   used in.                                                                *)
UnusedWarned ==
    \A u \in Open : \A name \in Variables :
        (diagnostics[u] # {<<"syntax", "", 0>>} /\ Mentions(shown[u], name) # {}) =>
            ((\E w \in diagnostics[u] : w[1] = "NI010" /\ w[2] = name)
                <=> /\ Cardinality(Mentions(shown[u], name)) = 1
                    /\ \A part \in Embedded(shown[u]) : Mentions(part, name) = {})
=============================================================================
