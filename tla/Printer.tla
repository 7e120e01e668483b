------------------------------- MODULE Printer -------------------------------
(***************************************************************************)
(* The formatter of ni (src/crates/ni_fmt).  A program is laid out as a    *)
(* sequence of steps: a piece of source text to write, a line to begin or  *)
(* to end, the indentation to change, the comments before a line or at the *)
(* end of it to write.  Format carries the steps out.  A file that cannot  *)
(* be parsed is written from its tokens alone.  Spaces inside a line are   *)
(* left out, as in module Lexer.                                           *)
(***************************************************************************)
EXTENDS Parser

Piece(kind, text) == <<<<"piece", <<kind, text>>>>>>
Word(kind) == Piece(kind, "")
Name(x) == IF x \in {"spawn", "type"} THEN Word(x) ELSE Piece("id", x)
BeginLine == <<<<"line">>>>
EndLine == <<<<"end">>>>
Indented(doc) == <<<<"in">>>> \o doc \o <<<<"out">>>>
Leading(line) == <<<<"leading", line>>>>
Trailing(line) == <<<<"trailing", line>>>>

(* The layout of the elements of a list, one after the other or with a
   separator.                                                              *)
Every(xs, Lay(_)) == FlattenSeq([k \in DOMAIN xs |-> Lay(xs[k])])
Separated(xs, Lay(_), sep) ==
    FlattenSeq([k \in DOMAIN xs |-> (IF k = 1 THEN <<>> ELSE Word(sep)) \o Lay(xs[k])])
Comma(xs, Lay(_)) == Separated(xs, Lay, ",")

(* An optional part after the words that introduce it. *)
Maybe(part, before, Lay(_)) == Every(part, LAMBDA x : before \o Lay(x))

-----------------------------------------------------------------------------
(* Texts that are written between quotes as they are, without the escapes
   that the lexer has taken out: the pieces the lexer makes of what is
   written.  In an interpolated string the expressions stand in braces, each
   as one character of what is written, and what it reads in braces is their
   pieces.  A string of three quotes that does not end is "broken", which is
   so unless another one follows in the file.                              *)

Hole(k) == "expression " \o ToString(k)

PieceOf(char, exprs) ==
    LET here == {k \in DOMAIN exprs : char = Hole(k)}
    IN  CASE here # {} -> exprs[CHOOSE k \in here : TRUE]
          [] char = "nl" -> <<<<"nl", "">>>>
          [] char = "space" -> <<>>
          [] char = "lbrace" -> <<<<"{", "">>>>
          [] char = "rbrace" -> <<<<"}", "">>>>
          [] char = "back" -> <<<<"broken", "">>>>
          [] OTHER -> <<<<"id", char>>>>

(* The margin that all lines with anything on them have is taken off. *)
LineBefore(s, i) == Max({0} \cup {j \in 1 .. i - 1 : s[j] = "nl"})
FirstOnLine(s, i) ==
    s[i] \notin {"space", "nl"} /\ \A j \in LineBefore(s, i) + 1 .. i - 1 : s[j] = "space"
Margins(s) == {i - 1 - LineBefore(s, i) : i \in {j \in DOMAIN s : FirstOnLine(s, j)}}
Dedented(s) ==
    LET ended == IF s # <<>> /\ Last(s) = "nl" THEN Front(s) ELSE s
        margin == IF Margins(s) = {} THEN 0 ELSE Min(Margins(s))
    IN  FlattenSeq([i \in DOMAIN ended |->
            IF s[i] = "nl" \/ i - LineBefore(s, i) > margin THEN <<s[i]>> ELSE <<>>])

RECURSIVE ReadFrom(_, _, _)
PartRead(part, exprs) ==
    IF part[1] = "lit" THEN part ELSE <<"expr", ReadFrom(part[2], 1, exprs)>>

StringRead(s, i, parts, exprs) ==
    LET chars == IF parts = <<>> THEN <<>> ELSE parts[1][2]
    IN  IF Characters!Interpolated(parts)
        THEN <<"fstr", [k \in DOMAIN parts |-> PartRead(parts[k], exprs)]>>
        ELSE <<"str", IF Characters!Ahead(s, i, 3, s[i]) THEN Dedented(chars) ELSE chars>>

ReadFrom(s, i, exprs) ==
    IF i > Len(s) THEN <<>>
    ELSE IF s[i] \notin Characters!Quotes THEN PieceOf(s[i], exprs) \o ReadFrom(s, i + 1, exprs)
    ELSE LET string == Characters!StringAt(s, i)
         IN  IF string.is = "closed"
             THEN <<StringRead(s, i, string.parts, exprs)>> \o ReadFrom(s, string.i, exprs)
             ELSE <<<<"broken", "">>>>

Raw(quotes, chars, exprs) ==
    LET pieces == ReadFrom(quotes \o chars \o quotes, 1, exprs)
    IN  [k \in DOMAIN pieces |-> <<"piece", pieces[k]>>]

LabelDoc(chars) == Raw(<<"quote">>, chars, <<>>)
TripleDoc(chars) == Raw(<<"quote", "quote", "quote">>, chars, <<>>)

-----------------------------------------------------------------------------
(* Expressions: never a parenthesis around an operand. *)

(* One recursive operator for the layout of everything that nests. *)
RECURSIVE Doc(_, _)
TypeDoc(t) == Doc("type", t)
ExprDoc(e) == Doc("expression", e)
BodyDoc(body) == Doc("body", body)
StatementDoc(s) == Doc("statement", s)
SectionDoc(s) == Doc("section", s)
ParamDoc(param) == Doc("parameter", param)
FunDoc(f, words, comment) == Doc("function", <<f, words, comment>>)

TypeLayout(t) ==
    Name(t[1]) \o IF t[2] = <<>> THEN <<>> ELSE Word("[") \o Comma(t[2], TypeDoc) \o Word("]")

ParamLayout(param) ==
    Name(param[1]) \o Maybe(param[2], Word(":"), TypeDoc) \o Maybe(param[3], Word("="), ExprDoc)

NamedArgDoc(arg) == Name(arg[1]) \o Word("=") \o ExprDoc(arg[2])

ArgsDoc(positional, named) ==
    Word("(") \o Comma(positional, ExprDoc)
        \o (IF positional = <<>> \/ named = <<>> THEN <<>> ELSE Word(","))
        \o Comma(named, NamedArgDoc) \o Word(")")

EntryDoc(entry) == ExprDoc(entry[1]) \o Word(":") \o ExprDoc(entry[2])

MapDoc(entries) ==
    Word("[") \o (IF entries = <<>> THEN Word(":") ELSE Comma(entries, EntryDoc)) \o Word("]")

BlockDoc(body) == EndLine \o Indented(BodyDoc(body))

(* A body that is one expression, or the return of one, stays on the line. *)
LambdaDoc(params, body) ==
    LET inline == \/ Len(body) = 1 /\ body[1][1] = "Expr"
                  \/ Len(body) = 1 /\ body[1][1] = "Return" /\ body[1][3] # <<>>
    IN  Word("fun") \o Word("(") \o Comma(params, ParamDoc) \o Word(")") \o Word(":")
        \o IF ~inline THEN BlockDoc(body)
           ELSE ExprDoc(IF body[1][1] = "Expr" THEN body[1][3] ELSE body[1][3][1])

(* What is inside {...} in a string is written like any expression, and what
   is between is written as it is.                                         *)
PiecesOf(doc) == [k \in DOMAIN doc |-> doc[k][2]]
FStringDoc(parts) ==
    Raw(<<"tick">>,
        FlattenSeq([k \in DOMAIN parts |->
            IF parts[k][1] = "lit" THEN parts[k][2] ELSE <<"lbrace", Hole(k), "rbrace">>]),
        [k \in DOMAIN parts |->
            IF parts[k][1] = "lit" THEN <<>> ELSE PiecesOf(ExprDoc(parts[k][2]))])

(* A string is written with the escapes that the lexer takes out of it. *)
LiteralDoc(e) ==
    CASE e[1] = "Int" -> Piece("int", e[2])
      [] e[1] = "Float" -> Piece("float", e[2])
      [] e[1] = "Str" -> Piece("str", e[2])
      [] e[1] = "FStr" -> FStringDoc(e[2])
      [] e[1] = "Bool" -> Word(e[2])
      [] e[1] = "None" -> Word("none")
      [] e[1] = "Self" -> Word("self")
      [] e[1] = "Id" -> Name(e[2])

ExprLayout(e) ==
    CASE e[1] = "Prefix" -> Word(e[2]) \o ExprDoc(e[3])
      [] e[1] = "Infix" -> ExprDoc(e[3]) \o Word(e[2]) \o ExprDoc(e[4])
      [] e[1] = "GetField" -> ExprDoc(e[2]) \o Word(".") \o Name(e[3])
      [] e[1] = "SafeNav" -> ExprDoc(e[2]) \o Word("?.") \o Name(e[3])
      [] e[1] = "GetIndex" -> ExprDoc(e[2]) \o Word("[") \o ExprDoc(e[3]) \o Word("]")
      [] e[1] = "Call" -> ExprDoc(e[2]) \o ArgsDoc(e[3], e[4])
      [] e[1] = "Method" -> ExprDoc(e[2]) \o Word(".") \o Name(e[3]) \o ArgsDoc(e[4], e[5])
      [] e[1] = "Super" -> Word("super") \o Word(".") \o Name(e[2]) \o ArgsDoc(e[3], <<>>)
      [] e[1] = "List" -> Word("[") \o Comma(e[2], ExprDoc) \o Word("]")
      [] e[1] = "Map" -> MapDoc(e[2])
      [] e[1] = "Lambda" -> LambdaDoc(e[2], e[3])
      [] e[1] = "IfExpr" ->
            ExprDoc(e[2]) \o Word("if") \o ExprDoc(e[3]) \o Word("else") \o ExprDoc(e[4])
      [] e[1] = "Yield" -> Word("yield") \o Every(e[2], ExprDoc)
      [] OTHER -> LiteralDoc(e)

-----------------------------------------------------------------------------
(* Statements. *)

PassDoc == BeginLine \o Word("pass") \o EndLine

BodyLayout(body) ==
    IF body = <<>> THEN PassDoc
    ELSE Every(body, LAMBDA s : Leading(s[2]) \o StatementDoc(s))

(* A line that ends the statement, and one that opens a block. *)
LineDoc(s, doc) == BeginLine \o doc \o Trailing(s[2]) \o EndLine
HeadDoc(s, doc, body) ==
    BeginLine \o doc \o Word(":") \o Trailing(s[2]) \o BlockDoc(body)

(* The lines inside a statement that open a block have no comments. *)
BranchDoc(doc, body) == BeginLine \o doc \o Word(":") \o BlockDoc(body)

BindingDoc(s) ==
    LineDoc(s, Word(IF s[1] = "Var" THEN "var" ELSE "const") \o Name(s[3]) \o Word("=")
                \o ExprDoc(s[4]))

IfDoc(s) ==
    HeadDoc(s, Word("if") \o ExprDoc(s[3]), s[4])
        \o Every(s[5], LAMBDA b : BranchDoc(Word("elif") \o ExprDoc(b[1]), b[2]))
        \o Every(s[6], LAMBDA b : BranchDoc(Word("else"), b))

ForDoc(s) ==
    HeadDoc(s, Word("for") \o Name(s[3]) \o Maybe(s[4], Word(","), Name) \o Word("in")
                \o ExprDoc(s[5]), s[6])

PatternDoc(pattern) ==
    CASE pattern[1] = "Literal" -> ExprDoc(pattern[2])
      [] pattern[1] = "Wildcard" -> Name("_")
      [] pattern[1] = "Binding" -> Name(pattern[2])
      [] pattern[1] = "TypeCheck" -> Name(pattern[2]) \o Word("is") \o Name(pattern[3])

CaseDoc(case) ==
    BranchDoc(Word("when") \o Comma(case[1], PatternDoc) \o Maybe(case[2], Word("if"), ExprDoc),
              case[3])

MatchDoc(s) ==
    BeginLine \o Word("match") \o ExprDoc(s[3]) \o Word(":") \o Trailing(s[2]) \o EndLine
        \o Indented(Every(s[4], CaseDoc))

(* The cases of a catch are written without their guards. *)
CatchCaseDoc(case) == BranchDoc(Word("when") \o Comma(case[1], PatternDoc), case[3])

TryDoc(s) ==
    HeadDoc(s, Word("try"), s[3])
        \o BeginLine \o Word("catch") \o Every(s[4], Name) \o Word(":")
        \o IF s[5][1] = "Block" THEN BlockDoc(s[5][2])
           ELSE EndLine \o Indented(Every(s[5][2], CatchCaseDoc))

StatementLayout(s) ==
    CASE s[1] = "Expr" -> LineDoc(s, ExprDoc(s[3]))
      [] s[1] \in {"Var", "Const"} -> BindingDoc(s)
      [] s[1] = "If" -> IfDoc(s)
      [] s[1] = "While" -> HeadDoc(s, Word("while") \o ExprDoc(s[3]), s[4])
      [] s[1] = "For" -> ForDoc(s)
      [] s[1] = "Match" -> MatchDoc(s)
      [] s[1] = "Return" -> LineDoc(s, Word("return") \o Every(s[3], ExprDoc))
      [] s[1] \in {"break", "continue", "pass"} -> LineDoc(s, Word(s[1]))
      [] s[1] = "Try" -> TryDoc(s)
      [] s[1] = "Fail" -> LineDoc(s, Word("fail") \o ExprDoc(s[3]))
      [] s[1] = "Assert" ->
            LineDoc(s, Word("assert") \o ExprDoc(s[3]) \o Maybe(s[4], Word(","), ExprDoc))

-----------------------------------------------------------------------------
(* Declarations. *)

DocstringDoc(doc) == Every(doc, LAMBDA chars : BeginLine \o TripleDoc(chars) \o EndLine)

(* The comment at the end of the first line is looked for on the line given,
   which for a method is the line of its class; a static method has none.  *)
FunLayout(f, words, comment) ==
    BeginLine \o words \o Word("fun") \o Name(f[3]) \o Word("(") \o Comma(f[4], ParamDoc)
        \o Word(")") \o Maybe(f[5], Word("->"), TypeDoc) \o Word(":") \o comment \o EndLine
        \o Indented(DocstringDoc(f[7]) \o BodyDoc(f[6]))

FieldDoc(field, words) ==
    BeginLine \o words \o Word("var") \o Name(field[1]) \o Maybe(field[2], Word("="), ExprDoc)
        \o EndLine

ClassDoc(c) ==
    LET methods == Every(c[8], LAMBDA m : <<FunDoc(m, <<>>, Trailing(c[2]))>>)
                     \o Every(c[9], LAMBDA m : <<FunDoc(m, Word("static"), <<>>)>>)
    IN  BeginLine \o Word("class") \o Name(c[3]) \o Maybe(c[4], Word("extends"), Name)
        \o Word(":") \o Trailing(c[2]) \o EndLine
        \o Indented(DocstringDoc(c[5])
            \o Every(c[6], LAMBDA f : FieldDoc(f, <<>>))
            \o Every(c[7], LAMBDA f : FieldDoc(f, Word("static")))
            \o (IF c[6] \o c[7] # <<>> /\ methods # <<>> THEN EndLine ELSE <<>>)
            \o FlattenSeq([k \in DOMAIN methods |->
                              (IF k = 1 THEN <<>> ELSE EndLine) \o methods[k]]))

VariantDoc(v) == BeginLine \o Name(v[1]) \o Maybe(v[2], Word("="), ExprDoc) \o EndLine

EnumDoc(e) ==
    BeginLine \o Word("enum") \o Name(e[3]) \o Word(":") \o Trailing(e[2]) \o EndLine
        \o Indented(Every(e[4], VariantDoc))

PathDoc(path) == Separated(path, Name, ".")
ImportNameDoc(n) == Name(n[1]) \o Maybe(n[2], Word("as"), Name)

ImportDoc(i) ==
    LineDoc(i, CASE i[1] = "Import" -> Word("import") \o PathDoc(i[3]) \o Maybe(i[4], Word("as"), Name)
                 [] i[1] = "From" -> Word("from") \o PathDoc(i[3]) \o Word("import")
                                        \o Comma(i[4], ImportNameDoc)
                 [] i[1] = "FromAll" -> Word("from") \o PathDoc(i[3]) \o Word("import") \o Word("*"))

SectionLayout(s) ==
    BeginLine \o Word(s[2]) \o LabelDoc(s[3]) \o Word(":") \o EndLine
        \o Indented(BodyDoc(s[4]) \o Every(s[5], SectionDoc))

(* The sections come before the statements, and the each clause is gone. *)
SpecDoc(s) ==
    BeginLine \o Word("spec") \o LabelDoc(s[3]) \o Word(":") \o Trailing(s[2]) \o EndLine
        \o Indented(Every(s[5], SectionDoc) \o BodyDoc(s[4]))

DeclarationDoc(d) ==
    CASE d[1] = "Fun" -> FunDoc(d, <<>>, Trailing(d[2]))
      [] d[1] = "Class" -> ClassDoc(d)
      [] d[1] = "Enum" -> EnumDoc(d)
      [] d[1] \in {"Import", "From", "FromAll"} -> ImportDoc(d)
      [] d[1] = "Spec" -> SpecDoc(d)
      [] OTHER -> StatementDoc(d)

Blocks == {"Fun", "Class", "Enum", "Spec"}
Imports == {"Import", "From", "FromAll"}
BlankBetween(a, b) == {a, b} \cap Blocks # {} \/ (a \in Imports /\ b \notin Imports)

ProgramLayout(program) ==
    DocstringDoc(program.doc)
        \o FlattenSeq([k \in DOMAIN program.decls |->
              LET d == program.decls[k]
              IN  (IF k > 1 /\ BlankBetween(program.decls[k - 1][1], d[1]) THEN EndLine ELSE <<>>)
                  \o Leading(d[2]) \o DeclarationDoc(d)])

Doc(what, x) ==
    CASE what = "type" -> TypeLayout(x)
      [] what = "expression" -> ExprLayout(x)
      [] what = "body" -> BodyLayout(x)
      [] what = "statement" -> StatementLayout(x)
      [] what = "section" -> SectionLayout(x)
      [] what = "parameter" -> ParamLayout(x)
      [] what = "function" -> FunLayout(x[1], x[2], x[3])
      [] what = "program" -> ProgramLayout(x)

-----------------------------------------------------------------------------
(* The printer: the text so far, the indentation, the comments not written
   yet and the line up to which those on lines of their own were looked for. *)

NewPrinter(comments) ==
    [out |-> <<>>, indent |-> 0, comments |-> comments, next |-> 1]

MarginOf(indent) == IF indent = 0 THEN <<>> ELSE <<<<"sp", 4 * indent>>>>

EmitLeading(q, line) ==
    LET due == SelectSeq(q.comments, LAMBDA c : ~c.trailing /\ c.line \in q.next .. line - 1)
        lines == FlattenSeq([k \in DOMAIN due |->
                    MarginOf(q.indent) \o <<<<"//", due[k].text>>, <<"nl", "">>>>])
    IN  [q EXCEPT !.out = @ \o lines, !.next = line,
                  !.comments = SelectSeq(@, LAMBDA c : ~\E k \in DOMAIN due : due[k] = c)]

\* mutant: the comment at the end of a line is not taken off the list.
EmitTrailingAgain(q, line) ==
    LET here == SelectSeq(q.comments, LAMBDA c : c.trailing /\ c.line = line)
    IN  IF here = <<>> THEN q ELSE [q EXCEPT !.out = Append(@, <<"//", here[1].text>>)]

EmitTrailing(q, line) ==
    LET here == SelectSeq(q.comments, LAMBDA c : c.trailing /\ c.line = line)
    IN  IF here = <<>> THEN q
        ELSE [q EXCEPT !.out = Append(@, <<"//", here[1].text>>),
                       !.comments = SelectSeq(@, LAMBDA c : c # here[1])]

Emit(q, step) ==
    CASE step[1] = "piece" -> [q EXCEPT !.out = Append(@, step[2])]
      [] step[1] = "line" -> [q EXCEPT !.out = @ \o MarginOf(q.indent)]
      [] step[1] = "end" -> [q EXCEPT !.out = Append(@, <<"nl", "">>)]
      [] step[1] = "in" -> [q EXCEPT !.indent = @ + 1]
      [] step[1] = "out" -> [q EXCEPT !.indent = @ - 1]
      [] step[1] = "leading" -> EmitLeading(q, step[2])
      [] step[1] = "trailing" -> EmitTrailing(q, step[2])

RECURSIVE EmitAll(_, _, _)
EmitAll(q, steps, k) ==
    IF q.next = 0 \/ k > Len(steps) THEN q ELSE EmitAll(Emit(q, steps[k]), steps, k + 1)

PrintProgram(program, comments) ==
    EmitAll(NewPrinter(comments), Doc("program", program), 1).out

-----------------------------------------------------------------------------
(* The token formatter, for what the parser refuses: the lines of the
   tokens at their depth, a blank line before a top-level fun, class or
   enum, and no comment.                                                   *)

DepthAfter(depth, kind) ==
    CASE kind = "indent" -> depth + 1
      [] kind = "dedent" -> IF depth = 0 THEN 0 ELSE depth - 1
      [] OTHER -> depth

TokenStep(f, t) ==
    CASE Kind(t) = "newline" ->
            IF f.start THEN f
            ELSE [f EXCEPT !.out = Append(@, <<"nl", "">>), !.start = TRUE, !.margin = TRUE]
      [] Kind(t) \in {"indent", "dedent"} -> [f EXCEPT !.depth = DepthAfter(@, Kind(t))]
      [] Kind(t) = "eof" -> f
      [] OTHER ->
            LET blank == f.margin /\ f.depth = 0 /\ Kind(t) \in {"fun", "class", "enum"}
            IN  [f EXCEPT !.out = @ \o (IF blank THEN <<<<"nl", "">>>> ELSE <<>>)
                                    \o (IF f.start THEN MarginOf(f.depth) ELSE <<>>)
                                    \o <<<<Kind(t), Text(t)>>>>,
                          !.start = FALSE, !.margin = FALSE]

RECURSIVE TokenSteps(_, _, _)
TokenSteps(f, tokens, k) ==
    IF f.depth < 0 \/ k > Len(tokens) THEN f
    ELSE TokenSteps(TokenStep(f, tokens[k]), tokens, k + 1)

FormatTokens(tokens) ==
    LET f == TokenSteps([out |-> <<>>, depth |-> 0, start |-> TRUE, margin |-> FALSE], tokens, 1)
    IN  IF f.out = <<>> \/ Last(f.out) = <<"nl", "">> THEN f.out
        ELSE Append(f.out, <<"nl", "">>)

(* format: an error for what the lexer refuses, else the new text. *)
Rewrite(program, tokens, comments) ==
    IF program.ok THEN PrintProgram(program, comments) ELSE FormatTokens(tokens)

Format(pieces) ==
    LET lexed == Lex(pieces)
    IN  [ok |-> lexed.ok,
         text |-> IF ~lexed.ok THEN <<>>
                  ELSE Rewrite(Parse(lexed.tokens), lexed.tokens, ExtractComments(pieces))]
=============================================================================
