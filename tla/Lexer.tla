-------------------------------- MODULE Lexer --------------------------------
(***************************************************************************)
(* The structural part of ni's lexer (src/crates/ni_lexer): how lines,     *)
(* brackets, trailing operators, comments and columns become Newline,      *)
(* Indent and Dedent tokens, and which comments the formatter is given.    *)
(*                                                                         *)
(* Source text is a sequence of pieces <<kind, text>>.  A piece is a whole *)
(* lexeme (an operator, a keyword, <<"id", name>>, <<"str", value>>), a    *)
(* comment <<"//", text>>, a line end <<"nl">> or <<"crnl">>, a tab or the *)
(* spaces at the start of a line <<"sp", count>>.  A string is one piece   *)
(* <<"str", characters>> once module StringScan has read it, a stretch in  *)
(* which it could read none is a piece "broken", and the lines inside a    *)
(* string are not counted.  A token is <<kind, text, line>>.               *)
(***************************************************************************)
EXTENDS Integers, SequencesExt

CONSTANT MaxSource          \* MAX_SOURCE_SIZE

ASSUME SourceAssumption == MaxSource \in Nat \ {0}

Kind(t) == t[1]
Text(t) == t[2]
Line(t) == t[3]

LineEnds == {"nl", "crnl"}
Openers == {"(", "[", "{"}
Closers == {")", "]", "}"}

(* A line that ends in one of these goes on in the next one. *)
ContinuationOps ==
    {"+", "-", "/", "%", "==", "!=", "<", "<=", ">", ">=", "and", "or", "=",
     "+=", "-=", "*=", "/=", "%=", ",", ".", "->", "..", "..=", "?.", "??", "in", "is"}

-----------------------------------------------------------------------------
(* The cursor: the next piece, the line, whether it stands at column 1, the
   open brackets, whether the last token continues the line, the raw tokens.
   A text that is too large is refused before anything is read of it.      *)

NewCursor(pieces) ==
    [src |-> pieces, i |-> 1, line |-> 1, start |-> TRUE, depth |-> 0,
     continuation |-> FALSE, raw |-> <<>>, ok |-> Len(pieces) <= MaxSource]

AtEnd(c) == c.i > Len(c.src)
Peek(c) == IF AtEnd(c) THEN <<"end">> ELSE c.src[c.i]
Joined(c) == c.depth > 0 \/ c.continuation      \* line ends mean nothing here

Consume(c) ==
    LET newline == Kind(Peek(c)) \in LineEnds
    IN  [c EXCEPT !.i = @ + 1, !.start = newline, !.line = @ + IF newline THEN 1 ELSE 0]

Skipped(c) ==
    \/ Kind(Peek(c)) = "sp" /\ (~c.start \/ Joined(c))
    \/ Kind(Peek(c)) = "tab" /\ c.depth > 0
    \/ Kind(Peek(c)) = "//"

Push(c, kind, text, line) ==
    [c EXCEPT !.raw = Append(@, <<kind, text, line>>),
              !.continuation = kind \in ContinuationOps]

(* Spaces at column 1: nothing on a blank line or before a comment, of which
   the line end is taken too; otherwise the column, for the blocks.        *)
Measure(c) ==
    LET after == Consume(c)
        comment == Kind(Peek(after)) = "//"
        past == IF comment THEN Consume(after) ELSE after
    IN  IF comment \/ Kind(Peek(after)) = "nl"
        THEN IF Kind(Peek(past)) = "nl" THEN Consume(past) ELSE past
        ELSE Push(after, "sp", Text(Peek(c)), c.line)

(* A plain line end is taken with those that follow it. *)
RunEnd(src, i) == Min({j \in i .. Len(src) + 1 : j > Len(src) \/ Kind(src[j]) # "nl"})
SkipLineEnds(c) ==
    LET next == RunEnd(c.src, c.i)
    IN  [c EXCEPT !.i = next, !.line = @ + (next - c.i), !.start = TRUE]

EndOfLine(c) ==
    LET past == IF Kind(Peek(c)) = "nl" THEN SkipLineEnds(c) ELSE Consume(c)
    IN  IF Joined(c) THEN past ELSE Push(past, "newline", "", c.line)

Bracket(c) ==
    [Push(Consume(c), Kind(Peek(c)), "", c.line)
        EXCEPT !.depth = IF Kind(Peek(c)) \in Openers THEN @ + 1
                         ELSE IF @ = 0 THEN 0 ELSE @ - 1]

(* A tab outside of brackets, and what is no lexeme. *)
Refused == {"tab", "broken"}

NextToken(c) ==
    CASE Kind(Peek(c)) \in Refused -> [c EXCEPT !.ok = FALSE]
      [] Kind(Peek(c)) = "sp" -> Measure(c)
      [] Kind(Peek(c)) \in LineEnds -> EndOfLine(c)
      [] Kind(Peek(c)) \in Openers \cup Closers -> Bracket(c)
      [] OTHER -> Push(Consume(c), Kind(Peek(c)), Text(Peek(c)), c.line)

(* One piece is skipped, or a token is read; each turn leaves fewer pieces. *)
Turn(c) ==
    IF ~c.ok \/ AtEnd(c) THEN c ELSE IF Skipped(c) THEN Consume(c) ELSE NextToken(c)

ScanAll(c) ==
    LET turn[n \in 0 .. Len(c.src)] == IF n = 0 THEN c ELSE Turn(turn[n - 1])
    IN  turn[Len(c.src)]

-----------------------------------------------------------------------------
(* The indent processor: columns of the open blocks, and whether the next
   token is the first of its line.                                         *)

Structural(kind, line) == <<kind, "", line>>
Repeated(token, count) == [k \in 1 .. count |-> token]

PopTo(s, column, line) ==
    LET left == Max({n \in DOMAIN s.columns : s.columns[n] <= column})
    IN  [s EXCEPT !.columns = SubSeq(@, 1, left),
                  !.out = @ \o Repeated(Structural("dedent", line), Len(s.columns) - left)]

NewlineStep(s, t) ==
    [s EXCEPT !.start = TRUE,
              !.out = IF @ = <<>> \/ Kind(Last(@)) \in {"newline", "indent"}
                      THEN @ ELSE Append(@, t)]

ColumnStep(s, t) ==
    LET column == Text(t)
        popped == PopTo([s EXCEPT !.start = FALSE], column, Line(t))
    IN  IF column > Last(s.columns)
        THEN [popped EXCEPT !.columns = Append(@, column),
                            !.out = Append(@, Structural("indent", Line(t)))]
        ELSE [popped EXCEPT !.ok = @ /\ Last(popped.columns) = column]

\* mutant: a line at column 0 leaves the blocks open.
PlainWithoutPop(s, t) == [s EXCEPT !.start = FALSE, !.out = Append(@, t)]

PlainStep(s, t) ==
    LET left == IF s.start /\ Kind(t) # "eof" THEN PopTo(s, 0, Line(t)) ELSE s
    IN  [left EXCEPT !.start = FALSE, !.out = Append(@, t)]

IndentStep(s, t) ==
    CASE Kind(t) = "newline" -> NewlineStep(s, t)
      [] Kind(t) = "sp" /\ s.start -> ColumnStep(s, t)
      [] OTHER -> PlainStep(s, t)

(* The blocks still open are closed before the end of the file, and a last
   line without a line end gets one.                                       *)
CloseAll(s) ==
    LET eof == Last(s.out)
        closed == Front(s.out) \o Repeated(Structural("dedent", Line(eof)), Len(s.columns) - 1)
        ended == IF closed = <<>> \/ Kind(Last(closed)) \in {"newline", "dedent"} THEN closed
                 ELSE Append(closed, Structural("newline", Line(eof)))
    IN  Append(ended, eof)

(* The tokens are taken in turn, up to the first error. *)
IndentNext(s, t) == IF s.ok THEN IndentStep(s, t) ELSE s
NewIndents == [columns |-> <<0>>, start |-> TRUE, out |-> <<>>, ok |-> TRUE]

IndentAll(raw) ==
    LET step[k \in 0 .. Len(raw)] ==
            IF k = 0 THEN NewIndents ELSE IndentNext(step[k - 1], raw[k])
    IN  step[Len(raw)]

Closed(s) == [ok |-> s.ok, tokens |-> IF s.ok THEN CloseAll(s) ELSE <<>>]
Process(raw) == Closed(IndentAll(raw))

(* lex: the tokens, or a syntax error. *)
Tokens(c) ==
    IF c.ok THEN Process(Append(c.raw, <<"eof", "", c.line>>)) ELSE [ok |-> FALSE, tokens |-> <<>>]

Lex(pieces) == Tokens(ScanAll(NewCursor(pieces)))

-----------------------------------------------------------------------------
(* extract_comments, a scan of its own: a comment is trailing when there is
   code before it on its line.                                             *)

CommentStep(s, p) ==
    CASE Kind(p) \in LineEnds -> [s EXCEPT !.line = @ + 1, !.code = FALSE]
      [] Kind(p) = "//" ->
            [s EXCEPT !.found = Append(@, [text |-> Text(p), line |-> s.line,
                                           trailing |-> s.code])]
      [] Kind(p) \in {"sp", "tab"} -> s
      [] OTHER -> [s EXCEPT !.code = TRUE]

ExtractComments(pieces) ==
    FoldLeft(CommentStep, [line |-> 1, code |-> FALSE, found |-> <<>>], pieces).found
=============================================================================
