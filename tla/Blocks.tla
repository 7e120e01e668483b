------------------------------- MODULE Blocks -------------------------------
(***************************************************************************)
(* What the lexer of ni promises about the lines of a text: the Indent and *)
(* Dedent tokens are those of the columns of its lines.  The lines, their  *)
(* columns and the brackets open before them are counted in the text       *)
(* itself, and not with the cursor and the stack of the lexer.             *)
(***************************************************************************)
EXTENDS LanguageServer, Lexer

(* The store takes every text that the lexer reads: both limits are 10 MB. *)
ASSUME LimitsAgree == MaxSource <= MaxText

Count(kinds, seq, i, j) == Cardinality({h \in i .. j : Kind(seq[h]) \in kinds})

(* Texts as an editor has them: spaces stand at the start of a line, where
   there is one at least, a comment goes on to a plain line end or the end of
   the text, and no lexeme has the kind of a token that only the lexer makes. *)
LineStart(src, i) == i = 1 \/ Kind(src[i - 1]) \in LineEnds
Made == {"newline", "indent", "dedent", "eof"}
WellFormed(src) ==
    \A i \in DOMAIN src :
        /\ Kind(src[i]) \notin Made
        /\ Kind(src[i]) = "sp" => LineStart(src, i) /\ Text(src[i]) \in Nat \ {0}
        /\ Kind(src[i]) = "//" /\ i < Len(src) => Kind(src[i + 1]) = "nl"

(***************************************************************************)
(* Lines.  A line counts when no bracket is open before it, the lexeme     *)
(* before it does not continue it, and something is on it: a lexeme, or    *)
(* spaces alone when they are not followed by a plain line end.            *)
(***************************************************************************)
Lexeme(piece) == Kind(piece) \notin LineEnds \cup {"sp", "tab", "//"}
LineOfPiece(src, i) == 1 + Count(LineEnds, src, 1, i - 1)

(* A bracket is open that was not closed since; one that closes nothing is
   as good as none.                                                        *)
Nested(src, i) ==
    \E j \in 1 .. i - 1 :
        /\ Kind(src[j]) \in Openers
        /\ \A h \in j .. i - 1 : Count(Openers, src, j, h) > Count(Closers, src, j, h)

GoesOn(src, i) ==
    \E j \in 1 .. i - 1 :
        /\ Kind(src[j]) \in ContinuationOps
        /\ \A h \in j + 1 .. i - 1 : ~Lexeme(src[h])

Filled(src, i) ==
    IF Kind(src[i]) = "sp"
    THEN i = Len(src) \/ Lexeme(src[i + 1]) \/ Kind(src[i + 1]) = "crnl"
    ELSE Lexeme(src[i])

(* The lines that count, by their first pieces. *)
Lines(src) ==
    {i \in DOMAIN src : LineStart(src, i) /\ Filled(src, i) /\ ~Nested(src, i) /\ ~GoesOn(src, i)}
Column(src, i) == IF Kind(src[i]) = "sp" THEN Text(src[i]) ELSE 0

(* The columns of the lines before piece i that none goes left of since. *)
OpenBefore(src, i) ==
    {Column(src, l) : l \in
        {m \in Lines(src) : m < i /\ \A h \in Lines(src) : h \in m .. i - 1 => Column(src, h) >= Column(src, m)}}

(* A line that goes left of an open column goes to one of them, or to 0. *)
Aligned(src, l) ==
    (\E x \in OpenBefore(src, l) : x > Column(src, l))
        => Column(src, l) \in OpenBefore(src, l) \cup {0}
Consistent(src) == \A l \in Lines(src) : Aligned(src, l)

Plain(token) == Kind(token) \notin Made
DepthAt(tokens, k) == Count({"indent"}, tokens, 1, k) - Count({"dedent"}, tokens, 1, k)
FirstPlain(tokens, line) ==
    {k \in DOMAIN tokens : Plain(tokens[k]) /\ Line(tokens[k]) = line
        /\ \A j \in 1 .. k - 1 : Plain(tokens[j]) => Line(tokens[j]) < line}

(* The Indent and Dedent tokens of a text are those of the columns of its
   lines: a dedent to a column that no line left open is an error, the only
   one there is, the first token of a line is as deep as columns are open
   there, and every block is closed at the end of the file.                *)
WellNested(src, lexed) ==
    /\ lexed.ok <=> Consistent(src)
    /\ \A k \in DOMAIN lexed.tokens : DepthAt(lexed.tokens, k) >= 0
    /\ lexed.ok => DepthAt(lexed.tokens, Len(lexed.tokens)) = 0
    /\ \A l \in Lines(src) : \A k \in FirstPlain(lexed.tokens, LineOfPiece(src, l)) :
          DepthAt(lexed.tokens, k) = Cardinality(OpenBefore(src, l + 1) \ {0})

(* What the lexer reads to its end, but for misplaced lines; what is too large
   it refuses.                                                              *)
Legible(src) == Len(src) <= MaxSource /\ \A i \in DOMAIN src : Kind(src[i]) \notin Refused
BlocksMatchColumns ==
    \A u \in Open :
        /\ WellFormed(shown[u])
        /\ Legible(shown[u]) => WellNested(shown[u], Lex(shown[u]))
        /\ Len(shown[u]) > MaxSource => ~Lex(shown[u]).ok
=============================================================================
