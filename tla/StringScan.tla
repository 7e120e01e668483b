----------------------------- MODULE StringScan -----------------------------
(***************************************************************************)
(* Strings and comments, character by character: the lexer's reading of    *)
(* quoted and backtick strings (src/crates/ni_lexer/src/cursor.rs), the    *)
(* text in which it hands the parts of an interpolated string to the       *)
(* parser, the parser's reading of that text, and the formatter's own scan *)
(* for comments.  A file is typed a character at a time.                   *)
(*                                                                         *)
(* Characters are "quote", "tick" (the backtick), "slash", "back" (the     *)
(* backslash), "lbrace", "rbrace", "nl", and letters; the mark EXPR: that  *)
(* the lexer puts before an expression is one character.                   *)
(***************************************************************************)
EXTENDS Integers, SequencesExt

CONSTANT Keys(_)            \* what may be typed after a text

VARIABLE text

Quotes == {"quote", "tick"}
Braces == {"lbrace", "rbrace"}
Ahead(s, i, n, char) == i + n - 1 <= Len(s) /\ \A k \in i .. i + n - 1 : s[k] = char
Beyond(s, i) == i > Len(s)
Times(char, s, i, j) == Cardinality({k \in i .. j : s[k] = char})
LineEnd(s, i) == Min({j \in i .. Len(s) + 1 : Beyond(s, j) \/ s[j] = "nl"})

-----------------------------------------------------------------------------
(* The lexer.  The parts of a string are <<"lit", characters>> and
   <<"expr", characters>>.  Every loop is a run of turns that each take a
   character at least, until there is nothing left to do.                  *)

Escapable(quote) == {"back", "tick"} \cup Braces \cup (IF quote = "tick" THEN {} ELSE {"quote"})

AddText(parts, chars) ==
    IF parts # <<>> /\ Last(parts)[1] = "lit"
    THEN Append(Front(parts), <<"lit", Last(parts)[2] \o chars>>)
    ELSE Append(parts, <<"lit", chars>>)

(* scan_interpolation_expr: to the brace that closes the expression; braces
   in a string inside it do not count, and backticks nowhere in it.        *)
ExprTurn(s, x) ==
    IF x.depth = 0 \/ Beyond(s, x.i) THEN x
    ELSE IF x.inString /\ s[x.i] = "back" /\ x.i < Len(s)
    THEN [x EXCEPT !.i = @ + 2, !.expr = @ \o <<s[x.i], s[x.i + 1]>>]
    ELSE [x EXCEPT !.i = @ + 1,
                   !.depth = IF x.inString THEN @
                             ELSE CASE s[x.i] = "lbrace" -> @ + 1
                               [] s[x.i] = "rbrace" -> @ - 1
                               [] OTHER -> @,
                   !.inString = @ # (s[x.i] = "quote"),
                   !.expr = Append(@, s[x.i])]

ScanExpr(s, i) ==
    LET turn[n \in 0 .. Len(s)] ==
            IF n = 0 THEN [i |-> i, depth |-> 1, inString |-> FALSE, expr |-> <<>>]
            ELSE ExprTurn(s, turn[n - 1])
    IN  turn[Len(s)]

(* A string that ends with so many quotes: one, on the same line and without
   unknown escapes, or three.  It is open, then closed or broken.          *)
EscapeTurn(s, quote, count, x) ==
    IF x.i = Len(s) \/ (count = 1 /\ s[x.i + 1] \notin Escapable(quote))
    THEN [x EXCEPT !.is = "broken"]
    ELSE [x EXCEPT !.i = @ + 2,
                   !.parts = AddText(@, IF s[x.i + 1] \in Escapable(quote) THEN <<s[x.i + 1]>>
                                        ELSE <<"back", s[x.i + 1]>>)]

InterpolationTurn(s, x) ==
    LET end == ScanExpr(s, x.i + 1)
    IN  IF end.depth > 0 THEN [x EXCEPT !.is = "broken"]
        ELSE [x EXCEPT !.i = end.i, !.parts = Append(@, <<"expr", Front(end.expr)>>)]

StringTurn(s, quote, count, x) ==
    IF x.is # "open" THEN x
    ELSE IF Beyond(s, x.i) \/ (count = 1 /\ s[x.i] = "nl") THEN [x EXCEPT !.is = "broken"]
    ELSE IF Ahead(s, x.i, count, quote) THEN [x EXCEPT !.i = @ + count, !.is = "closed"]
    ELSE IF s[x.i] = "back" THEN EscapeTurn(s, quote, count, x)
    ELSE IF s[x.i] = "lbrace" /\ quote = "tick" THEN InterpolationTurn(s, x)
    ELSE [x EXCEPT !.i = @ + 1, !.parts = AddText(@, <<s[x.i]>>)]

ScanString(s, i, quote, count) ==
    LET turn[n \in 0 .. Len(s)] ==
            IF n = 0 THEN [is |-> "open", i |-> i, parts |-> <<>>]
            ELSE StringTurn(s, quote, count, turn[n - 1])
    IN  turn[Len(s)]

(* A string of three quotes loses a line end at its start and at its end; the
   indentation that it loses too is not modelled.                          *)
Trimmed(parts) ==
    [k \in DOMAIN parts |->
        LET chars == parts[k][2]
            first == IF k = 1 /\ chars[1] = "nl" THEN 2 ELSE 1
            last == IF k = Len(parts) /\ chars[Len(chars)] = "nl" THEN Len(chars) - 1 ELSE Len(chars)
        IN  IF parts[k][1] = "lit" THEN <<"lit", SubSeq(chars, first, last)>> ELSE parts[k]]

StringAt(s, i) ==
    IF Ahead(s, i, 3, s[i])
    THEN LET string == ScanString(s, i + 3, s[i], 3)
         IN  [string EXCEPT !.parts = IF string.is = "closed" THEN Trimmed(@) ELSE @]
    ELSE ScanString(s, i + 1, s[i], 1)

(* The whole file: where its comments start, and its strings. *)
FileTurn(s, x) ==
    IF ~x.ok \/ Beyond(s, x.i) THEN x
    ELSE IF s[x.i] = "back" THEN [x EXCEPT !.ok = FALSE]
    ELSE IF Ahead(s, x.i, 2, "slash")
    THEN [x EXCEPT !.i = LineEnd(s, @), !.comments = @ \cup {x.i}]
    ELSE IF s[x.i] \in Quotes
    THEN LET string == StringAt(s, x.i)
         IN  IF string.is = "closed"
             THEN [x EXCEPT !.i = string.i, !.strings = @ \cup {string.parts}]
             ELSE [x EXCEPT !.ok = FALSE]
    ELSE [x EXCEPT !.i = @ + 1]

Scan(s) ==
    LET turn[n \in 0 .. Len(s)] ==
            IF n = 0 THEN [ok |-> TRUE, i |-> 1, comments |-> {}, strings |-> {}]
            ELSE FileTurn(s, turn[n - 1])
    IN  turn[Len(s)]

-----------------------------------------------------------------------------
(* The text between the lexer and the parser.  In it a left brace opens an
   expression, and a brace of the string has a backslash before it.        *)

\* mutant: the braces of the string are left as they are.
Unescaped(chars) == chars

Escaped(chars) ==
    FlattenSeq([k \in DOMAIN chars |->
        IF chars[k] \in Braces THEN <<"back", chars[k]>> ELSE <<chars[k]>>])

EncodePart(part) ==
    IF part[1] = "lit" THEN Escaped(part[2]) ELSE <<"lbrace", "EXPR">> \o part[2] \o <<"rbrace">>

Encode(parts) == FlattenSeq([k \in DOMAIN parts |-> EncodePart(parts[k])])

(* The brace that closes an expression, all braces counted. *)
Closing(s, i) ==
    Min({j \in i .. Len(s) + 1 :
            Beyond(s, j) \/ Times("rbrace", s, i, j) > Times("lbrace", s, i, j)})

(* parse_fstring_parts.  Where none of the ways to go on takes a character
   the loop never ends: the parts are never returned.                      *)
Forever == <<<<"forever">>>>

DecodeTurn(s, x) ==
    IF Beyond(s, x.i) THEN x
    ELSE IF s[x.i] = "lbrace" /\ x.i < Len(s) /\ s[x.i + 1] = "EXPR"
    THEN [i |-> Closing(s, x.i + 2) + 1,
          parts |-> Append(x.parts, <<"expr", SubSeq(s, x.i + 2, Closing(s, x.i + 2) - 1)>>)]
    ELSE IF s[x.i] = "back" /\ x.i < Len(s)
    THEN IF s[x.i + 1] \in Braces
         THEN [i |-> x.i + 2, parts |-> AddText(x.parts, <<s[x.i + 1]>>)]
         ELSE [i |-> x.i + 1, parts |-> AddText(x.parts, <<"back">>)]
    ELSE IF s[x.i] \in {"lbrace", "back"} THEN x
    ELSE [i |-> x.i + 1, parts |-> AddText(x.parts, <<s[x.i]>>)]

Decode(s) ==
    LET turn[n \in 0 .. Len(s)] ==
            IF n = 0 THEN [i |-> 1, parts |-> <<>>] ELSE DecodeTurn(s, turn[n - 1])
    IN  IF Beyond(s, turn[Len(s)].i) THEN turn[Len(s)].parts ELSE Forever

-----------------------------------------------------------------------------
(* extract_comments: the formatter's scan.  inside is the kind of string it is
   in, if any: the quote and how many of them end it.                       *)

NoString == <<"", 0>>
NewLine(c) == [c EXCEPT !.i = @ + 1, !.line = @ + 1, !.code = FALSE]
Skip(c, n, inside) == [c EXCEPT !.i = @ + n, !.code = TRUE, !.inside = inside]

\* mutant: a quote after a backslash ends the string.
InStringUnescaped(s, c) ==
    CASE s[c.i] = "nl" -> [NewLine(c) EXCEPT !.inside = IF c.inside[2] = 1 THEN NoString ELSE @]
      [] s[c.i] # "nl" /\ Ahead(s, c.i, c.inside[2], c.inside[1]) -> Skip(c, c.inside[2], NoString)
      [] OTHER -> [c EXCEPT !.i = @ + 1]

InString(s, c) ==
    LET single == c.inside[2] = 1
    IN  CASE s[c.i] = "nl" -> [NewLine(c) EXCEPT !.inside = IF single THEN NoString ELSE @]
          [] s[c.i] # "nl" /\ single /\ s[c.i] = "back" /\ c.i < Len(s) ->
                IF s[c.i + 1] = "nl" THEN [NewLine(c) EXCEPT !.i = @ + 1] ELSE [c EXCEPT !.i = @ + 2]
          [] s[c.i] # "nl" /\ Ahead(s, c.i, c.inside[2], c.inside[1]) ->
                [c EXCEPT !.i = @ + c.inside[2], !.inside = NoString, !.code = @ \/ ~single]
          [] OTHER -> [c EXCEPT !.i = @ + 1]

InCode(s, c) ==
    CASE s[c.i] = "nl" -> NewLine(c)
      [] s[c.i] \in Quotes ->
            IF Ahead(s, c.i, 3, s[c.i]) THEN Skip(c, 3, <<s[c.i], 3>>) ELSE Skip(c, 1, <<s[c.i], 1>>)
      [] Ahead(s, c.i, 2, "slash") ->
            [c EXCEPT !.i = LineEnd(s, @),
                      !.found = @ \cup {[at |-> c.i, line |-> c.line, trailing |-> c.code]}]
      [] OTHER -> Skip(c, 1, NoString)

CommentTurn(s, c) ==
    IF Beyond(s, c.i) THEN c ELSE IF c.inside = NoString THEN InCode(s, c) ELSE InString(s, c)

ExtractComments(s) ==
    LET turn[n \in 0 .. Len(s)] ==
            IF n = 0 THEN [i |-> 1, line |-> 1, code |-> FALSE, inside |-> NoString, found |-> {}]
            ELSE CommentTurn(s, turn[n - 1])
    IN  turn[Len(s)].found

-----------------------------------------------------------------------------
Init == text = <<>>
Type == \E char \in Keys(text) : text' = Append(text, char)
Next == Type
Spec == Init /\ [][Next]_text

-----------------------------------------------------------------------------
(* The parser gets from an interpolated string the parts that the lexer put in
   it, if and only if no text in it ends with a backslash and the braces of
   every expression match, those in strings included.  A text that ends with
   a backslash turns the expression after it into text; when nothing is after
   it the parser does not come back.                                        *)
Matching(chars) ==
    /\ Times("lbrace", chars, 1, Len(chars)) = Times("rbrace", chars, 1, Len(chars))
    /\ \A k \in DOMAIN chars : Times("lbrace", chars, 1, k) >= Times("rbrace", chars, 1, k)

Sturdy(part) == IF part[1] = "lit" THEN Last(part[2]) # "back" ELSE Matching(part[2])
Interpolated(parts) == \E k \in DOMAIN parts : parts[k][1] = "expr"

(* Only the first and the last text may be empty, by what they have lost. *)
NotEmpty(parts) ==
    LET first == IF parts[1] = <<"lit", <<>>>> THEN 2 ELSE 1
        last == IF Last(parts) = <<"lit", <<>>>> THEN Len(parts) - 1 ELSE Len(parts)
    IN  SubSeq(parts, first, last)

Survives(parts) == Decode(Encode(parts)) = parts <=> \A k \in DOMAIN parts : Sturdy(parts[k])
FStringPartsSurvive ==
    \A string \in Scan(text).strings : Interpolated(string) => Survives(NotEmpty(string))

(* In a file the lexer reads, the comments the formatter finds are those the
   lexer skips, each on its line, and trailing if and only if something else
   is before it on that line.  Left out are files with backslashes in strings
   of three quotes and with expressions in strings, where the two scans do
   not agree.                                                              *)
Agreeable(s) ==
    /\ "tick" \in Range(s) => "lbrace" \notin Range(s)
    /\ "back" \in Range(s) => \A i \in DOMAIN s : ~(s[i] \in Quotes /\ Ahead(s, i, 3, s[i]))

CommentAt(s, i) ==
    [at |-> i, line |-> 1 + Cardinality({j \in 1 .. i - 1 : s[j] = "nl"}),
     trailing |-> i > 1 /\ s[i - 1] # "nl"]

CommentsAgree ==
    Scan(text).ok /\ Agreeable(text) =>
        ExtractComments(text) = {CommentAt(text, i) : i \in Scan(text).comments}
=============================================================================
