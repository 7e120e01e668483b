----------------------------- MODULE MCFrontEnd -----------------------------
(* Texts for the front end: every expression of two operators, parenthesised,
   and small files for the statements, declarations, layouts and comments.  *)
EXTENDS FrontEnd

K(kind) == <<<<kind, "">>>>
I(name) == <<<<"id", name>>>>
N(value) == <<<<"int", value>>>>
C(text) == <<<<"//", text>>>>
NL == K("nl")
Row(column, pieces) == (IF column = 0 THEN <<>> ELSE <<<<"sp", column>>>>) \o pieces \o NL
Rows(rows) == FlattenSeq([k \in DOMAIN rows |-> Row(rows[k][1], rows[k][2])])

-----------------------------------------------------------------------------
(* Expressions: trees, and their text with every operand in parentheses. *)
a == <<"Id", "a">>
b == <<"Id", "b">>
c == <<"Id", "c">>
Return1(e) == <<<<"Return", 0, <<e>>>>>>

InfixOps == {"=", "or", "and", "==", "<", "..", "+", "*"}
One ==
    {<<"Infix", op, a, b>> : op \in InfixOps}
        \cup {<<"Prefix", op, a>> : op \in {"-", "try", "spawn"}}
        \cup {<<"IfExpr", a, b, c>>, <<"Call", a, <<b>>, <<>>>>, <<"GetField", a, "m">>,
              <<"Yield", <<a>>>>, <<"Lambda", <<>>, Return1(a)>>}
Two ==
    {<<"Infix", op, e, c>> : op \in InfixOps, e \in One}
        \cup {<<"Infix", op, c, e>> : op \in InfixOps, e \in One}
        \cup {<<"Prefix", op, e>> : op \in {"not", "fail", "await"}, e \in One}
        \cup {<<"IfExpr", e, b, c>> : e \in One} \cup {<<"IfExpr", a, e, c>> : e \in One}
        \cup {<<"IfExpr", a, b, e>> : e \in One} \cup {<<"Call", e, <<>>, <<>>>> : e \in One}
        \cup {<<"Call", c, <<e>>, <<<<"k", e>>>>>> : e \in One}
        \cup {<<"GetIndex", e, e>> : e \in One} \cup {<<"Yield", <<e>>>> : e \in One}
        \cup {<<"List", <<e, c>>>> : e \in One} \cup {<<"Map", <<<<e, e>>>>>> : e \in One}
        \cup {<<"Lambda", <<>>, Return1(e)>> : e \in One}

RECURSIVE Full(_)
Paren(e) == IF e[1] = "Id" THEN Full(e) ELSE K("(") \o Full(e) \o K(")")
ParenList(es) == FlattenSeq([k \in DOMAIN es |-> (IF k = 1 THEN <<>> ELSE K(",")) \o Paren(es[k])])
Full(e) ==
    CASE e[1] = "Id" -> I(e[2])
      [] e[1] = "Infix" -> Paren(e[3]) \o K(e[2]) \o Paren(e[4])
      [] e[1] = "Prefix" -> K(e[2]) \o Paren(e[3])
      [] e[1] = "IfExpr" -> Paren(e[2]) \o K("if") \o Paren(e[3]) \o K("else") \o Paren(e[4])
      [] e[1] = "Call" ->
            Paren(e[2]) \o K("(") \o ParenList(e[3])
                \o (IF e[4] = <<>> THEN <<>> ELSE K(",") \o I(e[4][1][1]) \o K("=") \o Paren(e[4][1][2]))
                \o K(")")
      [] e[1] = "GetField" -> Paren(e[2]) \o K(".") \o I(e[3])
      [] e[1] = "GetIndex" -> Paren(e[2]) \o K("[") \o Paren(e[3]) \o K("]")
      [] e[1] = "Yield" -> K("yield") \o Paren(e[2][1])
      [] e[1] = "List" -> K("[") \o ParenList(e[2]) \o K("]")
      [] e[1] = "Map" -> K("[") \o Paren(e[2][1][1]) \o K(":") \o Paren(e[2][1][2]) \o K("]")
      [] e[1] = "Lambda" -> K("fun") \o K("(") \o K(")") \o K(":") \o Paren(e[3][1][3][1])

ExprTexts == {Row(0, Paren(e)) : e \in One \cup Two}

-----------------------------------------------------------------------------
(* Small files, a row for each line: its column and its words.  Words of the
   language stand for themselves, the others are named for what they are.  *)
Keywords ==
    {"var", "const", "fun", "return", "class", "extends", "static", "enum", "import", "from", "as",
     "spec", "each", "given", "when", "then", "if", "elif", "else", "while", "for", "in", "match",
     "break", "continue", "pass", "try", "catch", "fail", "assert", "yield", "self", "super",
     "none", "true", "is", "and", "or", "not", "spawn", "await", "type"}
Signs == {"(", ")", "[", "]", "{", "}", ":", ",", ".", "->", "=", "+", "*", "==", "<", "..", "?.", "??", "-"}
Comments == {"c1", "c2", "c3", "c4", "c5", "c6", "c7"}
Strings == {"s1", "s2", "s3"}
Numbers == {"1", "2"}

Spell(word) ==
    CASE word \in Keywords \cup Signs \cup {"tab"} -> <<word, "">>
      [] word \in Comments -> <<"//", word>>
      [] word \in Strings -> <<"str", <<word>>>>
      [] word \in Numbers -> <<"int", word>>
      [] word = "fs" -> <<"fstr", <<<<"lit", <<"s1">>>>, <<"expr", I("v1") \o K("+") \o I("v2")>>>>>>
      [] word = "fsbad" -> <<"fstr", <<<<"expr", K("+")>>>>>>
      [] OTHER -> <<"id", word>>
File(rows) == Rows([k \in DOMAIN rows |-> <<rows[k][1], [n \in DOMAIN rows[k][2] |-> Spell(rows[k][2][n])]>>])

Imports1 == File(<<
    <<0, <<"import", "m">>>>,
    <<0, <<"import", "m", ".", "n", "as", "p", "c1">>>>,
    <<0, <<"c2">>>>,
    <<0, <<"from", "m", "import", "f", ",", "g", "as", "h">>>>,
    <<0, <<"from", "m", ".", "n", "import", "*">>>>,
    <<0, <<"const", "v1", "=", "1", "c3">>>>,
    <<0, <<"c4">>>> >>)

Functions == File(<<
    <<0, <<"s1">>>>,
    <<0, <<"c1">>>>,
    <<0, <<"fun", "f", "(", "v1", ",", "v2", ":", "T", "[", "U", ",", "V", "]", "=", "2", ")",
           "->", "T", ":", "c2">>>>,
    <<2, <<"s2">>>>,
    <<2, <<"c3">>>>,
    <<2, <<"var", "v3", "=", "v1", "+", "v2", "c4">>>>,
    <<2, <<"return">>>>,
    <<2, <<"c5">>>> >>)
DefaultArgs == File(<<
    <<0, <<"c1">>>>,
    <<0, <<"fun", "g", "(", "v1", "=", "1", ",", "v2", "=", "v1", ")", ":", "return", "none">>>>,
    <<0, <<"g", "(", "1", ",", "k", "=", "2", ")", "c2">>>> >>)

Class1 == File(<<
    <<0, <<"class", "P", "extends", "Q", ":", "c1">>>>,
    <<2, <<"s1">>>>,
    <<2, <<"var", "x", "=", "1", "c2">>>>,
    <<2, <<"c3">>>>,
    <<2, <<"var", "y">>>>,
    <<2, <<"static", "var", "z", "=", "none">>>>,
    <<2, <<"fun", "init", "(", "v1", ",", "v2", ")", ":">>>>,
    <<4, <<"self", ".", "x", "=", "v1", "c4">>>>,
    <<4, <<"super", ".", "init", "(", "1", ")">>>> >>)
Methods == File(<<
    <<0, <<"class", "P", ":", "c1">>>>,
    <<2, <<"fun", "init", "(", "v1", ")", ":", "pass">>>>,
    <<2, <<"static", "fun", "of", "(", ")", ":", "pass">>>>,
    <<0, <<"var", "v3", "=", "P", "(", "1", ")", "?.", "v3">>>> >>)
Class2 == File(<<
    <<0, <<"class", "p", ":">>>>, <<1, <<"fun", "F", "(", ")", ":">>>>, <<2, <<"s1">>>> >>)
Class3 == File(<<
    <<0, <<"class", "P", ":">>>>, <<1, <<"static", "static", "var", "x">>>>, <<1, <<"x">>>> >>)

Enum1 == File(<<
    <<0, <<"enum", "E", ":", "c1">>>>, <<1, <<"c2">>>>, <<1, <<"A">>>>, <<1, <<"B", "=", "1", "c3">>>>,
    <<0, <<"enum", "e", ":">>>>, <<1, <<"A">>>> >>)

Statements == File(<<
    <<0, <<"for", "v1", ",", "v2", "in", "1", "..", "2", ":", "c1">>>>,
    <<1, <<"if", "v1", "<", "2", ":", "c2">>>>,
    <<2, <<"break">>>>,
    <<1, <<"elif", "not", "v3", ":", "c3">>>>,
    <<2, <<"c4">>>>,
    <<2, <<"continue">>>>,
    <<1, <<"else", ":">>>>,
    <<2, <<"v3", "=", "v2">>>> >>)
Loops == File(<<
    <<0, <<"while", "true", ":">>>>,
    <<1, <<"assert", "true", ",", "s1", "c5">>>>,
    <<1, <<"assert", "true">>>>,
    <<1, <<"fail", "s1">>>>,
    <<0, <<"var", "v4", "=", "[", "1", ",", "]">>>>,
    <<0, <<"if", "true", ":", "yield">>>> >>)

MatchFile == File(<<
    <<0, <<"match", "x", ":", "c1">>>>,
    <<1, <<"when", "1", ",", "2", "+", "1", ":", "c2">>>>,
    <<2, <<"pass">>>>,
    <<1, <<"c3">>>>,
    <<1, <<"when", "v1", "if", "v1", "==", "1", ":", "pass">>>>,
    <<1, <<"when", "v2", "is", "type", ":">>>>,
    <<2, <<"c4">>>>,
    <<2, <<"v2">>>>,
    <<1, <<"when", "_", ":">>>>,
    <<2, <<"x", ".", "spawn">>>> >>)
MatchName == File(<<
    <<0, <<"match", "x", ":">>>>, <<1, <<"when", "a", ",", "1", ":">>>>, <<2, <<"pass">>>>,
    <<1, <<"when", "1", "if", "a", "else", "b", ":", "pass">>>> >>)
MatchLast == File(<<
    <<0, <<"match", "x", ":">>>>, <<1, <<"when", "(", "a", ")", ":">>>>, <<2, <<"pass">>>> >>)

Try1 == File(<<
    <<0, <<"try", ":", "c1">>>>, <<1, <<"f", "(", ")">>>>,
    <<0, <<"catch", "v1", ":", "c2">>>>, <<1, <<"pass">>>>,
    <<0, <<"try", ":", "pass">>>>, <<0, <<"catch", ":", "pass">>>> >>)
TryCases == File(<<
    <<0, <<"try", ":">>>>, <<1, <<"f", "(", ")">>>>,
    <<0, <<"catch", "v1", ":">>>>, <<1, <<"when", "1", ":">>>>, <<2, <<"v1">>>>,
    <<1, <<"when", "_", ":", "pass">>>> >>)
TryGuard == File(<<
    <<0, <<"try", ":">>>>, <<1, <<"f", "(", ")">>>>,
    <<0, <<"catch", ":">>>>, <<1, <<"when", "_", "if", "f", "(", ")", ":">>>>, <<2, <<"pass">>>> >>)

Spec1 == File(<<
    <<0, <<"spec", "s1", ":", "c1">>>>,
    <<1, <<"var", "v1", "=", "1", "c2">>>>,
    <<1, <<"given", "s2", ":">>>>,
    <<2, <<"c3">>>>,
    <<2, <<"var", "v2", "=", "v1">>>>,
    <<2, <<"when", "s3", ":">>>>,
    <<3, <<"then", "s1", ":", "assert", "v2">>>>,
    <<1, <<"then", "s2", ":">>>>,
    <<2, <<"assert", "true">>>> >>)
Spec2 == File(<<
    <<0, <<"spec", "s1", ":">>>>, <<1, <<"assert", "1">>>>, <<1, <<"assert", "2", "c1">>>> >>)
SpecEach == File(<<
    <<0, <<"var", "v1", "=", "1">>>>,
    <<0, <<"spec", "s1", "each", "(", "1", ",", "v1", ",", ")", ":">>>>, <<1, <<"pass">>>>,
    <<0, <<"spec", "s1", "each", "1", ",", "2", ":">>>>, <<1, <<"var", "v2", "=", "1">>>> >>)

Nested1 == File(<<
    <<0, <<"fun", "f", "(", ")", ":">>>>,
    <<1, <<"fun", "v1", "(", "v2", ")", ":">>>>, <<2, <<"c1">>>>, <<2, <<"pass">>>>,
    <<1, <<"var", "v3", "=", "v1">>>> >>)
Nested2 == File(<<
    <<0, <<"fun", "f", "(", ")", ":">>>>,
    <<1, <<"pass", "c1">>>>,
    <<1, <<"fun", "v1", "(", "v2", ")", ":">>>>, <<2, <<"return">>>>, <<1, <<"c2">>>> >>)
Lambdas == File(<<
    <<0, <<"var", "v1", "=", "fun", "(", "v2", ")", ":", "v2">>>>,
    <<0, <<"var", "v3", "=", "fun", "(", ")", ":">>>>, <<1, <<"if", "v1", ":", "pass">>>> >>)
LambdaReturn == File(<<
    <<0, <<"var", "v1", "=", "fun", "(", "v2", ")", ":">>>>, <<1, <<"return", "v2">>>>,
    <<0, <<"f", "(", "v1", ")">>>> >>)

Literals1 == File(<<
    <<0, <<"var", "v1", "=", "[", ":", "]">>>>,
    <<0, <<"var", "v2", "=", "{", "a", ":", "1", ",", "}">>>>,
    <<0, <<"var", "v3", "=", "fs", "c1">>>>,
    <<0, <<"var", "v4", "=", "[", "a", ":", "{", "}", ",", "c2">>>>,
    <<2, <<"s1", ":", "[", "]", "]">>>> >>)
BadString == File(<< <<0, <<"fsbad">>>> >>)
Unparsed == File(<<
    <<0, <<"var", "c1">>>>, <<0, <<"fun", "f", "(", ")", ":">>>>, <<1, <<"pass">>>>,
    <<0, <<"class">>>>, <<0, <<>>>>, <<0, <<"a">>>> >>)
Tabbed == File(<< <<0, <<"a", "(", "tab", "1", ")">>>>, <<0, <<"tab", "b">>>> >>)

(* What stands between quotes, with and without what does not survive there:
   all labels, docstrings and literals of up to three characters, and those
   docstrings and literals between others.                                  *)
Str(chars) == <<<<"str", chars>>>>
Spec3(chars) == Rows(<<
    <<0, K("spec") \o Str(chars) \o K(":")>>, <<1, K("pass")>> >>)
Section3(chars) == Rows(<<
    <<0, K("spec") \o Str(<<>>) \o K(":")>>,
    <<1, K("given") \o Str(chars) \o K(":")>>, <<2, K("then") \o Str(<<"s1">>) \o K(":") \o K("pass")>> >>)
Documented(kind, chars) ==
    LET doc == Str(chars)
    IN  CASE kind = "program" -> Rows(<< <<0, doc>>, <<0, I("a")>> >>)
          [] kind = "fun" -> Rows(<< <<0, K("fun") \o I("f") \o K("(") \o K(")") \o K(":")>>, <<1, doc>>, <<1, K("pass")>> >>)
          [] kind = "class" -> Rows(<< <<0, K("class") \o I("P") \o K(":")>>, <<1, doc>>, <<1, K("var") \o I("x")>> >>)
Embedding(chars) == Row(0, <<<<"fstr", <<<<"lit", chars>>, <<"expr", I("a")>>>>>>>>)
FStringLabels == Rows(<<
    <<0, K("class") \o I("P") \o K(":")>>,
    <<1, <<<<"fstr", <<<<"lit", <<"s1">>>>, <<"expr", I("a")>>>>>>>>>>, <<1, K("var") \o I("x")>>,
    <<0, K("spec") \o <<<<"fstr", <<<<"expr", I("b")>>, <<"lit", <<"s2", "rbrace">>>>>>>>>> \o K(":")>>,
    <<1, K("pass")>> >>)

Short == UNION {[1 .. n -> {"quote", "back", "nl", "lbrace", "rbrace", "tick", "s1", "space"}] : n \in 0 .. 3}
Longer == {<<"s1">> \o chars \o <<"s2">> : chars \in Short} \cup {<<"space">> \o chars \o <<"nl", "space", "s2">> : chars \in Short}
Quoted ==
    {Spec3(chars) : chars \in Short} \cup {Section3(chars) : chars \in Short}
        \cup {Documented("program", chars) : chars \in Short \cup Longer}
        \cup {Documented(kind, chars) : kind \in {"fun", "class"}, chars \in Short}
        \cup {Embedding(chars) : chars \in (Short \cup Longer) \ {<<>>}}

Files ==
    {FStringLabels, Imports1, Functions, DefaultArgs, Class1, Class2, Class3, Methods, Enum1, Statements,
     Loops, MatchFile, MatchName, MatchLast, Try1, TryCases, TryGuard, Spec1, Spec2, SpecEach, Nested1, Nested2, Lambdas,
     LambdaReturn, Literals1, BadString, Unparsed, Tabbed}

-----------------------------------------------------------------------------
(* Layouts: four lines at any columns, and a few lines of any kind. *)
Steps == {Rows(<<<<0, I("a")>>, <<i, I("b")>>, <<j, I("c")>>, <<k, I("d")>>>>) : i, j, k \in 0 .. 3}

CrLf(pieces) == pieces \o K("crnl")
Codes == {Row(0, I("a")), Row(2, I("b")), Row(1, I("c") \o K("+")), Row(1, K("(")), Row(2, K(")"))}
Blanks ==
    {NL, Row(2, <<>>), CrLf(<<>>), CrLf(<<<<"sp", 2>>>>), CrLf(I("d")), Row(0, C("c1")), Row(2, C("c2"))}
Ends == {<<>>, <<<<"sp", 1>>>>, <<<<"sp", 1>>>> \o I("e"), K(")")}
Layouts == {i \o j \o k : i \in Codes, j \in Codes \cup Blanks, k \in Codes \cup Blanks \cup Ends}

(* The editor opens the first document with any of the texts, changes the
   small files to others, two of them beyond the limit, and opens a second
   document beside those, for which there is no place in the store when it
   comes second and which leaves none when it comes first.                 *)
AllTexts == ExprTexts \cup Files \cup Quoted \cup Steps \cup Layouts
Many == FlattenSeq([k \in 1 .. MaxText \div 2 |-> K(",") \o I("a")])
Changed == {Row(0, I("a")), Row(0, K(")")), Row(0, Many), K("[") \o I("b") \o Many \o Row(0, K("]"))}
Edited == Files \cup Changed

First == CHOOSE u \in Uris : TRUE
MCTexts(u, editor) ==
    CASE DOMAIN editor = {} -> IF u = First THEN AllTexts ELSE {I("a")}
      [] DOMAIN editor # {} /\ u = First -> Files
      [] OTHER -> IF Range(editor) \subseteq Edited THEN {I("a")} ELSE {}
MCEdits(u, editor) ==
    IF u = First /\ u \in DOMAIN editor /\ editor[u] \in Edited THEN Changed \ {editor[u]} ELSE {}
MCVariables == {"v1", "v2", "v3", "v4"}
MCSnake == MCVariables \cup {"a", "f", "g", "of"}
MCPascal == {"P", "E"}
MCSilent == {"_"}
=============================================================================
