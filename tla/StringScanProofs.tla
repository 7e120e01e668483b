-------------------------- MODULE StringScanProofs --------------------------
(***************************************************************************)
(* Two scans and a round trip, for files and strings of any length over    *)
(* any characters: the comments the formatter finds are those the lexer    *)
(* skips (CommentsAgree), and the parser gets from an interpolated string  *)
(* what the lexer put in it exactly when nothing in it is fragile          *)
(* (FStringPartsSurvive).                                                  *)
(*                                                                         *)
(* The loops are runs of turns.  Of each run a lemma says which states it  *)
(* stays in; then one run is followed along the other, or along the parts  *)
(* of the string.                                                          *)
(***************************************************************************)
EXTENDS StringScan, FiniteSetTheorems, SequenceTheorems, WellFoundedInduction, TLAPS

-----------------------------------------------------------------------------
(* Numbers.                                                                *)

\* The order of the natural numbers is well founded.
LEMMA NatOrder == IsWellFoundedOn({p \in Nat \X Nat : p[1] < p[2]}, Nat)
  BY NatLessThanWellFounded DEF OpToRel

\* A nonempty set of natural numbers has a least member.
LEMMA LeastNatural ==
  ASSUME NEW P \in SUBSET Nat, P # {}
  PROVE  \E i \in P : \A j \in P : i <= j
  <1> DEFINE Less == {p \in Nat \X Nat : p[1] < p[2]}
  <1>1. IsWellFoundedOn(Less, Nat)
    BY NatOrder
  <1> HIDE DEF Less
  <1>2. PICK i \in P : \A j \in P : ~ (<<j, i>> \in Less)
    BY <1>1, WFMin
  <1>3. ASSUME NEW j \in P
        PROVE  i <= j
    <2>1. i \in Nat /\ j \in Nat
      OBVIOUS
    <2>2. j < i => <<j, i>> \in Less
      BY <2>1 DEF Less
    <2> QED BY <1>2, <2>1, <2>2
  <1> QED BY <1>3

\* A set that holds 0, and the successor of each of its numbers, holds them all.
LEMMA SetInduction ==
  ASSUME NEW P, 0 \in P, \A n \in Nat : n \in P => n + 1 \in P
  PROVE  Nat \subseteq P
  <1> SUFFICES ASSUME Nat \ P # {}
               PROVE  FALSE
    OBVIOUS
  <1>1. PICK i \in Nat \ P : \A j \in Nat \ P : i <= j
    BY LeastNatural
  <1>2. i # 0
    OBVIOUS
  <1>3. i - 1 \in Nat /\ i - 1 < i
    BY <1>2
  <1>4. i - 1 \in P
    BY <1>1, <1>3
  <1> QED BY <1>3, <1>4

\* Min is the least member.
LEMMA MinIs ==
  ASSUME NEW P \in SUBSET Nat, P # {}
  PROVE  Min(P) \in P /\ \A j \in P : Min(P) <= j
  <1>1. \E i \in P : \A j \in P : i <= j
    BY LeastNatural
  <1> QED BY <1>1 DEF Min

\* The end of a line.
LEMMA LineEndIs ==
  ASSUME NEW s, Len(s) \in Nat, NEW i \in 1 .. Len(s) + 1
  PROVE  /\ LineEnd(s, i) \in i .. Len(s) + 1
         /\ LineEnd(s, i) > Len(s) \/ s[LineEnd(s, i)] = "nl"
         /\ \A j \in i .. LineEnd(s, i) - 1 : s[j] # "nl"
  <1> DEFINE P == {j \in i .. Len(s) + 1 : Beyond(s, j) \/ s[j] = "nl"}
  <1>1. P \in SUBSET Nat /\ Len(s) + 1 \in P
    BY DEF Beyond
  <1>2. LineEnd(s, i) = Min(P)
    BY DEF LineEnd
  <1>3. Min(P) \in P /\ \A j \in P : Min(P) <= j
    BY <1>1, MinIs
  <1>4. Min(P) \in i .. Len(s) + 1 /\ (Beyond(s, Min(P)) \/ s[Min(P)] = "nl")
    BY <1>3
  <1>5. ASSUME NEW j \in i .. Min(P) - 1
        PROVE  s[j] # "nl"
    <2>1. j \in i .. Len(s) + 1 /\ j < Min(P)
      BY <1>4
    <2>2. j \notin P
      BY <1>3, <1>4, <2>1
    <2> QED BY <2>1, <2>2
  <1> HIDE DEF P
  <1> QED BY <1>2, <1>4, <1>5 DEF Beyond

-----------------------------------------------------------------------------
(* Runs.                                                                   *)

\* A run of n turns from x, and two that turn alike.
IsRun(f, D, next, x, n) ==
    f \in [0 .. n -> D] /\ f[0] = x /\ \A k \in 1 .. n : f[k] = next[f[k - 1]]
Alike(f, g, n) == f[0] = g[0] /\ \A k \in 1 .. n : f[k - 1] = g[k - 1] => f[k] = g[k]

\* What goes from state to state has a run of any length.
LEMMA RunExists ==
  ASSUME NEW D, NEW next \in [D -> D], NEW x \in D, NEW n \in Nat
  PROVE  \E f : IsRun(f, D, next, x, n)
  <1> DEFINE P == {m \in Nat : \E f : IsRun(f, D, next, x, m)}
  <1>1. 0 \in P
    <2>1. IsRun([k \in 0 .. 0 |-> x], D, next, x, 0)
      BY DEF IsRun
    <2> QED BY <2>1
  <1>2. ASSUME NEW m \in Nat, m \in P
        PROVE  m + 1 \in P
    <2>1. PICK f : IsRun(f, D, next, x, m)
      BY <1>2
    <2> DEFINE g == [k \in 0 .. m + 1 |-> IF k = m + 1 THEN next[f[m]] ELSE f[k]]
    <2>2. g \in [0 .. m + 1 -> D] /\ g[0] = x
      BY <2>1 DEF IsRun
    <2>3. ASSUME NEW k \in 1 .. m + 1
          PROVE  g[k] = next[g[k - 1]]
      BY <2>1 DEF IsRun
    <2>4. IsRun(g, D, next, x, m + 1)
      BY <2>2, <2>3 DEF IsRun
    <2> HIDE DEF g
    <2>5. \E h : IsRun(h, D, next, x, m + 1)
      BY <2>4
    <2> QED BY <2>5
  <1> HIDE DEF P
  <1>3. Nat \subseteq P
    BY <1>1, <1>2, SetInduction
  <1> QED BY <1>3 DEF P

\* Two runs that turn alike are the same.
LEMMA RunUnique ==
  ASSUME NEW n \in Nat, NEW f, NEW g, Alike(f, g, n)
  PROVE  f[n] = g[n]
  <1> DEFINE P == {k \in Nat : k <= n => f[k] = g[k]}
  <1>1. 0 \in P
    BY DEF Alike
  <1>2. ASSUME NEW k \in Nat, k \in P
        PROVE  k + 1 \in P
    <2> SUFFICES ASSUME k + 1 <= n
                 PROVE  f[k + 1] = g[k + 1]
      OBVIOUS
    <2>1. k + 1 \in 1 .. n /\ k + 1 - 1 = k /\ k <= n
      OBVIOUS
    <2> QED BY <1>2, <2>1 DEF Alike
  <1> HIDE DEF P
  <1>3. Nat \subseteq P
    BY <1>1, <1>2, SetInduction
  <1> QED BY <1>3 DEF P

-----------------------------------------------------------------------------
(* Parts of strings.                                                       *)

Parts(Chars) == {"lit", "expr"} \X Seq(Chars)

\* No text is empty, and none is after another.
WellParted(parts) ==
    \A k \in 1 .. Len(parts) : parts[k][1] = "lit" =>
        parts[k][2] # <<>> /\ (k < Len(parts) => parts[k + 1][1] = "expr")

\* One part more.
LEMMA AppendIs ==
  ASSUME NEW S, NEW s \in Seq(S), NEW e \in S
  PROVE  /\ Append(s, e) \in Seq(S) /\ Len(Append(s, e)) = Len(s) + 1 /\ Len(s) \in Nat
         /\ \A k \in 1 .. Len(s) : Append(s, e)[k] = s[k]
         /\ Append(s, e)[Len(s) + 1] = e
  OBVIOUS

\* The last one, and those before it.
LEMMA FrontIs ==
  ASSUME NEW S, NEW s \in Seq(S), s # <<>>
  PROVE  /\ Front(s) \in Seq(S) /\ Len(Front(s)) = Len(s) - 1 /\ Len(s) \in Nat \ {0}
         /\ \A k \in 1 .. Len(s) - 1 : Front(s)[k] = s[k]
         /\ Last(s) = s[Len(s)] /\ Last(s) \in S
  <1>1. Len(s) \in Nat \ {0} /\ \A k \in 1 .. Len(s) : s[k] \in S
    OBVIOUS
  <1>2. PICK m \in Nat : Len(s) = m + 1
    <2>1. Len(s) - 1 \in Nat /\ Len(s) = Len(s) - 1 + 1
      BY <1>1
    <2> QED BY <2>1
  <1>3. \A k \in 1 .. m : s[k] \in S
    BY <1>1, <1>2
  <1> DEFINE t == SubSeq(s, 1, m)
  <1>4. /\ t \in Seq(S)
        /\ Len(t) = IF 1 <= m THEN m - 1 + 1 ELSE 0
        /\ \A k \in 1 .. m - 1 + 1 : t[k] = s[1 + k - 1]
    BY <1>3, SubSeqProperties
  <1>5. Len(s) - 1 = m /\ Front(s) = t
    BY <1>2 DEF Front
  <1> HIDE DEF t
  <1>6. Len(t) = m /\ m - 1 + 1 = m
    BY <1>4
  <1>7. ASSUME NEW k \in 1 .. m
        PROVE  t[k] = s[k]
    BY <1>4, <1>6
  <1> QED BY <1>1, <1>2, <1>4, <1>5, <1>6, <1>7 DEF Last

\* Text goes to the text at the end, if there is one.
LEMMA AddTextNew ==
  ASSUME NEW Chars, NEW parts \in Seq(Parts(Chars)), NEW chars \in Seq(Chars),
         parts = <<>> \/ parts[Len(parts)][1] = "expr"
  PROVE  AddText(parts, chars) = Append(parts, <<"lit", chars>>)
  BY FrontIs DEF AddText

LEMMA AddTextMore ==
  ASSUME NEW Chars, NEW parts \in Seq(Parts(Chars)), NEW chars \in Seq(Chars),
         parts # <<>>, parts[Len(parts)][1] = "lit"
  PROVE  AddText(parts, chars) = Append(Front(parts), <<"lit", parts[Len(parts)][2] \o chars>>)
  BY FrontIs DEF AddText

LEMMA AddTextParted ==
  ASSUME NEW Chars, NEW parts \in Seq(Parts(Chars)), WellParted(parts),
         NEW chars \in Seq(Chars), chars # <<>>
  PROVE  AddText(parts, chars) \in Seq(Parts(Chars)) /\ WellParted(AddText(parts, chars))
  <1>1. CASE parts = <<>> \/ parts[Len(parts)][1] = "expr"
    <2> DEFINE more == Append(parts, <<"lit", chars>>)
    <2>1. AddText(parts, chars) = more
      BY <1>1, AddTextNew
    <2>2. <<"lit", chars>> \in Parts(Chars)
      BY DEF Parts
    <2>3. /\ more \in Seq(Parts(Chars)) /\ Len(more) = Len(parts) + 1 /\ Len(parts) \in Nat
          /\ \A k \in 1 .. Len(parts) : more[k] = parts[k]
          /\ more[Len(parts) + 1] = <<"lit", chars>>
      BY <2>2, AppendIs
    <2> HIDE DEF more
    <2>4. ASSUME NEW k \in 1 .. Len(more), more[k][1] = "lit"
          PROVE  more[k][2] # <<>> /\ (k < Len(more) => more[k + 1][1] = "expr")
      <3>1. CASE k = Len(parts) + 1
        BY <2>3, <3>1
      <3>2. CASE k # Len(parts) + 1
        <4>1. k \in 1 .. Len(parts) /\ parts # <<>>
          BY <2>3, <3>2
        <4>2. parts[k][1] = "lit" /\ parts[k][2] # <<>> /\ more[k][2] # <<>>
          BY <2>3, <2>4, <4>1 DEF WellParted
        <4>3. k # Len(parts)
          BY <1>1, <4>1, <4>2
        <4>4. k < Len(parts) /\ k + 1 \in 1 .. Len(parts)
          BY <2>3, <4>1, <4>3
        <4> QED BY <2>3, <4>1, <4>2, <4>4 DEF WellParted
      <3> QED BY <3>1, <3>2
    <2> QED BY <2>1, <2>3, <2>4 DEF WellParted
  <1>2. CASE ~ (parts = <<>> \/ parts[Len(parts)][1] = "expr")
    <2>1. /\ Len(parts) \in Nat \ {0} /\ parts[Len(parts)] \in Parts(Chars)
          /\ Front(parts) \in Seq(Parts(Chars)) /\ Len(Front(parts)) = Len(parts) - 1
          /\ \A k \in 1 .. Len(parts) - 1 : Front(parts)[k] = parts[k]
      BY <1>2, FrontIs
    <2>2. parts[Len(parts)][1] = "lit" /\ parts[Len(parts)][2] \in Seq(Chars)
      BY <1>2, <2>1 DEF Parts
    <2> DEFINE text2 == parts[Len(parts)][2] \o chars
               more == Append(Front(parts), <<"lit", text2>>)
    <2>3. AddText(parts, chars) = more
      BY <1>2, <2>2, AddTextMore
    <2>4. text2 \in Seq(Chars) /\ text2 # <<>>
      BY <2>2, ConcatEqualIffEmpty, ConcatProperties
    <2> HIDE DEF text2
    <2>5. <<"lit", text2>> \in Parts(Chars)
      BY <2>4 DEF Parts
    <2>6. /\ more \in Seq(Parts(Chars)) /\ Len(more) = Len(parts)
          /\ \A k \in 1 .. Len(parts) - 1 : more[k] = parts[k]
          /\ more[Len(parts)] = <<"lit", text2>>
      BY <2>1, <2>5, AppendIs
    <2> HIDE DEF more
    <2>7. ASSUME NEW k \in 1 .. Len(more), more[k][1] = "lit"
          PROVE  more[k][2] # <<>> /\ (k < Len(more) => more[k + 1][1] = "expr")
      <3>1. CASE k = Len(parts)
        BY <2>4, <2>6, <3>1
      <3>2. CASE k # Len(parts)
        <4>1. k \in 1 .. Len(parts) - 1 /\ k \in 1 .. Len(parts) /\ k < Len(parts) /\ k + 1 \in 1 .. Len(parts)
          BY <2>1, <2>6, <3>2
        <4>2. parts[k][2] # <<>> /\ parts[k + 1][1] = "expr"
          BY <2>6, <2>7, <4>1 DEF WellParted
        <4>3. k + 1 # Len(parts)
          BY <2>2, <4>2
        <4>4. k + 1 \in 1 .. Len(parts) - 1
          BY <2>1, <4>1, <4>3
        <4> QED BY <2>6, <4>1, <4>2, <4>4
      <3> QED BY <3>1, <3>2
    <2> QED BY <2>3, <2>6, <2>7 DEF WellParted
  <1> QED BY <1>1, <1>2

\* An expression more.
LEMMA AppendParted ==
  ASSUME NEW Chars, NEW parts \in Seq(Parts(Chars)), WellParted(parts), NEW chars \in Seq(Chars)
  PROVE  /\ Append(parts, <<"expr", chars>>) \in Seq(Parts(Chars))
         /\ WellParted(Append(parts, <<"expr", chars>>))
  <1> DEFINE more == Append(parts, <<"expr", chars>>)
  <1>1. <<"expr", chars>> \in Parts(Chars)
    BY DEF Parts
  <1>2. /\ more \in Seq(Parts(Chars)) /\ Len(more) = Len(parts) + 1 /\ Len(parts) \in Nat
        /\ \A k \in 1 .. Len(parts) : more[k] = parts[k]
        /\ more[Len(parts) + 1] = <<"expr", chars>>
    BY <1>1, AppendIs
  <1> HIDE DEF more
  <1>3. ASSUME NEW k \in 1 .. Len(more), more[k][1] = "lit"
        PROVE  more[k][2] # <<>> /\ (k < Len(more) => more[k + 1][1] = "expr")
    <2>1. k # Len(parts) + 1
      BY <1>2, <1>3
    <2>2. k \in 1 .. Len(parts)
      BY <1>2, <2>1
    <2>3. parts[k][2] # <<>> /\ (k < Len(parts) => parts[k + 1][1] = "expr")
      BY <1>2, <1>3, <2>2 DEF WellParted
    <2>4. CASE k < Len(parts)
      BY <1>2, <2>2, <2>3, <2>4
    <2>5. CASE k = Len(parts)
      BY <1>2, <2>2, <2>3, <2>5
    <2> QED BY <1>2, <2>2, <2>4, <2>5
  <1> QED BY <1>2, <1>3 DEF WellParted, more

-----------------------------------------------------------------------------
(* An expression in a string.                                              *)

ExprStates(s, Chars, start) ==
    {x \in [i : start .. Len(s) + 1, depth : Nat, inString : BOOLEAN, expr : Seq(Chars)] :
        x.depth = 0 => x.expr # <<>>}

LEMMA ExprTurnStays ==
  ASSUME NEW Chars, NEW s \in Seq(Chars), NEW start \in Nat \ {0}, NEW x \in ExprStates(s, Chars, start)
  PROVE  ExprTurn(s, x) \in ExprStates(s, Chars, start)
  <1>1. /\ x \in [i : start .. Len(s) + 1, depth : Nat, inString : BOOLEAN, expr : Seq(Chars)]
        /\ x.i \in start .. Len(s) + 1 /\ x.depth \in Nat /\ x.inString \in BOOLEAN
        /\ x.expr \in Seq(Chars) /\ Len(s) \in Nat /\ \A k \in 1 .. Len(s) : s[k] \in Chars
    BY DEF ExprStates
  <1>2. CASE x.depth = 0 \/ Beyond(s, x.i)
    BY <1>2 DEF ExprTurn
  <1>3. CASE ~ (x.depth = 0 \/ Beyond(s, x.i))
    <2>1. x.i \in 1 .. Len(s) /\ x.i + 1 \in start .. Len(s) + 1 /\ x.depth \in Nat \ {0} /\ s[x.i] \in Chars
      BY <1>1, <1>3 DEF Beyond
    <2>2. CASE x.inString /\ s[x.i] = "back" /\ x.i < Len(s)
      <3> DEFINE more == x.expr \o <<s[x.i], s[x.i + 1]>>
      <3>1. ExprTurn(s, x) = [x EXCEPT !.i = @ + 2, !.expr = more]
        BY <1>3, <2>2 DEF ExprTurn
      <3>2. <<s[x.i], s[x.i + 1]>> \in Seq(Chars)
        BY <1>1, <2>1, <2>2
      <3>3. more \in Seq(Chars)
        BY <1>1, <3>2, ConcatProperties
      <3>4. x.i + 2 \in start .. Len(s) + 1
        BY <1>1, <2>1, <2>2
      <3> HIDE DEF more
      <3> QED BY <1>1, <2>1, <3>1, <3>3, <3>4 DEF ExprStates
    <2>3. CASE ~ (x.inString /\ s[x.i] = "back" /\ x.i < Len(s))
      <3> DEFINE more == Append(x.expr, s[x.i])
                 depth == IF x.inString THEN x.depth
                          ELSE CASE s[x.i] = "lbrace" -> x.depth + 1 [] s[x.i] = "rbrace" -> x.depth - 1
                                 [] OTHER -> x.depth
                 inside == x.inString # (s[x.i] = "quote")
      <3>1. ExprTurn(s, x) = [x EXCEPT !.i = @ + 1, !.depth = depth, !.inString = inside, !.expr = more]
        BY <1>3, <2>3 DEF ExprTurn
      <3>2. more \in Seq(Chars) /\ Len(more) = Len(x.expr) + 1 /\ Len(x.expr) \in Nat
        BY <1>1, <2>1, AppendIs
      <3>3. depth \in Nat
        <4>1. x.depth + 1 \in Nat /\ x.depth - 1 \in Nat
          BY <2>1
        <4> HIDE DEF depth
        <4>2. depth \in {x.depth, x.depth + 1, x.depth - 1}
          BY DEF depth
        <4> QED BY <1>1, <4>1, <4>2
      <3>4. inside \in BOOLEAN
        OBVIOUS
      <3> HIDE DEF more, depth, inside
      <3>5. more # <<>>
        BY <3>2
      <3> QED BY <1>1, <2>1, <3>1, <3>2, <3>3, <3>4, <3>5 DEF ExprStates
    <2> QED BY <2>2, <2>3
  <1> QED BY <1>2, <1>3

LEMMA ScanExprIs ==
  ASSUME NEW Chars, NEW s \in Seq(Chars), NEW start \in 1 .. Len(s) + 1
  PROVE  ScanExpr(s, start) \in ExprStates(s, Chars, start)
  <1> DEFINE D == ExprStates(s, Chars, start)
             first == [i |-> start, depth |-> 1, inString |-> FALSE, expr |-> <<>>]
             next == [x \in D |-> ExprTurn(s, x)]
             W(f) == f = [n \in 0 .. Len(s) |-> IF n = 0 THEN first ELSE ExprTurn(s, f[n - 1])]
             last == (CHOOSE f : W(f))[Len(s)]
  <1>1. Len(s) \in Nat /\ start \in Nat \ {0} /\ start \in start .. Len(s) + 1
    OBVIOUS
  <1>2. first \in D
    BY <1>1 DEF ExprStates
  <1>3. next \in [D -> D]
    BY <1>1, ExprTurnStays
  <1>4. ScanExpr(s, start) = last
    BY DEF ScanExpr
  <1>5. PICK f : IsRun(f, D, next, first, Len(s))
    <2> HIDE DEF D, first, next
    <2> QED BY <1>1, <1>2, <1>3, RunExists
  <1>6. /\ \A k \in 1 .. Len(s) : f[k - 1] \in D /\ f[k] = ExprTurn(s, f[k - 1])
        /\ f \in [0 .. Len(s) -> D] /\ f[0] = first
    <2>1. \A k \in 1 .. Len(s) : k - 1 \in 0 .. Len(s)
      BY <1>1
    <2> HIDE DEF D, first
    <2> QED BY <1>5, <2>1 DEF IsRun
  <1>7. W(f)
    <2> HIDE DEF D, first
    <2> QED BY <1>1, <1>6
  <1>8. PICK g : W(g) /\ last = g[Len(s)]
    <2> HIDE DEF W
    <2> QED BY <1>7
  <1> HIDE DEF last
  <1>9. Alike(f, g, Len(s))
    <2> HIDE DEF D, first
    <2>1. /\ \A k \in 0 .. Len(s) : f[k] = IF k = 0 THEN first ELSE ExprTurn(s, f[k - 1])
          /\ \A k \in 0 .. Len(s) : g[k] = IF k = 0 THEN first ELSE ExprTurn(s, g[k - 1])
      BY <1>7, <1>8
    <2> QED BY <1>1, <2>1 DEF Alike
  <1>10. f[Len(s)] = g[Len(s)]
    BY <1>1, <1>9, RunUnique
  <1> HIDE DEF D
  <1>11. f[Len(s)] \in D
    BY <1>1, <1>6
  <1> QED BY <1>4, <1>8, <1>10, <1>11 DEF D

-----------------------------------------------------------------------------
(* A string.                                                               *)

StringStates(s, Chars, quote, start) ==
    {x \in [is : {"open", "closed", "broken"}, i : start .. Len(s) + 1, parts : Seq(Parts(Chars))] :
        WellParted(x.parts) /\ (x.is = "closed" => s[x.i - 1] = quote)}

OpenString(start) == [is |-> "open", i |-> start, parts |-> <<>>]

\* A turn of a string goes on by a character at least, or closes it, or finds it broken.
LEMMA StringTurnStays ==
  ASSUME NEW Chars, NEW s \in Seq(Chars), NEW quote, NEW count \in {1, 3},
         NEW start \in Nat \ {0}, NEW x \in StringStates(s, Chars, quote, start)
  PROVE  StringTurn(s, quote, count, x) \in StringStates(s, Chars, quote, start)
  <1>1. /\ x \in [is : {"open", "closed", "broken"}, i : start .. Len(s) + 1, parts : Seq(Parts(Chars))]
        /\ x.i \in start .. Len(s) + 1 /\ x.parts \in Seq(Parts(Chars)) /\ WellParted(x.parts)
        /\ Len(s) \in Nat /\ \A k \in 1 .. Len(s) : s[k] \in Chars
    BY DEF StringStates
  <1>2. [x EXCEPT !.is = "broken"] \in StringStates(s, Chars, quote, start)
    BY <1>1 DEF StringStates
  <1>3. CASE x.is # "open" \/ Beyond(s, x.i) \/ (count = 1 /\ s[x.i] = "nl")
    BY <1>2, <1>3 DEF StringTurn
  <1>4. CASE ~ (x.is # "open" \/ Beyond(s, x.i) \/ (count = 1 /\ s[x.i] = "nl"))
    <2>1. x.is = "open" /\ x.i \in 1 .. Len(s) /\ x.i + 1 \in start .. Len(s) + 1 /\ s[x.i] \in Chars
          /\ x.i + 1 \in 1 .. Len(s) + 1
      BY <1>1, <1>4 DEF Beyond
    <2>2. CASE Ahead(s, x.i, count, quote)
      <3>1. x.i + count - 1 <= Len(s) /\ s[x.i + count - 1] = quote
        BY <1>1, <2>1, <2>2 DEF Ahead
      <3>2. x.i + count \in start .. Len(s) + 1
        BY <1>1, <2>1, <3>1
      <3>3. StringTurn(s, quote, count, x) = [x EXCEPT !.i = @ + count, !.is = "closed"]
        BY <1>4, <2>2 DEF StringTurn
      <3>4. s[x.i + count - 1] = quote /\ (x.i + count) - 1 = x.i + count - 1
        BY <1>1, <3>1
      <3> DEFINE y == [x EXCEPT !.i = @ + count, !.is = "closed"]
      <3>5. /\ y \in [is : {"open", "closed", "broken"}, i : start .. Len(s) + 1, parts : Seq(Parts(Chars))]
            /\ y.i = x.i + count /\ y.parts = x.parts
        BY <1>1, <3>2
      <3> HIDE DEF y
      <3>6. y \in StringStates(s, Chars, quote, start)
        BY <1>1, <3>4, <3>5 DEF StringStates
      <3> QED BY <3>3, <3>6 DEF y
    <2>3. CASE ~Ahead(s, x.i, count, quote) /\ s[x.i] = "back"
      <3> DEFINE chars == IF s[x.i + 1] \in Escapable(quote) THEN <<s[x.i + 1]>>
                          ELSE <<"back", s[x.i + 1]>>
                 more == AddText(x.parts, chars)
      <3>1. StringTurn(s, quote, count, x) = EscapeTurn(s, quote, count, x)
        BY <1>4, <2>3 DEF StringTurn
      <3>2. CASE x.i = Len(s) \/ (count = 1 /\ s[x.i + 1] \notin Escapable(quote))
        BY <1>2, <3>1, <3>2 DEF EscapeTurn
      <3>3. CASE ~ (x.i = Len(s) \/ (count = 1 /\ s[x.i + 1] \notin Escapable(quote)))
        <4>1. EscapeTurn(s, quote, count, x) = [x EXCEPT !.i = @ + 2, !.parts = more]
          BY <3>3 DEF EscapeTurn
        <4>2. x.i + 1 \in 1 .. Len(s) /\ s[x.i + 1] \in Chars /\ x.i + 2 \in start .. Len(s) + 1
          BY <1>1, <2>1, <3>3
        <4>3. chars \in Seq(Chars) /\ chars # <<>>
          BY <2>1, <2>3, <4>2
        <4> HIDE DEF chars
        <4>4. more \in Seq(Parts(Chars)) /\ WellParted(more)
          BY <1>1, <4>3, AddTextParted
        <4> HIDE DEF more
        <4> QED BY <1>1, <2>1, <3>1, <4>1, <4>2, <4>4 DEF StringStates
      <3> QED BY <3>2, <3>3
    <2>4. CASE ~Ahead(s, x.i, count, quote) /\ s[x.i] = "lbrace" /\ quote = "tick"
      <3> DEFINE end == ScanExpr(s, x.i + 1)
                 more == Append(x.parts, <<"expr", Front(end.expr)>>)
      <3>1. StringTurn(s, quote, count, x) = InterpolationTurn(s, x)
        BY <1>4, <2>4 DEF StringTurn
      <3>2. end \in ExprStates(s, Chars, x.i + 1)
        BY <2>1, ScanExprIs
      <3> HIDE DEF end
      <3>3. /\ end.i \in x.i + 1 .. Len(s) + 1 /\ end.depth \in Nat
            /\ end.expr \in Seq(Chars) /\ (end.depth = 0 => end.expr # <<>>)
        BY <3>2 DEF ExprStates
      <3>4. CASE end.depth > 0
        BY <1>2, <3>1, <3>4 DEF InterpolationTurn, end
      <3>5. CASE ~ (end.depth > 0)
        <4>1. InterpolationTurn(s, x) = [x EXCEPT !.i = end.i, !.parts = more]
          BY <3>5 DEF InterpolationTurn, end
        <4>2. Front(end.expr) \in Seq(Chars)
          BY <3>3, <3>5, FrontIs
        <4>3. more \in Seq(Parts(Chars)) /\ WellParted(more)
          BY <1>1, <4>2, AppendParted
        <4>4. end.i \in start .. Len(s) + 1
          BY <1>1, <3>3
        <4> HIDE DEF more
        <4> QED BY <1>1, <2>1, <3>1, <4>1, <4>3, <4>4 DEF StringStates
      <3> QED BY <3>4, <3>5
    <2>5. CASE ~Ahead(s, x.i, count, quote) /\ s[x.i] # "back" /\ ~ (s[x.i] = "lbrace" /\ quote = "tick")
      <3> DEFINE more == AddText(x.parts, <<s[x.i]>>)
      <3>1. StringTurn(s, quote, count, x) = [x EXCEPT !.i = @ + 1, !.parts = more]
        BY <1>4, <2>5 DEF StringTurn
      <3>2. <<s[x.i]>> \in Seq(Chars) /\ <<s[x.i]>> # <<>>
        BY <2>1
      <3>3. more \in Seq(Parts(Chars)) /\ WellParted(more)
        BY <1>1, <3>2, AddTextParted
      <3> HIDE DEF more
      <3> QED BY <1>1, <2>1, <3>1, <3>3 DEF StringStates
    <2> QED BY <2>2, <2>3, <2>4, <2>5
  <1> QED BY <1>3, <1>4

IsStringRun(turn, s, Chars, quote, count, start) ==
    /\ turn \in [0 .. Len(s) -> StringStates(s, Chars, quote, start)]
    /\ turn[0] = OpenString(start)
    /\ \A k \in 1 .. Len(s) : turn[k] = StringTurn(s, quote, count, turn[k - 1])
    /\ turn[Len(s)] = ScanString(s, start, quote, count)

LEMMA StringRun ==
  ASSUME NEW Chars, NEW s \in Seq(Chars), NEW quote, NEW count \in {1, 3},
         NEW start \in 1 .. Len(s) + 1
  PROVE  \E turn : IsStringRun(turn, s, Chars, quote, count, start)
  <1> DEFINE D == StringStates(s, Chars, quote, start)
             first == OpenString(start)
             next == [x \in D |-> StringTurn(s, quote, count, x)]
             W(f) == f = [n \in 0 .. Len(s) |-> IF n = 0 THEN first
                                                ELSE StringTurn(s, quote, count, f[n - 1])]
             last == (CHOOSE f : W(f))[Len(s)]
  <1>1. Len(s) \in Nat /\ start \in Nat \ {0} /\ start \in start .. Len(s) + 1
    OBVIOUS
  <1>2. first \in D
    BY <1>1 DEF StringStates, OpenString, WellParted
  <1>3. next \in [D -> D]
    BY <1>1, StringTurnStays
  <1>4. ScanString(s, start, quote, count) = last
    BY DEF ScanString, OpenString
  <1>5. PICK f : IsRun(f, D, next, first, Len(s))
    <2> HIDE DEF D, first, next
    <2> QED BY <1>1, <1>2, <1>3, RunExists
  <1>6. /\ \A k \in 1 .. Len(s) : f[k - 1] \in D /\ f[k] = StringTurn(s, quote, count, f[k - 1])
        /\ f \in [0 .. Len(s) -> D] /\ f[0] = first
    <2>1. \A k \in 1 .. Len(s) : k - 1 \in 0 .. Len(s)
      BY <1>1
    <2> HIDE DEF D, first
    <2> QED BY <1>5, <2>1 DEF IsRun
  <1>7. W(f)
    <2> HIDE DEF D, first
    <2> QED BY <1>1, <1>6
  <1>8. PICK g : W(g) /\ last = g[Len(s)]
    <2> HIDE DEF W
    <2> QED BY <1>7
  <1> HIDE DEF last
  <1>9. Alike(f, g, Len(s))
    <2> HIDE DEF D, first
    <2>1. /\ \A k \in 0 .. Len(s) : f[k] = IF k = 0 THEN first ELSE StringTurn(s, quote, count, f[k - 1])
          /\ \A k \in 0 .. Len(s) : g[k] = IF k = 0 THEN first ELSE StringTurn(s, quote, count, g[k - 1])
      BY <1>7, <1>8
    <2> QED BY <1>1, <2>1 DEF Alike
  <1>10. f[Len(s)] = g[Len(s)]
    BY <1>1, <1>9, RunUnique
  <1>11. IsStringRun(f, s, Chars, quote, count, start)
    BY <1>4, <1>6, <1>8, <1>10 DEF IsStringRun
  <1> HIDE DEF D, first, next, W
  <1> QED BY <1>11

-----------------------------------------------------------------------------
(* The formatter's scan for comments.                                      *)

State(i, line, code, inside, found) ==
    [i |-> i, line |-> line, code |-> code, inside |-> inside, found |-> found]
Shape(i, line, code, inside, found) ==
    [i : {i}, line : {line}, code : {code}, inside : {inside}, found : {found}]

\* In a string that so many quotes end.
In(quote, count) == <<quote, count>>

\* Nothing, or something, is on the line so far.
Blank == FALSE
Used == TRUE

Insides == {NoString} \cup {In(quote, count) : quote \in Quotes, count \in {1, 3}}
Comments == [at : Nat, line : Nat, trailing : BOOLEAN]
CommentStates(s) ==
    [i : 1 .. Len(s) + 1, line : Nat, code : BOOLEAN, inside : Insides, found : SUBSET Comments]

LEMMA InIs ==
  ASSUME NEW quote \in Quotes, NEW count
  PROVE  In(quote, count)[1] = quote /\ In(quote, count)[2] = count /\ In(quote, count) # NoString
  <1>1. In(quote, count)[1] = quote /\ In(quote, count)[2] = count /\ NoString[1] = ""
    BY DEF In, NoString
  <1>2. quote # ""
    BY DEF Quotes
  <1> QED BY <1>1, <1>2

LEMMA InsidesHold ==
  /\ Blank \in BOOLEAN /\ Used \in BOOLEAN
  /\ NoString \in Insides
  /\ \A quote \in Quotes : In(quote, 1) \in Insides /\ In(quote, 3) \in Insides
  BY DEF Insides, Blank, Used

LEMMA StateIs ==
  ASSUME NEW i, NEW line, NEW code, NEW inside, NEW found,
         NEW c, c = State(i, line, code, inside, found)
  PROVE  c.i = i /\ c.line = line /\ c.code = code /\ c.inside = inside /\ c.found = found
  BY DEF State

\* Two names of one record, and what a change of it gives.
LEMMA ShapeIs ==
  ASSUME NEW i, NEW line, NEW code, NEW inside, NEW found, NEW c
  PROVE  c \in Shape(i, line, code, inside, found) <=> c = State(i, line, code, inside, found)
  BY DEF State, Shape

LEMMA StateStays ==
  ASSUME NEW s, NEW i \in 1 .. Len(s) + 1, NEW line \in Nat, NEW code \in BOOLEAN,
         NEW inside \in Insides, NEW found \in SUBSET Comments
  PROVE  State(i, line, code, inside, found) \in CommentStates(s)
  BY DEF State, CommentStates

LEMMA EveryState ==
  ASSUME NEW s, NEW c \in CommentStates(s)
  PROVE  /\ c = State(c.i, c.line, c.code, c.inside, c.found)
         /\ c.i \in 1 .. Len(s) + 1 /\ c.line \in Nat /\ c.code \in BOOLEAN
         /\ c.inside \in Insides /\ c.found \in SUBSET Comments
  BY DEF State, CommentStates

\* In a string: past a line end, an escape, the quotes that end it, or a character.
LEMMA InStringTurns ==
  ASSUME NEW s, Len(s) \in Nat, NEW i \in 1 .. Len(s), NEW line, NEW code, NEW found,
         NEW quote \in Quotes, NEW count \in {1, 3}, NEW c,
         c = State(i, line, code, In(quote, count), found)
  PROVE  /\ c.i = i /\ c.line = line /\ c.code = code /\ c.found = found
         /\ c.inside[1] = quote /\ c.inside[2] = count
         /\ CommentTurn(s, c) = InString(s, c)
         /\ Ahead(s, i, count, quote) => s[i] = quote
         /\ quote # "nl" /\ quote # "back"
  <1>1. /\ c.i = i /\ c.line = line /\ c.code = code /\ c.inside = In(quote, count) /\ c.found = found
        /\ c.inside[1] = quote /\ c.inside[2] = count /\ c.inside # NoString
    BY StateIs, InIs
  <1>2. CommentTurn(s, c) = InString(s, c)
    BY <1>1 DEF CommentTurn, Beyond
  <1>3. Ahead(s, i, count, quote) => s[i] = quote
    BY DEF Ahead
  <1> QED BY <1>1, <1>2, <1>3 DEF Quotes

LEMMA InStringLineEnd ==
  ASSUME NEW s, Len(s) \in Nat, NEW i \in 1 .. Len(s), NEW line \in Nat, NEW code, NEW found,
         NEW quote \in Quotes, NEW count \in {1, 3}, s[i] = "nl"
  PROVE  CommentTurn(s, State(i, line, code, In(quote, count), found))
           = State(i + 1, line + 1, Blank, IF count = 1 THEN NoString ELSE In(quote, count), found)
  <1> DEFINE c == State(i, line, code, In(quote, count), found)
             d == State(i + 1, line + 1, Blank, In(quote, count), found)
             inside == IF count = 1 THEN NoString ELSE In(quote, count)
  <1> HIDE DEF c, d
  <1>1. /\ c.i = i /\ c.line = line /\ c.inside[2] = count /\ CommentTurn(s, c) = InString(s, c)
        /\ c.inside = In(quote, count) /\ d.inside = In(quote, count)
    <2>1. c = State(i, line, code, In(quote, count), found)
      BY DEF c
    <2>2. c.i = i /\ c.line = line /\ c.inside[2] = count /\ CommentTurn(s, c) = InString(s, c)
      BY <2>1, InStringTurns
    <2>3. c.inside = In(quote, count)
      BY <2>1, StateIs
    <2>4. d = State(i + 1, line + 1, Blank, In(quote, count), found)
      BY DEF d
    <2>5. d.inside = In(quote, count)
      BY <2>4, StateIs
    <2> QED BY <2>2, <2>3, <2>5
  <1>2. NewLine(c) = d
    <2>1. NewLine(c) = [c EXCEPT !.i = i + 1, !.line = line + 1, !.code = FALSE]
      BY <1>1 DEF NewLine
    <2>2. @ = d
      <3>1. c \in Shape(i, line, code, In(quote, count), found)
        BY ShapeIs DEF c
      <3>2. [c EXCEPT !.i = i + 1, !.line = line + 1, !.code = FALSE] \in Shape(i + 1, line + 1, Blank, In(quote, count), found)
        BY <3>1 DEF Shape, Blank
      <3> QED BY <3>2, ShapeIs DEF d
    <2> QED BY <2>1, <2>2
  <1>3. InString(s, c) = [NewLine(c) EXCEPT !.inside = IF count = 1 THEN NoString ELSE NewLine(c).inside]
    BY <1>1 DEF InString
  <1>4. InString(s, c) = [d EXCEPT !.inside = inside]
    BY <1>1, <1>2, <1>3
  <1> HIDE DEF inside
  <1>5. [d EXCEPT !.inside = inside] = State(i + 1, line + 1, Blank, inside, found)
    <2>1. d \in Shape(i + 1, line + 1, Blank, In(quote, count), found)
      BY ShapeIs DEF d
    <2>2. [d EXCEPT !.inside = inside] \in Shape(i + 1, line + 1, Blank, inside, found)
      BY <2>1 DEF Shape, Blank
    <2> QED BY <2>2, ShapeIs
  <1> QED BY <1>1, <1>4, <1>5 DEF c, inside

LEMMA InStringEscape ==
  ASSUME NEW s, Len(s) \in Nat, NEW i \in 1 .. Len(s), NEW line \in Nat, NEW code, NEW found,
         NEW quote \in Quotes, s[i] = "back", i < Len(s)
  PROVE  CommentTurn(s, State(i, line, code, In(quote, 1), found))
           = IF s[i + 1] = "nl" THEN State(i + 2, line + 1, Blank, In(quote, 1), found)
             ELSE State(i + 2, line, code, In(quote, 1), found)
  <1> DEFINE c == State(i, line, code, In(quote, 1), found)
             d == State(i + 1, line + 1, Blank, In(quote, 1), found)
  <1> HIDE DEF c, d
  <1>1. /\ c.i = i /\ c.line = line /\ c.inside[2] = 1 /\ CommentTurn(s, c) = InString(s, c)
        /\ c.inside[1] = quote /\ ~Ahead(s, i, 1, quote) /\ d.i = i + 1
    <2>1. c = State(i, line, code, In(quote, 1), found)
      BY DEF c
    <2>2. /\ c.i = i /\ c.line = line /\ c.inside[2] = 1 /\ CommentTurn(s, c) = InString(s, c)
          /\ c.inside[1] = quote /\ ~Ahead(s, i, 1, quote)
      BY <2>1, InStringTurns
    <2>3. d = State(i + 1, line + 1, Blank, In(quote, 1), found)
      BY DEF d
    <2>4. d.i = i + 1
      BY <2>3, StateIs
    <2> QED BY <2>2, <2>4
  <1>2. NewLine(c) = d
    <2>1. NewLine(c) = [c EXCEPT !.i = i + 1, !.line = line + 1, !.code = FALSE]
      BY <1>1 DEF NewLine
    <2>2. @ = d
      <3>1. c \in Shape(i, line, code, In(quote, 1), found)
        BY ShapeIs DEF c
      <3>2. [c EXCEPT !.i = i + 1, !.line = line + 1, !.code = FALSE] \in Shape(i + 1, line + 1, Blank, In(quote, 1), found)
        BY <3>1 DEF Shape, Blank
      <3> QED BY <3>2, ShapeIs DEF d
    <2> QED BY <2>1, <2>2
  <1>3. InString(s, c) = IF s[i + 1] = "nl" THEN [NewLine(c) EXCEPT !.i = NewLine(c).i + 1]
                         ELSE [c EXCEPT !.i = i + 2]
    BY <1>1 DEF InString
  <1>4. NewLine(c).i + 1 = i + 2
    BY <1>1, <1>2
  <1>5. [d EXCEPT !.i = i + 2] = State(i + 2, line + 1, Blank, In(quote, 1), found)
    <2>1. d \in Shape(i + 1, line + 1, Blank, In(quote, 1), found)
      BY ShapeIs DEF d
    <2>2. [d EXCEPT !.i = i + 2] \in Shape(i + 2, line + 1, Blank, In(quote, 1), found)
      BY <2>1 DEF Shape, Blank
    <2> QED BY <2>2, ShapeIs
  <1>6. [c EXCEPT !.i = i + 2] = State(i + 2, line, code, In(quote, 1), found)
    <2>1. c \in Shape(i, line, code, In(quote, 1), found)
      BY ShapeIs DEF c
    <2>2. [c EXCEPT !.i = i + 2] \in Shape(i + 2, line, code, In(quote, 1), found)
      BY <2>1 DEF Shape
    <2> QED BY <2>2, ShapeIs
  <1>7. CommentTurn(s, c) = IF s[i + 1] = "nl" THEN State(i + 2, line + 1, Blank, In(quote, 1), found)
                            ELSE State(i + 2, line, code, In(quote, 1), found)
    BY <1>1, <1>2, <1>3, <1>4, <1>5, <1>6
  <1> QED BY <1>7 DEF c

LEMMA InStringEnd ==
  ASSUME NEW s, Len(s) \in Nat, NEW i \in 1 .. Len(s), NEW line \in Nat, NEW code \in BOOLEAN, NEW found,
         NEW quote \in Quotes, NEW count \in {1, 3}, Ahead(s, i, count, quote)
  PROVE  CommentTurn(s, State(i, line, code, In(quote, count), found))
           = State(i + count, line, code \/ count = 3, NoString, found)
  <1> DEFINE c == State(i, line, code, In(quote, count), found)
             b == code \/ count = 3
  <1> HIDE DEF c
  <1>1. /\ c.i = i /\ c.code = code /\ c.inside[1] = quote /\ c.inside[2] = count
        /\ CommentTurn(s, c) = InString(s, c) /\ s[i] # "nl" /\ s[i] # "back"
    <2>1. c = State(i, line, code, In(quote, count), found)
      BY DEF c
    <2> QED BY <2>1, InStringTurns
  <1>2. (c.code \/ ~ (c.inside[2] = 1)) = b
    BY <1>1
  <1>3. InString(s, c) = [c EXCEPT !.i = i + count, !.inside = NoString, !.code = c.code \/ ~ (c.inside[2] = 1)]
    BY <1>1 DEF InString
  <1>4. InString(s, c) = [c EXCEPT !.i = i + count, !.inside = NoString, !.code = b]
    BY <1>2, <1>3
  <1> HIDE DEF b
  <1>5. [c EXCEPT !.i = i + count, !.inside = NoString, !.code = b]
          = State(i + count, line, b, NoString, found)
    <2>1. c \in Shape(i, line, code, In(quote, count), found)
      BY ShapeIs DEF c
    <2>2. [c EXCEPT !.i = i + count, !.inside = NoString, !.code = b] \in Shape(i + count, line, b, NoString, found)
      BY <2>1 DEF Shape
    <2> QED BY <2>2, ShapeIs
  <1> QED BY <1>1, <1>4, <1>5 DEF c, b

LEMMA InStringOther ==
  ASSUME NEW s, Len(s) \in Nat, NEW i \in 1 .. Len(s), NEW line \in Nat, NEW code, NEW found,
         NEW quote \in Quotes, NEW count \in {1, 3}, s[i] # "nl", ~Ahead(s, i, count, quote),
         ~ (s[i] = "back" /\ count = 1 /\ i < Len(s))
  PROVE  CommentTurn(s, State(i, line, code, In(quote, count), found))
           = State(i + 1, line, code, In(quote, count), found)
  <1> DEFINE c == State(i, line, code, In(quote, count), found)
  <1> HIDE DEF c
  <1>1. /\ c.i = i /\ c.inside[1] = quote /\ c.inside[2] = count
        /\ CommentTurn(s, c) = InString(s, c)
    BY InStringTurns DEF c
  <1>2. InString(s, c) = [c EXCEPT !.i = i + 1]
    BY <1>1 DEF InString
  <1>3. [c EXCEPT !.i = i + 1] = State(i + 1, line, code, In(quote, count), found)
    <2>1. c \in Shape(i, line, code, In(quote, count), found)
      BY ShapeIs DEF c
    <2>2. [c EXCEPT !.i = i + 1] \in Shape(i + 1, line, code, In(quote, count), found)
      BY <2>1 DEF Shape
    <2> QED BY <2>2, ShapeIs
  <1> QED BY <1>1, <1>2, <1>3 DEF c

\* In code: past a line end, the quotes that begin a string, a comment, or a character.
LEMMA InCodeTurns ==
  ASSUME NEW s, Len(s) \in Nat, NEW i \in 1 .. Len(s), NEW line, NEW code, NEW found, NEW c,
         c = State(i, line, code, NoString, found)
  PROVE  /\ c.i = i /\ c.line = line /\ c.code = code /\ c.found = found
         /\ CommentTurn(s, c) = InCode(s, c)
         /\ Ahead(s, i, 2, "slash") => s[i] = "slash"
         /\ "nl" \notin Quotes /\ "slash" \notin Quotes
  <1>1. c.i = i /\ c.line = line /\ c.code = code /\ c.inside = NoString /\ c.found = found
    BY StateIs
  <1>2. CommentTurn(s, c) = InCode(s, c)
    BY <1>1 DEF CommentTurn, Beyond
  <1>3. Ahead(s, i, 2, "slash") => s[i] = "slash"
    BY DEF Ahead
  <1> QED BY <1>1, <1>2, <1>3 DEF Quotes

LEMMA InCodeLineEnd ==
  ASSUME NEW s, Len(s) \in Nat, NEW i \in 1 .. Len(s), NEW line \in Nat, NEW code, NEW found,
         s[i] = "nl"
  PROVE  CommentTurn(s, State(i, line, code, NoString, found))
           = State(i + 1, line + 1, Blank, NoString, found)
  <1> DEFINE c == State(i, line, code, NoString, found)
  <1> HIDE DEF c
  <1>1. /\ c.i = i /\ c.line = line /\ CommentTurn(s, c) = InCode(s, c)
        /\ ~Ahead(s, i, 2, "slash") /\ s[i] \notin Quotes
    BY InCodeTurns DEF c
  <1>2. InCode(s, c) = NewLine(c)
    BY <1>1 DEF InCode
  <1>3. NewLine(c) = [c EXCEPT !.i = i + 1, !.line = line + 1, !.code = FALSE]
    BY <1>1 DEF NewLine
  <1>4. @ = State(i + 1, line + 1, Blank, NoString, found)
    <2>1. c \in Shape(i, line, code, NoString, found)
      BY ShapeIs DEF c
    <2>2. [c EXCEPT !.i = i + 1, !.line = line + 1, !.code = FALSE] \in Shape(i + 1, line + 1, Blank, NoString, found)
      BY <2>1 DEF Shape, Blank
    <2> QED BY <2>2, ShapeIs
  <1> QED BY <1>1, <1>2, <1>3, <1>4 DEF c

LEMMA InCodeQuote ==
  ASSUME NEW s, Len(s) \in Nat, NEW i \in 1 .. Len(s), NEW line \in Nat, NEW code, NEW found,
         s[i] \in Quotes, NEW count, count = IF Ahead(s, i, 3, s[i]) THEN 3 ELSE 1
  PROVE  CommentTurn(s, State(i, line, code, NoString, found))
           = State(i + count, line, Used, In(s[i], count), found)
  <1> DEFINE c == State(i, line, code, NoString, found)
  <1> HIDE DEF c
  <1>1. /\ c.i = i /\ CommentTurn(s, c) = InCode(s, c)
        /\ ~Ahead(s, i, 2, "slash") /\ s[i] # "nl"
    BY InCodeTurns DEF c
  <1>2. InCode(s, c) = IF Ahead(s, i, 3, s[i]) THEN Skip(c, 3, <<s[i], 3>>) ELSE Skip(c, 1, <<s[i], 1>>)
    BY <1>1 DEF InCode
  <1>3. In(s[i], 3) = <<s[i], 3>> /\ In(s[i], 1) = <<s[i], 1>>
    BY Zenon DEF In
  <1>4. InCode(s, c) = Skip(c, count, In(s[i], count))
    BY <1>2, <1>3
  <1>5. Skip(c, count, In(s[i], count)) = [c EXCEPT !.i = i + count, !.code = TRUE, !.inside = In(s[i], count)]
    BY <1>1 DEF Skip
  <1>6. @ = State(i + count, line, Used, In(s[i], count), found)
    <2> DEFINE inside == In(s[i], count)
               j == i + count
    <2>1. c \in Shape(i, line, code, NoString, found)
      BY ShapeIs DEF c
    <2> HIDE DEF inside, j
    <2>2. [c EXCEPT !.i = j, !.code = TRUE, !.inside = inside] \in Shape(j, line, Used, inside, found)
      BY <2>1 DEF Shape, Used
    <2>3. [c EXCEPT !.i = j, !.code = TRUE, !.inside = inside] = State(j, line, Used, inside, found)
      BY <2>2, ShapeIs
    <2> QED BY <2>3 DEF inside, j
  <1> QED BY <1>1, <1>4, <1>5, <1>6 DEF c

LEMMA InCodeComment ==
  ASSUME NEW s, Len(s) \in Nat, NEW i \in 1 .. Len(s), NEW line \in Nat, NEW code, NEW found,
         Ahead(s, i, 2, "slash")
  PROVE  CommentTurn(s, State(i, line, code, NoString, found))
           = State(LineEnd(s, i), line, code, NoString,
                   found \cup {[at |-> i, line |-> line, trailing |-> code]})
  <1> DEFINE c == State(i, line, code, NoString, found)
             next == LineEnd(s, i)
             more == found \cup {[at |-> i, line |-> line, trailing |-> code]}
  <1> HIDE DEF c
  <1>1. /\ c.i = i /\ c.line = line /\ c.code = code /\ c.found = found
        /\ CommentTurn(s, c) = InCode(s, c) /\ s[i] \notin Quotes /\ s[i] # "nl"
    BY InCodeTurns DEF c
  <1>2. InCode(s, c) = [c EXCEPT !.i = next, !.found = more]
    BY <1>1 DEF InCode
  <1> HIDE DEF next, more
  <1>3. [c EXCEPT !.i = next, !.found = more] = State(next, line, code, NoString, more)
    <2>1. c \in Shape(i, line, code, NoString, found)
      BY ShapeIs DEF c
    <2>2. [c EXCEPT !.i = next, !.found = more] \in Shape(next, line, code, NoString, more)
      BY <2>1 DEF Shape
    <2> QED BY <2>2, ShapeIs
  <1>4. CommentTurn(s, c) = State(next, line, code, NoString, more)
    BY <1>1, <1>2, <1>3
  <1> QED BY <1>4 DEF c, next, more

LEMMA InCodeOther ==
  ASSUME NEW s, Len(s) \in Nat, NEW i \in 1 .. Len(s), NEW line \in Nat, NEW code, NEW found,
         s[i] # "nl", s[i] \notin Quotes, ~Ahead(s, i, 2, "slash")
  PROVE  CommentTurn(s, State(i, line, code, NoString, found))
           = State(i + 1, line, Used, NoString, found)
  <1> DEFINE c == State(i, line, code, NoString, found)
  <1> HIDE DEF c
  <1>1. c.i = i /\ CommentTurn(s, c) = InCode(s, c)
    BY InCodeTurns DEF c
  <1>2. InCode(s, c) = Skip(c, 1, NoString)
    BY <1>1 DEF InCode
  <1>3. Skip(c, 1, NoString) = [c EXCEPT !.i = i + 1, !.code = TRUE, !.inside = NoString]
    BY <1>1 DEF Skip
  <1>4. @ = State(i + 1, line, Used, NoString, found)
    <2>1. c \in Shape(i, line, code, NoString, found)
      BY ShapeIs DEF c
    <2>2. [c EXCEPT !.i = i + 1, !.code = TRUE, !.inside = NoString] \in Shape(i + 1, line, Used, NoString, found)
      BY <2>1 DEF Shape, Used
    <2> QED BY <2>2, ShapeIs
  <1> QED BY <1>1, <1>2, <1>3, <1>4 DEF c

\* Every turn goes on by a character at least.
Onward(s, c, i) == \E d \in CommentStates(s) : d = CommentTurn(s, c) /\ d.i > i

LEMMA OnwardIs ==
  ASSUME NEW s, Len(s) \in Nat, NEW c, NEW i \in 1 .. Len(s), NEW j \in 1 .. Len(s) + 1, j > i,
         NEW line \in Nat, NEW code \in BOOLEAN, NEW inside \in Insides,
         NEW found \in SUBSET Comments, CommentTurn(s, c) = State(j, line, code, inside, found)
  PROVE  Onward(s, c, i)
  BY StateStays, StateIs DEF Onward

LEMMA StateTurns ==
  ASSUME NEW s, Len(s) \in Nat, NEW i \in 1 .. Len(s), NEW line \in Nat, NEW code \in BOOLEAN,
         NEW inside \in Insides, NEW found \in SUBSET Comments
  PROVE  Onward(s, State(i, line, code, inside, found), i)
  <1> DEFINE c == State(i, line, code, inside, found)
  <1> HIDE DEF c
  <1>1. /\ i + 1 \in 1 .. Len(s) + 1 /\ i + 1 > i /\ i + 2 > i /\ line + 1 \in Nat
        /\ c = State(i, line, code, inside, found)
    BY DEF c
  <1>2. CASE inside = NoString
    <2>1. c = State(i, line, code, NoString, found)
      BY <1>1, <1>2
    <2>2. CASE s[i] = "nl"
      <3>1. CommentTurn(s, c) = State(i + 1, line + 1, Blank, NoString, found)
        BY <1>1, <2>1, <2>2, InCodeLineEnd
      <3> QED BY <1>1, <3>1, InsidesHold, OnwardIs
    <2>3. CASE s[i] \in Quotes
      <3>1. CASE Ahead(s, i, 3, s[i])
        <4>1. i + 3 \in 1 .. Len(s) + 1 /\ i + 3 > i
          BY <1>1, <3>1 DEF Ahead
        <4>2. CommentTurn(s, c) = State(i + 3, line, Used, In(s[i], 3), found)
          BY <1>1, <2>1, <2>3, <3>1, InCodeQuote
        <4> QED BY <1>1, <2>3, <4>1, <4>2, InsidesHold, OnwardIs
      <3>2. CASE ~Ahead(s, i, 3, s[i])
        <4>1. CommentTurn(s, c) = State(i + 1, line, Used, In(s[i], 1), found)
          BY <1>1, <2>1, <2>3, <3>2, InCodeQuote
        <4> QED BY <1>1, <2>3, <4>1, InsidesHold, OnwardIs
      <3> QED BY <3>1, <3>2
    <2>4. CASE Ahead(s, i, 2, "slash")
      <3> DEFINE next == LineEnd(s, i)
                 comment == [at |-> i, line |-> line, trailing |-> code]
      <3>1. next \in i .. Len(s) + 1 /\ (next > Len(s) \/ s[next] = "nl")
        BY LineEndIs
      <3>2. s[i] = "slash"
        BY <1>1, <2>4 DEF Ahead
      <3>3. comment \in Comments
        BY <1>1 DEF Comments
      <3>4. CommentTurn(s, c) = State(next, line, code, NoString, found \cup {comment})
        BY <1>1, <2>1, <2>4, InCodeComment
      <3> HIDE DEF next, comment
      <3>5. next \in 1 .. Len(s) + 1 /\ next > i
        <4>1. next # i
          BY <1>1, <3>1, <3>2
        <4> QED BY <1>1, <3>1, <4>1
      <3>6. found \cup {comment} \in SUBSET Comments
        BY <3>3
      <3> QED BY <1>1, <3>4, <3>5, <3>6, InsidesHold, OnwardIs
    <2>5. CASE s[i] # "nl" /\ s[i] \notin Quotes /\ ~Ahead(s, i, 2, "slash")
      <3>1. CommentTurn(s, c) = State(i + 1, line, Used, NoString, found)
        BY <1>1, <2>1, <2>5, InCodeOther
      <3> QED BY <1>1, <3>1, InsidesHold, OnwardIs
    <2> QED BY <2>2, <2>3, <2>4, <2>5
  <1>3. CASE inside # NoString
    <2>1. PICK quote \in Quotes, count \in {1, 3} : inside = In(quote, count)
      BY <1>3 DEF Insides
    <2>2. c = State(i, line, code, In(quote, count), found)
      BY <1>1, <2>1
    <2>3. In(quote, count) \in Insides
      BY InsidesHold
    <2>4. CASE s[i] = "nl"
      <3> DEFINE kind == IF count = 1 THEN NoString ELSE In(quote, count)
      <3>1. CommentTurn(s, c) = State(i + 1, line + 1, Blank, kind, found)
        BY <1>1, <2>2, <2>4, InStringLineEnd
      <3>2. kind \in Insides
        BY <2>3, InsidesHold
      <3> HIDE DEF kind
      <3> QED BY <1>1, <3>1, <3>2, InsidesHold, OnwardIs
    <2>5. CASE s[i] = "back" /\ count = 1 /\ i < Len(s)
      <3>1. i + 2 \in 1 .. Len(s) + 1
        BY <2>5
      <3>2. \/ CommentTurn(s, c) = State(i + 2, line + 1, Blank, In(quote, count), found)
            \/ CommentTurn(s, c) = State(i + 2, line, code, In(quote, count), found)
        BY <1>1, <2>2, <2>5, InStringEscape
      <3>3. CASE CommentTurn(s, c) = State(i + 2, line + 1, Blank, In(quote, count), found)
        BY <1>1, <2>3, <3>1, <3>3, InsidesHold, OnwardIs
      <3>4. CASE CommentTurn(s, c) = State(i + 2, line, code, In(quote, count), found)
        BY <1>1, <2>3, <3>1, <3>4, OnwardIs
      <3> QED BY <3>2, <3>3, <3>4
    <2>6. CASE Ahead(s, i, count, quote)
      <3>1. i + count \in 1 .. Len(s) + 1 /\ i + count > i
        BY <1>1, <2>6 DEF Ahead
      <3> DEFINE b == code \/ count = 3
      <3>2. CommentTurn(s, c) = State(i + count, line, b, NoString, found)
        BY <1>1, <2>2, <2>6, InStringEnd
      <3>3. b \in BOOLEAN
        OBVIOUS
      <3> HIDE DEF b
      <3> QED BY <1>1, <3>1, <3>2, <3>3, InsidesHold, OnwardIs
    <2>7. CASE /\ s[i] # "nl" /\ ~ (s[i] = "back" /\ count = 1 /\ i < Len(s))
               /\ ~Ahead(s, i, count, quote)
      <3>1. CommentTurn(s, c) = State(i + 1, line, code, In(quote, count), found)
        BY <1>1, <2>2, <2>7, InStringOther
      <3> QED BY <1>1, <2>3, <3>1, OnwardIs
    <2> QED BY <2>4, <2>5, <2>6, <2>7
  <1> QED BY <1>2, <1>3 DEF c

LEMMA CommentTurnStays ==
  ASSUME NEW s, Len(s) \in Nat, NEW c \in CommentStates(s)
  PROVE  /\ CommentTurn(s, c) \in CommentStates(s)
         /\ c.i > Len(s) => CommentTurn(s, c) = c
         /\ c.i <= Len(s) => CommentTurn(s, c).i > c.i
  <1>1. PICK i \in 1 .. Len(s) + 1, line \in Nat, code \in BOOLEAN, inside \in Insides,
             found \in SUBSET Comments : c = State(i, line, code, inside, found)
    BY EveryState
  <1>2. c.i = i
    BY <1>1, StateIs
  <1>3. CASE i > Len(s)
    BY <1>2, <1>3 DEF CommentTurn, Beyond
  <1>4. CASE i <= Len(s)
    <2>1. i \in 1 .. Len(s)
      BY <1>4
    <2>2. Onward(s, State(i, line, code, inside, found), i)
      BY <2>1, StateTurns
    <2>3. PICK d \in CommentStates(s) : d = CommentTurn(s, c) /\ d.i > i
      BY <1>1, <2>2 DEF Onward
    <2> QED BY <1>2, <1>4, <2>3
  <1> QED BY <1>3, <1>4

\* The states the scan goes through: where one is at the end, what it found
\* is what there is.
Visited(V, s) ==
    /\ V \subseteq CommentStates(s)
    /\ State(1, 1, Blank, NoString, {}) \in V
    /\ \A c \in V : CommentTurn(s, c) \in V
    /\ \A c \in V : c.i > Len(s) => c.found = ExtractComments(s)

LEMMA CommentRun ==
  ASSUME NEW s, Len(s) \in Nat
  PROVE  \E V : Visited(V, s)
  <1> DEFINE D == CommentStates(s)
             first == State(1, 1, Blank, NoString, {})
             next == [c \in D |-> CommentTurn(s, c)]
             W(f) == f = [n \in 0 .. Len(s) |-> IF n = 0 THEN first ELSE CommentTurn(s, f[n - 1])]
             last == (CHOOSE f : W(f))[Len(s)]
  <1>1. first \in D /\ first.i = 1
    <2>1. /\ 1 \in 1 .. Len(s) + 1 /\ 1 \in Nat /\ Blank \in BOOLEAN /\ {} \in SUBSET Comments
          /\ NoString \in Insides
      BY InsidesHold
    <2> QED BY <2>1, StateStays, StateIs
  <1>2. next \in [D -> D]
    BY CommentTurnStays
  <1>3. ExtractComments(s) = last.found
    BY DEF ExtractComments, State, Blank
  <1>4. PICK f : IsRun(f, D, next, first, Len(s))
    <2> HIDE DEF D, first, next
    <2> QED BY <1>1, <1>2, RunExists
  <1>5. /\ \A k \in 1 .. Len(s) : f[k - 1] \in D /\ f[k] = CommentTurn(s, f[k - 1])
        /\ f \in [0 .. Len(s) -> D] /\ f[0] = first
    <2>1. \A k \in 1 .. Len(s) : k - 1 \in 0 .. Len(s)
      OBVIOUS
    <2> HIDE DEF D, first
    <2> QED BY <1>4, <2>1 DEF IsRun
  <1>6. W(f)
    <2> HIDE DEF D, first
    <2> QED BY <1>5
  <1>7. PICK g : W(g) /\ last = g[Len(s)]
    <2> HIDE DEF W
    <2> QED BY <1>6
  <1> HIDE DEF last
  <1>8. Alike(f, g, Len(s))
    <2> HIDE DEF D, first
    <2>1. /\ \A k \in 0 .. Len(s) : f[k] = IF k = 0 THEN first ELSE CommentTurn(s, f[k - 1])
          /\ \A k \in 0 .. Len(s) : g[k] = IF k = 0 THEN first ELSE CommentTurn(s, g[k - 1])
      BY <1>6, <1>7
    <2> QED BY <2>1 DEF Alike
  <1>9. ExtractComments(s) = f[Len(s)].found
    BY <1>3, <1>7, <1>8, RunUnique
  <1>10. \A k \in 0 .. Len(s) : f[k].i >= k + 1
    <2> DEFINE P == {k \in Nat : k <= Len(s) => f[k].i >= k + 1}
    <2>1. 0 \in P
      BY <1>1, <1>5
    <2>2. ASSUME NEW k \in Nat, k \in P
          PROVE  k + 1 \in P
      <3> SUFFICES ASSUME k + 1 <= Len(s)
                   PROVE  f[k + 1].i >= k + 2
        OBVIOUS
      <3> HIDE DEF D, first
      <3>1. k + 1 \in 1 .. Len(s) /\ (k + 1) - 1 = k /\ k <= Len(s)
        OBVIOUS
      <3>2. f[k] \in D /\ f[k + 1] = CommentTurn(s, f[k]) /\ f[k].i >= k + 1
        BY <1>5, <2>2, <3>1
      <3>3. f[k].i \in Nat /\ f[k + 1].i \in Nat
        <4>1. f[k + 1] \in D
          BY <1>5
        <4> QED BY <3>2, <4>1 DEF D, CommentStates
      <3>4. /\ f[k].i > Len(s) => f[k + 1] = f[k]
            /\ f[k].i <= Len(s) => f[k + 1].i > f[k].i
        BY <3>2, CommentTurnStays DEF D
      <3> QED BY <3>1, <3>2, <3>3, <3>4
    <2> HIDE DEF P
    <2>3. Nat \subseteq P
      BY <2>1, <2>2, SetInduction
    <2> QED BY <2>3 DEF P
  <1>11. ASSUME NEW k \in 0 .. Len(s), f[k].i > Len(s)
         PROVE  f[Len(s)] = f[k]
    <2> DEFINE P == {m \in Nat : k + m <= Len(s) => f[k + m] = f[k]}
    <2>1. 0 \in P
      OBVIOUS
    <2>2. ASSUME NEW m \in Nat, m \in P
          PROVE  m + 1 \in P
      <3> SUFFICES ASSUME k + (m + 1) <= Len(s)
                   PROVE  f[k + (m + 1)] = f[k]
        OBVIOUS
      <3> HIDE DEF D, first
      <3>1. k + (m + 1) \in 1 .. Len(s) /\ (k + (m + 1)) - 1 = k + m /\ k + m <= Len(s)
        OBVIOUS
      <3>2. f[k] \in D /\ f[k + m] = f[k] /\ f[k + (m + 1)] = CommentTurn(s, f[k])
        BY <1>5, <2>2, <3>1
      <3> QED BY <1>11, <3>2, CommentTurnStays DEF D
    <2> HIDE DEF P
    <2>3. Nat \subseteq P
      BY <2>1, <2>2, SetInduction
    <2>4. Len(s) - k \in Nat /\ k + (Len(s) - k) = Len(s)
      OBVIOUS
    <2>5. Len(s) - k \in P
      BY <2>3, <2>4
    <2> QED BY <2>4, <2>5 DEF P
  <1> DEFINE V == {f[k] : k \in 0 .. Len(s)}
  <1> HIDE DEF D, first
  <1>12. V \subseteq D /\ first \in V
    BY <1>5
  <1>13. ASSUME NEW c \in V
         PROVE  CommentTurn(s, c) \in V
    <2>1. PICK k \in 0 .. Len(s) : c = f[k]
      OBVIOUS
    <2>2. CASE k = Len(s)
      <3>1. c \in D /\ c.i >= Len(s) + 1
        BY <1>5, <1>10, <2>1, <2>2
      <3>2. c.i \in Nat
        BY <3>1 DEF D, CommentStates
      <3>3. c.i > Len(s)
        BY <3>1, <3>2
      <3> QED BY <3>1, <3>3, CommentTurnStays DEF D
    <2>3. CASE k # Len(s)
      <3>1. k + 1 \in 1 .. Len(s) /\ k + 1 \in 0 .. Len(s) /\ (k + 1) - 1 = k
        BY <2>3
      <3>2. f[k + 1] = CommentTurn(s, f[k])
        BY <1>5, <3>1
      <3> QED BY <2>1, <3>1, <3>2
    <2> QED BY <2>2, <2>3
  <1>14. ASSUME NEW c \in V, c.i > Len(s)
         PROVE  c.found = ExtractComments(s)
    BY <1>9, <1>11, <1>14
  <1> HIDE DEF V
  <1>15. Visited(V, s)
    BY <1>12, <1>13, <1>14 DEF Visited, D, first
  <1> QED BY <1>15

-----------------------------------------------------------------------------
(* Lines.                                                                  *)

LineAt(s, i) == 1 + Times("nl", s, 1, i - 1)

\* Numbers of characters.
LEMMA TimesIs ==
  ASSUME NEW char, NEW s, NEW i \in Nat, NEW j \in Int
  PROVE  Times(char, s, i, j) \in Nat /\ IsFiniteSet({k \in i .. j : s[k] = char})
  <1>1. IsFiniteSet(i .. j)
    BY FS_Interval
  <1>2. IsFiniteSet({k \in i .. j : s[k] = char})
    BY <1>1, FS_Subset
  <1> QED BY <1>2, FS_CardinalityType DEF Times

LEMMA TimesNone ==
  ASSUME NEW char, NEW s, NEW i \in Nat, NEW j \in Int, \A k \in i .. j : s[k] # char
  PROVE  Times(char, s, i, j) = 0
  <1>1. {k \in i .. j : s[k] = char} = {}
    OBVIOUS
  <1> QED BY <1>1, FS_EmptySet DEF Times

LEMMA TimesNext ==
  ASSUME NEW char, NEW s, NEW i \in Nat, NEW j \in Nat, i <= j + 1
  PROVE  Times(char, s, i, j + 1) = Times(char, s, i, j) + (IF s[j + 1] = char THEN 1 ELSE 0)
  <1> DEFINE P == {k \in i .. j : s[k] = char}
             Q == {k \in i .. j + 1 : s[k] = char}
  <1>1. IsFiniteSet(P) /\ Cardinality(P) \in Nat
    <2>1. IsFiniteSet(i .. j)
      BY FS_Interval
    <2>2. IsFiniteSet(P)
      BY <2>1, FS_Subset
    <2> QED BY <2>2, FS_CardinalityType
  <1>2. CASE s[j + 1] = char
    <2>1. Q = P \cup {j + 1} /\ j + 1 \notin P
      BY <1>2
    <2>2. Cardinality(Q) = Cardinality(P) + 1
      BY <1>1, <2>1, FS_AddElement
    <2> QED BY <1>2, <2>2 DEF Times
  <1>3. CASE s[j + 1] # char
    <2>1. Q = P
      BY <1>3
    <2> QED BY <1>1, <1>3, <2>1 DEF Times
  <1> QED BY <1>2, <1>3

LEMMA LineFirst ==
  ASSUME NEW s
  PROVE  LineAt(s, 1) = 1
  <1>1. Times("nl", s, 1, 0) = 0
    BY TimesNone
  <1> QED BY <1>1 DEF LineAt

LEMMA LineIs ==
  ASSUME NEW s, NEW i \in Nat \ {0}
  PROVE  LineAt(s, i) \in Nat
  <1>1. 1 \in Nat /\ i - 1 \in Int
    OBVIOUS
  <1>2. Times("nl", s, 1, i - 1) \in Nat
    BY <1>1, TimesIs
  <1> QED BY <1>2 DEF LineAt

LEMMA LineSame ==
  ASSUME NEW s, NEW i \in Nat \ {0}, NEW j \in Nat, i <= j, \A k \in i .. j - 1 : s[k] # "nl"
  PROVE  LineAt(s, j) = LineAt(s, i)
  <1>1. {k \in 1 .. j - 1 : s[k] = "nl"} = {k \in 1 .. i - 1 : s[k] = "nl"}
    <2>1. ASSUME NEW k \in 1 .. j - 1, s[k] = "nl"
          PROVE  k \in 1 .. i - 1
      <3>1. ~ (k \in i .. j - 1)
        BY <2>1
      <3> QED BY <3>1
    <2> QED BY <2>1
  <1> QED BY <1>1 DEF LineAt, Times

LEMMA LineNext ==
  ASSUME NEW s, NEW i \in Nat \ {0}, s[i] = "nl"
  PROVE  LineAt(s, i + 1) = LineAt(s, i) + 1
  <1>1. PICK j \in Nat : i = j + 1
    <2>1. i - 1 \in Nat /\ i = i - 1 + 1
      OBVIOUS
    <2> QED BY <2>1
  <1>2. Times("nl", s, 1, j + 1) = Times("nl", s, 1, j) + 1
    BY <1>1, TimesNext
  <1>3. (i + 1) - 1 = j + 1 /\ i - 1 = j
    BY <1>1
  <1>4. 1 \in Nat /\ j \in Int
    BY <1>1
  <1>5. Times("nl", s, 1, j) \in Nat
    BY <1>4, TimesIs
  <1> QED BY <1>2, <1>3, <1>5 DEF LineAt

-----------------------------------------------------------------------------
(* Both scans on a string: while one has it open the other is in it, and    *)
(* they leave it at the same place.                                        *)

Along(V, s, x, quote, count, found) ==
    /\ x.is = "open" => \E code \in BOOLEAN :
           /\ State(x.i, LineAt(s, x.i), code, In(quote, count), found) \in V
           /\ count = 1 => code = Used
    /\ x.is = "closed" => State(x.i, LineAt(s, x.i), Used, NoString, found) \in V

\* What is in a string that both read alike.
Plain(s, quote, count) ==
    /\ count = 3 => \A k \in 1 .. Len(s) : s[k] # "back"
    /\ quote = "tick" => \A k \in 1 .. Len(s) : s[k] # "lbrace"

LEMMA AlongTurn ==
  ASSUME NEW Chars, NEW s \in Seq(Chars), NEW quote \in Quotes, NEW count \in {1, 3},
         Plain(s, quote, count), NEW start \in Nat \ {0},
         NEW x \in StringStates(s, Chars, quote, start), NEW V, Visited(V, s),
         NEW found, Along(V, s, x, quote, count, found)
  PROVE  Along(V, s, StringTurn(s, quote, count, x), quote, count, found)
  <1> DEFINE i == x.i
             y == StringTurn(s, quote, count, x)
  <1> HIDE DEF y
  <1>1. /\ i \in start .. Len(s) + 1 /\ i \in Nat \ {0} /\ Len(s) \in Nat
        /\ x \in [is : {"open", "closed", "broken"}, i : start .. Len(s) + 1, parts : Seq(Parts(Chars))]
    BY DEF StringStates
  <1> SUFFICES Along(V, s, y, quote, count, found)
    BY DEF y
  <1>2. CASE x.is # "open"
    BY <1>2 DEF StringTurn, y
  <1>3. CASE x.is = "open" /\ (Beyond(s, i) \/ (count = 1 /\ s[i] = "nl"))
    <2>1. y = [x EXCEPT !.is = "broken"]
      BY <1>3 DEF StringTurn, y
    <2>2. y.is = "broken"
      BY <1>1, <2>1
    <2> QED BY <2>2 DEF Along
  <1>4. CASE x.is = "open" /\ ~ (Beyond(s, i) \/ (count = 1 /\ s[i] = "nl"))
    <2>1. i \in 1 .. Len(s) /\ ~ (count = 1 /\ s[i] = "nl")
      BY <1>1, <1>4 DEF Beyond
    <2>2. PICK code \in BOOLEAN :
              /\ State(i, LineAt(s, i), code, In(quote, count), found) \in V
              /\ count = 1 => code = Used
      BY <1>4 DEF Along
    <2> DEFINE line == LineAt(s, i)
               d == CommentTurn(s, State(i, line, code, In(quote, count), found))
    <2>3. d \in V /\ line \in Nat
      BY <1>1, <2>2, LineIs DEF Visited
    <2>4. CASE Ahead(s, i, count, quote)
      <3>1. y = [x EXCEPT !.i = i + count, !.is = "closed"]
        BY <1>4, <2>4 DEF StringTurn, y
      <3>2. y.i = i + count /\ y.is = "closed"
        BY <1>1, <3>1
      <3>3. (code \/ count = 3) = Used
        BY <2>2 DEF Used
      <3>4. d = State(i + count, line, Used, NoString, found)
        BY <2>1, <2>3, <2>4, <3>3, InStringEnd
      <3>5. \A k \in i .. (i + count) - 1 : s[k] # "nl"
        <4>1. quote # "nl" /\ i \in Nat
          BY <1>1 DEF Quotes
        <4>2. ASSUME NEW k \in i .. (i + count) - 1
              PROVE  s[k] = quote
          BY <2>4, <4>1 DEF Ahead
        <4> QED BY <4>1, <4>2
      <3>6. LineAt(s, i + count) = line
        <4>1. i + count \in Nat /\ i <= i + count
          BY <1>1
        <4> QED BY <1>1, <3>5, <4>1, LineSame
      <3> HIDE DEF d, line
      <3> QED BY <2>3, <3>2, <3>4, <3>6 DEF Along
    <2>5. CASE ~Ahead(s, i, count, quote) /\ s[i] = "back"
      <3>1. count = 1
        BY <2>1, <2>5 DEF Plain
      <3>2. y = EscapeTurn(s, quote, count, x)
        BY <1>4, <2>5 DEF StringTurn, y
      <3>3. CASE i = Len(s) \/ s[i + 1] \notin Escapable(quote)
        <4>1. y = [x EXCEPT !.is = "broken"]
          BY <3>1, <3>2, <3>3 DEF EscapeTurn
        <4>2. y.is = "broken"
          BY <1>1, <4>1
        <4> QED BY <4>2 DEF Along
      <3>4. CASE ~ (i = Len(s) \/ s[i + 1] \notin Escapable(quote))
        <4> DEFINE more == AddText(x.parts, IF s[i + 1] \in Escapable(quote) THEN <<s[i + 1]>>
                                            ELSE <<"back", s[i + 1]>>)
        <4>1. y = [x EXCEPT !.i = i + 2, !.parts = more]
          BY <3>1, <3>2, <3>4 DEF EscapeTurn
        <4> HIDE DEF more
        <4>2. y.i = i + 2 /\ y.is = "open"
          BY <1>1, <1>4, <4>1
        <4>3. s[i + 1] # "nl" /\ i < Len(s)
          <5>1. "nl" \notin Escapable(quote)
            BY DEF Escapable, Braces, Quotes
          <5> QED BY <2>1, <3>4, <5>1
        <4>4. d = State(i + 2, line, code, In(quote, 1), found)
          BY <2>1, <2>3, <2>5, <3>1, <4>3, InStringEscape
        <4>5. \A k \in i .. (i + 2) - 1 : s[k] # "nl"
          <5>1. i \in Nat
            BY <1>1
          <5>2. ASSUME NEW k \in i .. (i + 2) - 1
                PROVE  k = i \/ k = i + 1
            BY <5>1
          <5> QED BY <2>5, <4>3, <5>2
        <4>6. LineAt(s, i + 2) = line
          BY <1>1, <4>5, LineSame
        <4> HIDE DEF d, line
        <4> QED BY <2>2, <2>3, <3>1, <4>2, <4>4, <4>6 DEF Along
      <3> QED BY <3>3, <3>4
    <2>6. CASE ~Ahead(s, i, count, quote) /\ s[i] # "back"
      <3>1. ~ (s[i] = "lbrace" /\ quote = "tick")
        BY <2>1 DEF Plain
      <3> DEFINE more == AddText(x.parts, <<s[i]>>)
      <3>2. y = [x EXCEPT !.i = i + 1, !.parts = more]
        BY <1>4, <2>6, <3>1 DEF StringTurn, y
      <3> HIDE DEF more
      <3>3. y.i = i + 1 /\ y.is = "open"
        BY <1>1, <1>4, <3>2
      <3>4. CASE s[i] = "nl"
        <4>1. count = 3
          BY <2>1, <3>4
        <4>2. d = State(i + 1, line + 1, Blank, In(quote, count), found)
          BY <2>1, <2>3, <3>4, <4>1, InStringLineEnd
        <4>3. LineAt(s, i + 1) = line + 1
          BY <1>1, <3>4, LineNext
        <4>4. Blank \in BOOLEAN
          BY InsidesHold
        <4> HIDE DEF d, line
        <4> QED BY <2>3, <3>3, <4>1, <4>2, <4>3, <4>4 DEF Along
      <3>5. CASE s[i] # "nl"
        <4>1. d = State(i + 1, line, code, In(quote, count), found)
          BY <2>1, <2>3, <2>6, <3>5, InStringOther
        <4>2. \A k \in i .. (i + 1) - 1 : s[k] # "nl"
          BY <1>1, <3>5
        <4>3. LineAt(s, i + 1) = line
          BY <1>1, <4>2, LineSame
        <4> HIDE DEF d, line
        <4> QED BY <2>2, <2>3, <3>3, <4>1, <4>3 DEF Along
      <3> QED BY <3>4, <3>5
    <2> QED BY <2>4, <2>5, <2>6
  <1> QED BY <1>2, <1>3, <1>4

\* The string is closed for one as it is for the other.
LEMMA AlongString ==
  ASSUME NEW Chars, NEW s \in Seq(Chars), NEW quote \in Quotes, NEW count \in {1, 3},
         Plain(s, quote, count), NEW start \in 1 .. Len(s) + 1, NEW V, Visited(V, s), NEW found,
         State(start, LineAt(s, start), Used, In(quote, count), found) \in V,
         NEW x, x = ScanString(s, start, quote, count), x.is = "closed"
  PROVE  /\ State(x.i, LineAt(s, x.i), Used, NoString, found) \in V
         /\ x.i \in start .. Len(s) + 1 /\ s[x.i - 1] = quote
  <1>1. PICK f : IsStringRun(f, s, Chars, quote, count, start)
    BY StringRun
  <1>2. /\ Len(s) \in Nat /\ start \in Nat \ {0}
        /\ f \in [0 .. Len(s) -> StringStates(s, Chars, quote, start)] /\ f[0] = OpenString(start)
        /\ \A k \in 1 .. Len(s) : f[k] = StringTurn(s, quote, count, f[k - 1])
        /\ x = f[Len(s)]
    BY <1>1 DEF IsStringRun
  <1> DEFINE P == {k \in Nat : k <= Len(s) => Along(V, s, f[k], quote, count, found)}
  <1>3. 0 \in P
    <2>1. OpenString(start).is = "open" /\ OpenString(start).i = start
      BY DEF OpenString
    <2>2. Used \in BOOLEAN
      BY InsidesHold
    <2> QED BY <1>2, <2>1, <2>2 DEF Along
  <1>4. ASSUME NEW k \in Nat, k \in P
        PROVE  k + 1 \in P
    <2> SUFFICES ASSUME k + 1 <= Len(s)
                 PROVE  Along(V, s, f[k + 1], quote, count, found)
      OBVIOUS
    <2>1. k + 1 \in 1 .. Len(s) /\ (k + 1) - 1 = k /\ k \in 0 .. Len(s) /\ k <= Len(s)
      BY <1>2
    <2>2. /\ f[k] \in StringStates(s, Chars, quote, start) /\ f[k + 1] = StringTurn(s, quote, count, f[k])
          /\ Along(V, s, f[k], quote, count, found)
      BY <1>2, <1>4, <2>1
    <2> QED BY <1>2, <2>2, AlongTurn
  <1> HIDE DEF P
  <1>5. Nat \subseteq P
    BY <1>3, <1>4, SetInduction
  <1>6. Along(V, s, x, quote, count, found)
    BY <1>2, <1>5 DEF P
  <1>7. x \in StringStates(s, Chars, quote, start)
    BY <1>2
  <1> QED BY <1>6, <1>7 DEF Along, StringStates

-----------------------------------------------------------------------------
(* The whole file.                                                         *)

LEMMA ScanStringIs ==
  ASSUME NEW Chars, NEW s \in Seq(Chars), NEW quote, NEW count \in {1, 3},
         NEW start \in 1 .. Len(s) + 1
  PROVE  ScanString(s, start, quote, count) \in StringStates(s, Chars, quote, start)
  <1>1. PICK f : IsStringRun(f, s, Chars, quote, count, start)
    BY StringRun
  <1> QED BY <1>1 DEF IsStringRun

LEMMA StringAtIs ==
  ASSUME NEW Chars, NEW s \in Seq(Chars), NEW i \in 1 .. Len(s), s[i] \in Quotes,
         NEW count, count = IF Ahead(s, i, 3, s[i]) THEN 3 ELSE 1
  PROVE  /\ count \in {1, 3} /\ i + count \in 1 .. Len(s) + 1
         /\ StringAt(s, i).is = ScanString(s, i + count, s[i], count).is
         /\ StringAt(s, i).i = ScanString(s, i + count, s[i], count).i
         /\ StringAt(s, i).i \in i + count .. Len(s) + 1
  <1>1. Len(s) \in Nat /\ count \in {1, 3} /\ i + count \in 1 .. Len(s) + 1
    BY DEF Ahead
  <1> DEFINE x == ScanString(s, i + count, s[i], count)
  <1>2. x \in StringStates(s, Chars, s[i], i + count)
    BY <1>1, ScanStringIs
  <1> HIDE DEF x
  <1>3. /\ x \in [is : {"open", "closed", "broken"}, i : i + count .. Len(s) + 1, parts : Seq(Parts(Chars))]
    BY <1>2 DEF StringStates
  <1>4. StringAt(s, i).is = x.is /\ StringAt(s, i).i = x.i
    <2>1. CASE Ahead(s, i, 3, s[i])
      <3>1. StringAt(s, i) = [x EXCEPT !.parts = IF x.is = "closed" THEN Trimmed(x.parts) ELSE x.parts]
        BY <2>1 DEF StringAt, x
      <3> QED BY <1>3, <3>1
    <2>2. CASE ~Ahead(s, i, 3, s[i])
      BY <2>2 DEF StringAt, x
    <2> QED BY <2>1, <2>2
  <1> QED BY <1>1, <1>3, <1>4 DEF x

\* The strings of a file are the closed ones that start with a quote in it.
StringsOf(s) == {StringAt(s, i).parts : i \in {j \in 1 .. Len(s) : s[j] \in Quotes /\ StringAt(s, j).is = "closed"}}
FileStates(s) ==
    [ok : BOOLEAN, i : 1 .. Len(s) + 1, comments : SUBSET (1 .. Len(s)), strings : SUBSET StringsOf(s)]

\* Every turn goes on by a character at least, unless the file is not read.
LEMMA FileTurnStays ==
  ASSUME NEW Chars, NEW s \in Seq(Chars), NEW x \in FileStates(s)
  PROVE  /\ FileTurn(s, x) \in FileStates(s)
         /\ x.ok /\ x.i <= Len(s) => ~ FileTurn(s, x).ok \/ FileTurn(s, x).i > x.i
         /\ ~ (x.ok /\ x.i <= Len(s)) => FileTurn(s, x) = x
  <1> DEFINE y == FileTurn(s, x)
             R == [ok : BOOLEAN, i : 1 .. Len(s) + 1, comments : SUBSET (1 .. Len(s)),
                   strings : SUBSET StringsOf(s)]
  <1>1. /\ x \in R /\ x.ok \in BOOLEAN /\ x.i \in 1 .. Len(s) + 1 /\ x.comments \in SUBSET (1 .. Len(s))
        /\ x.strings \in SUBSET StringsOf(s) /\ Len(s) \in Nat /\ FileStates(s) = R
    BY DEF FileStates
  <1>2. CASE ~ (x.ok /\ x.i <= Len(s))
    BY <1>1, <1>2 DEF FileTurn, Beyond
  <1>3. CASE x.ok /\ x.i <= Len(s)
    <2> HIDE DEF R
    <2>1. x.i \in 1 .. Len(s) /\ x.i + 1 \in 1 .. Len(s) + 1 /\ x.i + 1 > x.i /\ ~ (~x.ok \/ Beyond(s, x.i))
      BY <1>1, <1>3 DEF Beyond
    <2> SUFFICES y \in R /\ (~y.ok \/ y.i > x.i)
      BY <1>1, <1>3
    <2> HIDE DEF y
    <2>2. CASE s[x.i] = "back"
      <3>1. y = [x EXCEPT !.ok = FALSE]
        BY <2>1, <2>2 DEF FileTurn, y
      <3> QED BY <1>1, <3>1 DEF R
    <2>3. CASE s[x.i] # "back" /\ Ahead(s, x.i, 2, "slash")
      <3> DEFINE next == LineEnd(s, x.i)
      <3>1. y = [x EXCEPT !.i = next, !.comments = x.comments \cup {x.i}]
        BY <2>1, <2>3 DEF FileTurn, y
      <3>2. next \in x.i .. Len(s) + 1 /\ (next > Len(s) \/ s[next] = "nl")
        BY <1>1, LineEndIs
      <3>3. s[x.i] = "slash"
        BY <2>1, <2>3 DEF Ahead
      <3> HIDE DEF next
      <3>4. next # x.i
        BY <2>1, <3>2, <3>3
      <3>5. next \in 1 .. Len(s) + 1 /\ next > x.i /\ x.comments \cup {x.i} \in SUBSET (1 .. Len(s))
        BY <1>1, <2>1, <3>2, <3>4
      <3> QED BY <1>1, <3>1, <3>5 DEF R
    <2>4. CASE s[x.i] # "back" /\ ~Ahead(s, x.i, 2, "slash") /\ s[x.i] \in Quotes
      <3> DEFINE string == StringAt(s, x.i)
                 count == IF Ahead(s, x.i, 3, s[x.i]) THEN 3 ELSE 1
      <3>1. count \in {1, 3} /\ string.i \in x.i + count .. Len(s) + 1
        BY <2>1, <2>4, StringAtIs
      <3>2. string.i \in 1 .. Len(s) + 1 /\ string.i > x.i
        <4> HIDE DEF string, count
        <4> QED BY <2>1, <3>1
      <3>3. CASE string.is = "closed"
        <4>1. y = [x EXCEPT !.i = string.i, !.strings = x.strings \cup {string.parts}]
          BY <2>1, <2>4, <3>3 DEF FileTurn, y
        <4>2. x.strings \cup {string.parts} \in SUBSET StringsOf(s)
          BY <1>1, <2>1, <2>4, <3>3 DEF StringsOf
        <4> HIDE DEF string
        <4> QED BY <1>1, <3>2, <4>1, <4>2 DEF R
      <3>4. CASE string.is # "closed"
        <4>1. y = [x EXCEPT !.ok = FALSE]
          BY <2>1, <2>4, <3>4 DEF FileTurn, y
        <4> QED BY <1>1, <4>1 DEF R
      <3> QED BY <3>3, <3>4
    <2>5. CASE s[x.i] # "back" /\ ~Ahead(s, x.i, 2, "slash") /\ s[x.i] \notin Quotes
      <3>1. y = [x EXCEPT !.i = x.i + 1]
        BY <2>1, <2>5 DEF FileTurn, y
      <3> QED BY <1>1, <2>1, <3>1 DEF R
    <2> QED BY <2>2, <2>3, <2>4, <2>5
  <1> QED BY <1>1, <1>2, <1>3

IsFileRun(f, s) ==
    /\ f \in [0 .. Len(s) -> FileStates(s)]
    /\ f[0] = [ok |-> TRUE, i |-> 1, comments |-> {}, strings |-> {}]
    /\ \A k \in 1 .. Len(s) : f[k] = FileTurn(s, f[k - 1])
    /\ f[Len(s)] = Scan(s)

LEMMA FileRun ==
  ASSUME NEW Chars, NEW s \in Seq(Chars)
  PROVE  \E f : IsFileRun(f, s)
  <1> DEFINE D == FileStates(s)
             first == [ok |-> TRUE, i |-> 1, comments |-> {}, strings |-> {}]
             next == [x \in D |-> FileTurn(s, x)]
             W(f) == f = [n \in 0 .. Len(s) |-> IF n = 0 THEN first ELSE FileTurn(s, f[n - 1])]
             last == (CHOOSE f : W(f))[Len(s)]
  <1>1. Len(s) \in Nat
    OBVIOUS
  <1>2. first \in D
    BY <1>1 DEF FileStates
  <1>3. next \in [D -> D]
    BY FileTurnStays
  <1>4. Scan(s) = last
    BY DEF Scan
  <1>5. PICK f : IsRun(f, D, next, first, Len(s))
    <2> HIDE DEF D, first, next
    <2> QED BY <1>1, <1>2, <1>3, RunExists
  <1>6. /\ \A k \in 1 .. Len(s) : f[k - 1] \in D /\ f[k] = FileTurn(s, f[k - 1])
        /\ f \in [0 .. Len(s) -> D] /\ f[0] = first
    <2>1. \A k \in 1 .. Len(s) : k - 1 \in 0 .. Len(s)
      BY <1>1
    <2> HIDE DEF D, first
    <2> QED BY <1>5, <2>1 DEF IsRun
  <1>7. W(f)
    <2> HIDE DEF D, first
    <2> QED BY <1>1, <1>6
  <1>8. PICK g : W(g) /\ last = g[Len(s)]
    <2> HIDE DEF W
    <2> QED BY <1>7
  <1> HIDE DEF last
  <1>9. Alike(f, g, Len(s))
    <2> HIDE DEF D, first
    <2>1. /\ \A k \in 0 .. Len(s) : f[k] = IF k = 0 THEN first ELSE FileTurn(s, f[k - 1])
          /\ \A k \in 0 .. Len(s) : g[k] = IF k = 0 THEN first ELSE FileTurn(s, g[k - 1])
      BY <1>7, <1>8
    <2> QED BY <1>1, <2>1 DEF Alike
  <1>10. f[Len(s)] = g[Len(s)]
    BY <1>1, <1>9, RunUnique
  <1>11. IsFileRun(f, s)
    BY <1>4, <1>6, <1>8, <1>10 DEF IsFileRun
  <1> HIDE DEF D, first, next, W
  <1> QED BY <1>11

\* Both scans on a file: they are at the same place, on the same line, in code,
\* and have found the same comments; except at the end of a comment both know
\* whether something is before them on the line.
After(s, i) == i > 1 /\ s[i - 1] # "nl"
FoundBy(s, comments) == {CommentAt(s, j) : j \in comments}

Together(V, s, x) ==
    x.ok => \E code \in BOOLEAN :
        /\ State(x.i, LineAt(s, x.i), code, NoString, FoundBy(s, x.comments)) \in V
        /\ x.i <= Len(s) /\ s[x.i] # "nl" => code = After(s, x.i)

LEMMA RangeIs ==
  ASSUME NEW Chars, NEW s \in Seq(Chars), NEW char
  PROVE  char \in Range(s) <=> \E k \in 1 .. Len(s) : s[k] = char
  BY DEF Range

LEMMA TogetherTurn ==
  ASSUME NEW Chars, NEW s \in Seq(Chars), Agreeable(s), NEW V, Visited(V, s),
         NEW x \in FileStates(s), Together(V, s, x)
  PROVE  Together(V, s, FileTurn(s, x))
  <1> DEFINE y == FileTurn(s, x)
             i == x.i
             found == FoundBy(s, x.comments)
             line == LineAt(s, i)
  <1>1. /\ x \in [ok : BOOLEAN, i : 1 .. Len(s) + 1, comments : SUBSET (1 .. Len(s)),
                  strings : SUBSET StringsOf(s)]
        /\ i \in 1 .. Len(s) + 1 /\ i \in Nat \ {0} /\ Len(s) \in Nat /\ line \in Nat
    BY LineIs DEF FileStates
  <1> HIDE DEF found, line
  <1>2. CASE ~x.ok \/ Beyond(s, i)
    BY <1>2 DEF FileTurn
  <1>3. CASE ~ (~x.ok \/ Beyond(s, i))
    <2>1. i \in 1 .. Len(s) /\ x.ok
      BY <1>1, <1>3 DEF Beyond
    <2>2. PICK code \in BOOLEAN :
              /\ State(i, line, code, NoString, found) \in V
              /\ s[i] # "nl" => code = After(s, i)
      BY <2>1 DEF Together, found, line
    <2> DEFINE d == CommentTurn(s, State(i, line, code, NoString, found))
    <2>3. d \in V
      BY <2>2 DEF Visited
    <2> SUFFICES Together(V, s, y)
      OBVIOUS
    <2> HIDE DEF y
    <2>4. CASE s[i] = "back"
      <3>1. y = [x EXCEPT !.ok = FALSE]
        BY <1>3, <2>4 DEF FileTurn, y
      <3>2. ~ y.ok
        BY <1>1, <3>1
      <3> QED BY <3>2 DEF Together
    <2>5. CASE s[i] # "back" /\ Ahead(s, i, 2, "slash")
      <3> DEFINE next == LineEnd(s, i)
      <3>1. y = [x EXCEPT !.i = next, !.comments = x.comments \cup {i}]
        BY <1>3, <2>5 DEF FileTurn, y
      <3>2. /\ next \in i .. Len(s) + 1 /\ (next > Len(s) \/ s[next] = "nl")
            /\ \A j \in i .. next - 1 : s[j] # "nl"
        BY <1>1, LineEndIs
      <3>3. s[i] # "nl" /\ code = After(s, i)
        BY <2>1, <2>2, <2>5 DEF Ahead
      <3>4. d = State(next, line, code, NoString, found \cup {[at |-> i, line |-> line, trailing |-> code]})
        BY <1>1, <2>1, <2>5, InCodeComment
      <3>5. found \cup {[at |-> i, line |-> line, trailing |-> code]} = FoundBy(s, x.comments \cup {i})
        <4>1. CommentAt(s, i) = [at |-> i, line |-> line, trailing |-> code]
          BY <3>3 DEF CommentAt, LineAt, Times, After, line
        <4> QED BY <4>1 DEF FoundBy, found
      <3> HIDE DEF next
      <3>6. y.i = next /\ y.comments = x.comments \cup {i}
        BY <1>1, <3>1
      <3>7. LineAt(s, next) = line
        <4>1. next \in Nat /\ i <= next /\ \A j \in i .. next - 1 : s[j] # "nl"
          BY <1>1, <3>2
        <4> QED BY <1>1, <4>1, LineSame DEF line
      <3>8. ~ (next <= Len(s) /\ s[next] # "nl")
        BY <1>1, <3>2
      <3>9. State(y.i, LineAt(s, y.i), code, NoString, FoundBy(s, y.comments)) \in V
        BY <2>3, <3>4, <3>5, <3>6, <3>7
      <3> QED BY <3>6, <3>8, <3>9 DEF Together
    <2>6. CASE s[i] # "back" /\ ~Ahead(s, i, 2, "slash") /\ s[i] \in Quotes
      <3> DEFINE string == StringAt(s, i)
                 count == IF Ahead(s, i, 3, s[i]) THEN 3 ELSE 1
                 z == ScanString(s, i + count, s[i], count)
      <3>1. /\ count \in {1, 3} /\ i + count \in 1 .. Len(s) + 1
            /\ string.is = z.is /\ string.i = z.i
        BY <2>1, <2>6, StringAtIs
      <3>2. CASE string.is # "closed"
        <4>1. y = [x EXCEPT !.ok = FALSE]
          BY <1>3, <2>6, <3>2 DEF FileTurn, y
        <4>2. ~ y.ok
          BY <1>1, <4>1
        <4> QED BY <4>2 DEF Together
      <3>3. CASE string.is = "closed"
        <4>1. y = [x EXCEPT !.i = string.i, !.strings = x.strings \cup {string.parts}]
          BY <1>3, <2>6, <3>3 DEF FileTurn, y
        <4>2. y.i = z.i /\ y.comments = x.comments
          <5> HIDE DEF string, z
          <5> QED BY <1>1, <3>1, <4>1
        <4>3. d = State(i + count, line, Used, In(s[i], count), found)
          BY <1>1, <2>1, <2>6, InCodeQuote
        <4>4. LineAt(s, i + count) = line
          <5>1. i + count \in Nat /\ i <= i + count
            BY <1>1, <3>1
          <5>2. \A k \in i .. (i + count) - 1 : s[k] # "nl"
            <6>1. ASSUME NEW k \in i .. (i + count) - 1
                  PROVE  s[k] = s[i]
              BY <1>1 DEF Ahead
            <6> QED BY <2>6, <6>1 DEF Quotes
          <5> QED BY <1>1, <5>1, <5>2, LineSame DEF line
        <4>5. Plain(s, s[i], count)
          <5>1. s[i] = "tick" => "tick" \in Range(s)
            BY <2>1 DEF Range
          <5>2. "lbrace" \in Range(s) <=> \E k \in 1 .. Len(s) : s[k] = "lbrace"
            BY RangeIs
          <5>3. "back" \in Range(s) <=> \E k \in 1 .. Len(s) : s[k] = "back"
            BY RangeIs
          <5>4. i \in DOMAIN s
            BY <2>1
          <5>5. count = 3 => Ahead(s, i, 3, s[i])
            OBVIOUS
          <5>6. count = 3 => "back" \notin Range(s)
            BY <2>6, <5>4, <5>5 DEF Agreeable
          <5>7. s[i] = "tick" => "lbrace" \notin Range(s)
            BY <2>1, <5>1 DEF Agreeable
          <5> QED BY <5>2, <5>3, <5>6, <5>7 DEF Plain
        <4>6. /\ State(z.i, LineAt(s, z.i), Used, NoString, found) \in V
              /\ z.i \in i + count .. Len(s) + 1 /\ s[z.i - 1] = s[i]
          <5>1. State(i + count, LineAt(s, i + count), Used, In(s[i], count), found) \in V
            BY <2>3, <4>3, <4>4
          <5>2. z.is = "closed"
            BY <3>1, <3>3
          <5> HIDE DEF count
          <5> QED BY <2>6, <3>1, <4>5, <5>1, <5>2, AlongString
        <4>7. After(s, z.i) /\ Used \in BOOLEAN /\ Used
          <5> HIDE DEF z, count
          <5>1. z.i > 1 /\ s[z.i - 1] # "nl"
            BY <1>1, <2>6, <3>1, <4>6 DEF Quotes
          <5> QED BY <5>1 DEF After, Used
        <4> HIDE DEF z
        <4>8. State(y.i, LineAt(s, y.i), Used, NoString, FoundBy(s, y.comments)) \in V
          BY <4>2, <4>6 DEF found
        <4>9. Used = After(s, y.i)
          BY <4>2, <4>7 DEF After, Used
        <4> QED BY <4>7, <4>8, <4>9 DEF Together
      <3> QED BY <3>2, <3>3
    <2>7. CASE s[i] # "back" /\ ~Ahead(s, i, 2, "slash") /\ s[i] \notin Quotes
      <3>1. y = [x EXCEPT !.i = i + 1]
        BY <1>3, <2>7 DEF FileTurn, y
      <3>2. y.i = i + 1 /\ y.comments = x.comments
        BY <1>1, <3>1
      <3>3. CASE s[i] = "nl"
        <4>1. d = State(i + 1, line + 1, Blank, NoString, found)
          BY <1>1, <2>1, <3>3, InCodeLineEnd
        <4>2. LineAt(s, i + 1) = line + 1
          BY <1>1, <3>3, LineNext DEF line
        <4>3. State(y.i, LineAt(s, y.i), Blank, NoString, FoundBy(s, y.comments)) \in V
          BY <2>3, <3>2, <4>1, <4>2 DEF found
        <4>4. Blank = After(s, y.i) /\ Blank \in BOOLEAN
          <5>1. (i + 1) - 1 = i
            BY <1>1
          <5> QED BY <3>2, <3>3, <5>1 DEF After, Blank
        <4> QED BY <4>3, <4>4 DEF Together
      <3>4. CASE s[i] # "nl"
        <4>1. d = State(i + 1, line, Used, NoString, found)
          BY <1>1, <2>1, <2>7, <3>4, InCodeOther
        <4>2. LineAt(s, i + 1) = line
          <5>1. \A k \in i .. (i + 1) - 1 : s[k] # "nl"
            BY <1>1, <3>4
          <5>2. i + 1 \in Nat /\ i <= i + 1
            BY <1>1
          <5> QED BY <1>1, <5>1, <5>2, LineSame DEF line
        <4>3. State(y.i, LineAt(s, y.i), Used, NoString, FoundBy(s, y.comments)) \in V
          BY <2>3, <3>2, <4>1, <4>2 DEF found
        <4>4. Used = After(s, y.i) /\ Used \in BOOLEAN
          <5>1. (i + 1) - 1 = i /\ i + 1 > 1
            BY <1>1
          <5> QED BY <3>2, <3>4, <5>1 DEF After, Used
        <4> QED BY <4>3, <4>4 DEF Together
      <3> QED BY <3>3, <3>4
    <2> QED BY <2>4, <2>5, <2>6, <2>7
  <1> QED BY <1>2, <1>3

(* In every file that the lexer reads and that is one of those the property is
   about, the comments the formatter finds are those the lexer skips.      *)
THEOREM CommentsFound ==
  ASSUME NEW Chars, NEW s \in Seq(Chars), Scan(s).ok, Agreeable(s)
  PROVE  ExtractComments(s) = {CommentAt(s, i) : i \in Scan(s).comments}
  <1>1. PICK V : Visited(V, s)
    BY CommentRun
  <1>2. PICK f : IsFileRun(f, s)
    BY FileRun
  <1>3. /\ Len(s) \in Nat /\ f \in [0 .. Len(s) -> FileStates(s)]
        /\ f[0] = [ok |-> TRUE, i |-> 1, comments |-> {}, strings |-> {}]
        /\ \A k \in 1 .. Len(s) : f[k] = FileTurn(s, f[k - 1])
        /\ f[Len(s)] = Scan(s)
    BY <1>2 DEF IsFileRun
  <1> DEFINE P == {k \in Nat : k <= Len(s) => /\ Together(V, s, f[k])
                                              /\ f[k].ok => f[k].i > k \/ f[k].i > Len(s)}
  <1>4. 0 \in P
    <2>1. f[0].ok /\ f[0].i = 1 /\ f[0].comments = {}
      BY <1>3
    <2>2. FoundBy(s, {}) = {}
      BY DEF FoundBy
    <2>3. State(1, LineAt(s, 1), Blank, NoString, FoundBy(s, {})) \in V
      BY <1>1, <2>2, LineFirst DEF Visited
    <2>4. Blank = After(s, 1) /\ Blank \in BOOLEAN
      BY DEF Blank, After
    <2>5. /\ State(f[0].i, LineAt(s, f[0].i), Blank, NoString, FoundBy(s, f[0].comments)) \in V
          /\ Blank = After(s, f[0].i) /\ f[0].i > 0
      BY <2>1, <2>3, <2>4
    <2>6. Together(V, s, f[0])
      BY <2>4, <2>5 DEF Together
    <2> QED BY <2>5, <2>6
  <1>5. ASSUME NEW k \in Nat, k \in P
        PROVE  k + 1 \in P
    <2> SUFFICES ASSUME k + 1 <= Len(s)
                 PROVE  /\ Together(V, s, f[k + 1])
                        /\ f[k + 1].ok => f[k + 1].i > k + 1 \/ f[k + 1].i > Len(s)
      OBVIOUS
    <2>1. k + 1 \in 1 .. Len(s) /\ (k + 1) - 1 = k /\ k \in 0 .. Len(s) /\ k <= Len(s) /\ k + 1 \in 0 .. Len(s)
      BY <1>3
    <2>2. /\ f[k] \in FileStates(s) /\ f[k + 1] \in FileStates(s) /\ f[k + 1] = FileTurn(s, f[k])
          /\ Together(V, s, f[k]) /\ (f[k].ok => f[k].i > k \/ f[k].i > Len(s))
      BY <1>3, <1>5, <2>1
    <2>3. Together(V, s, f[k + 1])
      BY <1>1, <2>2, TogetherTurn
    <2>4. /\ f[k].ok /\ f[k].i <= Len(s) => ~ f[k + 1].ok \/ f[k + 1].i > f[k].i
          /\ ~ (f[k].ok /\ f[k].i <= Len(s)) => f[k + 1] = f[k]
      BY <2>2, FileTurnStays
    <2>5. f[k].i \in Nat /\ f[k + 1].i \in Nat
      BY <1>3, <2>2 DEF FileStates
    <2> QED BY <1>3, <2>2, <2>3, <2>4, <2>5
  <1> HIDE DEF P
  <1>6. Nat \subseteq P
    BY <1>4, <1>5, SetInduction
  <1> DEFINE x == Scan(s)
  <1>7. Together(V, s, x) /\ x.i > Len(s)
    BY <1>3, <1>6 DEF P
  <1>8. PICK code \in BOOLEAN : State(x.i, LineAt(s, x.i), code, NoString, FoundBy(s, x.comments)) \in V
    BY <1>7 DEF Together
  <1> DEFINE c == State(x.i, LineAt(s, x.i), code, NoString, FoundBy(s, x.comments))
  <1>9. c.i = x.i /\ c.found = FoundBy(s, x.comments)
    BY StateIs
  <1> HIDE DEF c
  <1>10. c.found = ExtractComments(s)
    BY <1>1, <1>7, <1>8, <1>9 DEF Visited, c
  <1> QED BY <1>9, <1>10 DEF FoundBy

\* What is typed is a text.
LEMMA IsText == Spec => [](\E S : text \in Seq(S))
  <1>1. Init => \E S : text \in Seq(S)
    <2> SUFFICES ASSUME Init PROVE \E S : text \in Seq(S)
      OBVIOUS
    <2>1. text \in Seq({})
      BY DEF Init
    <2> QED BY <2>1
  <1>2. (\E S : text \in Seq(S)) /\ [Next]_text => (\E S : text \in Seq(S))'
    <2> SUFFICES ASSUME NEW S, text \in Seq(S), [Next]_text
                 PROVE  \E T : text' \in Seq(T)
      OBVIOUS
    <2>1. CASE UNCHANGED text
      BY <2>1
    <2>2. CASE Next
      <3>1. PICK char \in Keys(text) : text' = Append(text, char)
        BY <2>2 DEF Next, Type
      <3>2. text \in Seq(S \cup {char})
        OBVIOUS
      <3>3. text' \in Seq(S \cup {char})
        BY <3>1, <3>2
      <3> QED BY <3>3
    <2> QED BY <2>1, <2>2
  <1> QED BY <1>1, <1>2, PTL DEF Spec

(* CommentsAgree holds of every text that can be typed, whatever the keys. *)
THEOREM CommentsAgreeHolds == Spec => []CommentsAgree
  <1>1. (\E S : text \in Seq(S)) => CommentsAgree
    BY CommentsFound DEF CommentsAgree
  <1> QED BY <1>1, IsText, PTL

-----------------------------------------------------------------------------
(* Sequences end to end.                                                   *)

LEMMA ConcatIs ==
  ASSUME NEW S, NEW t \in Seq(S), NEW u \in Seq(S)
  PROVE  /\ t \o u \in Seq(S) /\ Len(t \o u) = Len(t) + Len(u) /\ Len(t) \in Nat /\ Len(u) \in Nat
         /\ \A k \in 1 .. Len(t) : (t \o u)[k] = t[k]
         /\ \A k \in 1 .. Len(u) : (t \o u)[Len(t) + k] = u[k]
  <1> DEFINE v == t \o u
  <1>1. /\ v \in Seq(S) /\ Len(v) = Len(t) + Len(u) /\ Len(t) \in Nat /\ Len(u) \in Nat
        /\ \A k \in 1 .. Len(t) + Len(u) : v[k] = IF k <= Len(t) THEN t[k] ELSE u[k - Len(t)]
    BY ConcatProperties
  <1> HIDE DEF v
  <1>2. ASSUME NEW k \in 1 .. Len(t)
        PROVE  v[k] = t[k]
    BY <1>1
  <1>3. ASSUME NEW k \in 1 .. Len(u)
        PROVE  v[Len(t) + k] = u[k]
    <2>1. Len(t) + k \in 1 .. Len(t) + Len(u) /\ ~ (Len(t) + k <= Len(t)) /\ (Len(t) + k) - Len(t) = k
      BY <1>1
    <2> QED BY <1>1, <2>1
  <1> QED BY <1>1, <1>2, <1>3 DEF v

\* The first m of the sequences, end to end.
AreJoined(t, seqs, S, m) ==
    /\ t \in [0 .. m -> Seq(S)] /\ t[0] = <<>>
    /\ \A k \in 1 .. m : t[k] = t[k - 1] \o seqs[k]

LEMMA JoinsExist ==
  ASSUME NEW S, NEW seqs \in Seq(Seq(S))
  PROVE  \E t : AreJoined(t, seqs, S, Len(seqs))
  <1> DEFINE P == {m \in Nat : m <= Len(seqs) => \E t : AreJoined(t, seqs, S, m)}
  <1>1. Len(seqs) \in Nat /\ \A k \in 1 .. Len(seqs) : seqs[k] \in Seq(S)
    OBVIOUS
  <1>2. 0 \in P
    <2>1. AreJoined([k \in 0 .. 0 |-> <<>>], seqs, S, 0)
      BY DEF AreJoined
    <2> QED BY <2>1
  <1>3. ASSUME NEW m \in Nat, m \in P
        PROVE  m + 1 \in P
    <2> SUFFICES ASSUME m + 1 <= Len(seqs)
                 PROVE  \E t : AreJoined(t, seqs, S, m + 1)
      OBVIOUS
    <2>1. m <= Len(seqs) /\ m + 1 \in 1 .. Len(seqs)
      BY <1>1
    <2>2. PICK t : AreJoined(t, seqs, S, m)
      BY <1>3, <2>1
    <2>3. /\ t \in [0 .. m -> Seq(S)] /\ t[0] = <<>> /\ \A k \in 1 .. m : t[k] = t[k - 1] \o seqs[k]
      BY <2>2 DEF AreJoined
    <2>4. t[m] \o seqs[m + 1] \in Seq(S)
      BY <1>1, <2>1, <2>3, ConcatProperties
    <2> DEFINE more == t[m] \o seqs[m + 1]
               u == [k \in 0 .. m + 1 |-> IF k = m + 1 THEN more ELSE t[k]]
    <2>5. u \in [0 .. m + 1 -> Seq(S)] /\ u[0] = <<>>
      <3> HIDE DEF more
      <3> QED BY <2>3, <2>4 DEF more
    <2>6. ASSUME NEW k \in 1 .. m + 1
          PROVE  u[k] = u[k - 1] \o seqs[k]
      <3> HIDE DEF more
      <3>1. CASE k = m + 1
        <4>1. u[k] = more /\ u[k - 1] = t[m] /\ seqs[k] = seqs[m + 1]
          BY <3>1
        <4> HIDE DEF u
        <4> QED BY <4>1 DEF more
      <3>2. CASE k # m + 1
        <4>1. u[k] = t[k] /\ u[k - 1] = t[k - 1] /\ k \in 1 .. m
          BY <3>2
        <4> HIDE DEF u
        <4> QED BY <2>3, <4>1
      <3> QED BY <3>1, <3>2
    <2>7. AreJoined(u, seqs, S, m + 1)
      <3> HIDE DEF u
      <3> QED BY <2>5, <2>6 DEF AreJoined
    <2> HIDE DEF u
    <2> QED BY <2>7
  <1> HIDE DEF P
  <1>4. Nat \subseteq P
    BY <1>2, <1>3, SetInduction
  <1> QED BY <1>1, <1>4 DEF P

LEMMA FlattenJoins ==
  ASSUME NEW S, NEW seqs \in Seq(Seq(S)), NEW t, AreJoined(t, seqs, S, Len(seqs))
  PROVE  FlattenSeq(seqs) = t[Len(seqs)]
  <1>1. /\ Len(seqs) \in Nat /\ \A k \in 1 .. Len(seqs) : seqs[k] \in Seq(S)
        /\ t \in [0 .. Len(seqs) -> Seq(S)] /\ t[0] = <<>>
        /\ \A k \in 1 .. Len(seqs) : t[k] = t[k - 1] \o seqs[k]
    <2>1. Len(seqs) \in Nat /\ \A k \in 1 .. Len(seqs) : seqs[k] \in Seq(S)
      OBVIOUS
    <2> QED BY <2>1 DEF AreJoined
  <1>2. CASE Len(seqs) = 0
    <2>1. seqs = <<>>
      BY <1>2
    <2> QED BY <1>1, <1>2, <2>1 DEF FlattenSeq
  <1>3. CASE Len(seqs) # 0
    <2> DEFINE W(f) == f = [k \in 1 .. Len(seqs) |-> IF k = 1 THEN seqs[k] ELSE f[k - 1] \o seqs[k]]
               f1 == [k \in 1 .. Len(seqs) |-> t[k]]
    <2>1. FlattenSeq(seqs) = (CHOOSE f : W(f))[Len(seqs)]
      BY <1>3 DEF FlattenSeq
    <2>2. W(f1)
      <3>1. ASSUME NEW k \in 1 .. Len(seqs)
            PROVE  f1[k] = IF k = 1 THEN seqs[k] ELSE f1[k - 1] \o seqs[k]
        <4>1. CASE k = 1
          <5>1. t[1] = <<>> \o seqs[1] /\ seqs[1] \in Seq(S)
            BY <1>1, <1>3
          <5>2. t[1] = seqs[1]
            BY <5>1, ConcatEmptySeq
          <5> QED BY <4>1, <5>2
        <4>2. CASE k # 1
          <5>1. k - 1 \in 1 .. Len(seqs)
            BY <1>1, <4>2
          <5> QED BY <1>1, <4>2, <5>1
        <4> QED BY <4>1, <4>2
      <3> QED BY <3>1
    <2>3. PICK g : W(g) /\ FlattenSeq(seqs) = g[Len(seqs)]
      <3> HIDE DEF W, f1
      <3> QED BY <2>1, <2>2
    <2> DEFINE P == {k \in Nat : k + 1 <= Len(seqs) => g[k + 1] = f1[k + 1]}
    <2>4. /\ \A k \in 1 .. Len(seqs) : f1[k] = IF k = 1 THEN seqs[k] ELSE f1[k - 1] \o seqs[k]
          /\ \A k \in 1 .. Len(seqs) : g[k] = IF k = 1 THEN seqs[k] ELSE g[k - 1] \o seqs[k]
          /\ \A k \in 1 .. Len(seqs) : f1[k] = t[k]
      <3> HIDE DEF f1
      <3>1. /\ \A k \in 1 .. Len(seqs) : f1[k] = IF k = 1 THEN seqs[k] ELSE f1[k - 1] \o seqs[k]
            /\ \A k \in 1 .. Len(seqs) : g[k] = IF k = 1 THEN seqs[k] ELSE g[k - 1] \o seqs[k]
        BY <2>2, <2>3
      <3> QED BY <3>1 DEF f1
    <2> HIDE DEF W, f1
    <2>5. 0 \in P
      BY <1>1, <1>3, <2>4
    <2>6. ASSUME NEW k \in Nat, k \in P
          PROVE  k + 1 \in P
      <3> SUFFICES ASSUME k + 1 + 1 <= Len(seqs)
                   PROVE  g[k + 1 + 1] = f1[k + 1 + 1]
        OBVIOUS
      <3>1. /\ k + 1 + 1 \in 1 .. Len(seqs) /\ k + 1 + 1 # 1 /\ (k + 1 + 1) - 1 = k + 1 /\ k + 1 <= Len(seqs)
        BY <1>1
      <3>2. g[k + 1] = f1[k + 1]
        BY <2>6, <3>1
      <3> QED BY <2>4, <3>1, <3>2
    <2> HIDE DEF P
    <2>7. Nat \subseteq P
      BY <2>5, <2>6, SetInduction
    <2>8. Len(seqs) - 1 \in Nat /\ (Len(seqs) - 1) + 1 = Len(seqs) /\ Len(seqs) \in 1 .. Len(seqs)
      BY <1>1, <1>3
    <2>9. Len(seqs) - 1 \in P
      BY <2>7, <2>8
    <2> QED BY <2>3, <2>4, <2>8, <2>9 DEF P
  <1> QED BY <1>2, <1>3

\* A part of a sequence, after its first a members.
PartAt(flat, a, part) ==
    /\ a + Len(part) <= Len(flat)
    /\ \A j \in 1 .. Len(part) : flat[a + j] = part[j]

LEMMA PartStays ==
  ASSUME NEW S, NEW flat \in Seq(S), NEW more \in Seq(S), NEW part \in Seq(S), NEW a \in Nat,
         PartAt(flat, a, part)
  PROVE  PartAt(flat \o more, a, part)
  <1> DEFINE all == flat \o more
  <1>1. /\ Len(all) = Len(flat) + Len(more) /\ Len(flat) \in Nat /\ Len(more) \in Nat
        /\ \A k \in 1 .. Len(flat) : all[k] = flat[k]
    BY ConcatIs
  <1> HIDE DEF all
  <1>2. Len(part) \in Nat /\ a + Len(part) <= Len(flat)
    BY DEF PartAt
  <1>3. ASSUME NEW j \in 1 .. Len(part)
        PROVE  all[a + j] = part[j]
    <2>1. a + j \in 1 .. Len(flat)
      BY <1>1, <1>2
    <2>2. flat[a + j] = part[j]
      BY DEF PartAt
    <2> QED BY <1>1, <2>1, <2>2
  <1>4. a + Len(part) <= Len(all)
    BY <1>1, <1>2
  <1>5. PartAt(all, a, part)
    BY <1>3, <1>4 DEF PartAt
  <1> QED BY <1>5 DEF all

LEMMA PartNew ==
  ASSUME NEW S, NEW flat \in Seq(S), NEW part \in Seq(S)
  PROVE  PartAt(flat \o part, Len(flat), part)
  <1> DEFINE all == flat \o part
  <1>1. /\ Len(all) = Len(flat) + Len(part) /\ Len(flat) \in Nat /\ Len(part) \in Nat
        /\ \A k \in 1 .. Len(part) : all[Len(flat) + k] = part[k]
    BY ConcatIs
  <1> HIDE DEF all
  <1>2. PartAt(all, Len(flat), part)
    BY <1>1 DEF PartAt
  <1> QED BY <1>2 DEF all

\* Where each of the sequences ends when they are end to end.
AreEnds(ends, seqs, flat) ==
    /\ ends \in [0 .. Len(seqs) -> Nat] /\ ends[0] = 0 /\ ends[Len(seqs)] = Len(flat)
    /\ \A k \in 1 .. Len(seqs) :
           ends[k] = ends[k - 1] + Len(seqs[k]) /\ PartAt(flat, ends[k - 1], seqs[k])

LEMMA FlattenIs ==
  ASSUME NEW S, NEW seqs \in Seq(Seq(S))
  PROVE  FlattenSeq(seqs) \in Seq(S) /\ \E ends : AreEnds(ends, seqs, FlattenSeq(seqs))
  <1>1. PICK t : AreJoined(t, seqs, S, Len(seqs))
    BY JoinsExist
  <1>2. /\ Len(seqs) \in Nat /\ \A k \in 1 .. Len(seqs) : seqs[k] \in Seq(S)
    OBVIOUS
  <1>3. /\ t \in [0 .. Len(seqs) -> Seq(S)] /\ t[0] = <<>>
        /\ \A k \in 1 .. Len(seqs) : t[k] = t[k - 1] \o seqs[k]
        /\ FlattenSeq(seqs) = t[Len(seqs)]
    BY <1>1, FlattenJoins DEF AreJoined
  <1>4. ASSUME NEW k \in 1 .. Len(seqs)
        PROVE  /\ k - 1 \in 0 .. Len(seqs) /\ k \in 0 .. Len(seqs)
               /\ t[k - 1] \in Seq(S) /\ t[k] \in Seq(S) /\ seqs[k] \in Seq(S)
               /\ t[k] = t[k - 1] \o seqs[k]
    BY <1>2, <1>3
  <1> DEFINE P == {m \in Nat : m <= Len(seqs) => \A k \in 1 .. m : PartAt(t[m], Len(t[k - 1]), seqs[k])}
  <1>5. 0 \in P
    BY <1>2
  <1>6. ASSUME NEW m \in Nat, m \in P
        PROVE  m + 1 \in P
    <2> SUFFICES ASSUME m + 1 <= Len(seqs), NEW k \in 1 .. m + 1
                 PROVE  PartAt(t[m + 1], Len(t[k - 1]), seqs[k])
      OBVIOUS
    <2>1. m + 1 \in 1 .. Len(seqs) /\ (m + 1) - 1 = m /\ m <= Len(seqs) /\ k \in 1 .. Len(seqs)
      BY <1>2
    <2>2. t[(m + 1) - 1] \in Seq(S) /\ seqs[m + 1] \in Seq(S) /\ t[m + 1] = t[(m + 1) - 1] \o seqs[m + 1]
      BY <1>4, <2>1
    <2>3. t[m] \in Seq(S) /\ t[m + 1] = t[m] \o seqs[m + 1]
      BY <2>1, <2>2
    <2>4. CASE k = m + 1
      <3>1. PartAt(t[m] \o seqs[m + 1], Len(t[m]), seqs[m + 1])
        BY <2>2, <2>3, PartNew
      <3> QED BY <2>1, <2>3, <2>4, <3>1
    <2>5. CASE k # m + 1
      <3>1. k \in 1 .. m
        BY <2>1, <2>5
      <3>2. PartAt(t[m], Len(t[k - 1]), seqs[k])
        BY <1>6, <2>1, <3>1
      <3>3. Len(t[k - 1]) \in Nat /\ seqs[k] \in Seq(S)
        BY <1>4, <2>1
      <3>4. PartAt(t[m] \o seqs[m + 1], Len(t[k - 1]), seqs[k])
        BY <2>2, <2>3, <3>2, <3>3, PartStays
      <3> QED BY <2>3, <3>4
    <2> QED BY <2>4, <2>5
  <1> HIDE DEF P
  <1>7. Nat \subseteq P
    BY <1>5, <1>6, SetInduction
  <1>8. ASSUME NEW k \in 1 .. Len(seqs)
        PROVE  PartAt(t[Len(seqs)], Len(t[k - 1]), seqs[k])
    <2>1. Len(seqs) \in P /\ Len(seqs) <= Len(seqs)
      BY <1>2, <1>7
    <2>2. Len(seqs) <= Len(seqs) => \A j \in 1 .. Len(seqs) : PartAt(t[Len(seqs)], Len(t[j - 1]), seqs[j])
      BY <2>1 DEF P
    <2> QED BY <2>1, <2>2
  <1> DEFINE ends == [k \in 0 .. Len(seqs) |-> Len(t[k])]
  <1>9. ends \in [0 .. Len(seqs) -> Nat] /\ ends[0] = 0 /\ ends[Len(seqs)] = Len(t[Len(seqs)])
    <2>1. \A k \in 0 .. Len(seqs) : Len(t[k]) \in Nat
      BY <1>3
    <2>2. Len(t[0]) = 0
      BY <1>3
    <2> QED BY <1>2, <2>1, <2>2
  <1>10. ASSUME NEW k \in 1 .. Len(seqs)
         PROVE  ends[k] = ends[k - 1] + Len(seqs[k]) /\ ends[k - 1] = Len(t[k - 1])
    <2>1. ends[k] = Len(t[k]) /\ ends[k - 1] = Len(t[k - 1])
      BY <1>4
    <2> DEFINE a == t[k - 1]
               b == seqs[k]
    <2>2. a \in Seq(S) /\ b \in Seq(S) /\ t[k] = a \o b
      BY <1>4
    <2> HIDE DEF a, b
    <2>3. Len(t[k]) = Len(a) + Len(b)
      BY <2>2, ConcatIs
    <2> HIDE DEF ends
    <2> QED BY <2>1, <2>3 DEF a, b
  <1> HIDE DEF ends
  <1>11. AreEnds(ends, seqs, t[Len(seqs)])
    BY <1>8, <1>9, <1>10 DEF AreEnds
  <1>12. t[Len(seqs)] \in Seq(S)
    BY <1>2, <1>3
  <1> QED BY <1>3, <1>11, <1>12

-----------------------------------------------------------------------------
(* The encoded string.                                                     *)

Marks == {"back", "lbrace", "rbrace", "EXPR"}
One(a) == <<a>>
Two(a, b) == <<a, b>>

LEMMA ShortIs ==
  ASSUME NEW S, NEW a \in S, NEW b \in S
  PROVE  /\ One(a) \in Seq(S) /\ Len(One(a)) = 1 /\ One(a)[1] = a
         /\ Two(a, b) \in Seq(S) /\ Len(Two(a, b)) = 2 /\ Two(a, b)[1] = a /\ Two(a, b)[2] = b
  BY DEF One, Two

LEMMA FunctionIsSequence ==
  ASSUME NEW S, NEW n \in Nat, NEW f \in [1 .. n -> S]
  PROVE  f \in Seq(S) /\ Len(f) = n
  OBVIOUS

\* A character of a text, from after i to j.
CharAt(t, i, j, char) ==
    /\ j <= Len(t)
    /\ char \in Braces => j = i + 2 /\ t[i + 1] = "back" /\ t[i + 2] = char
    /\ char \notin Braces => j = i + 1 /\ t[i + 1] = char

\* The characters of a text, from after a, and where each ends.
CharsAt(ends, t, a, chars) ==
    /\ ends \in [0 .. Len(chars) -> Nat] /\ ends[0] = a
    /\ \A m \in 1 .. Len(chars) : CharAt(t, ends[m - 1], ends[m], chars[m])

LEMMA EscapedIs ==
  ASSUME NEW Chars, Marks \subseteq Chars, NEW chars \in Seq(Chars)
  PROVE  /\ Escaped(chars) \in Seq(Chars)
         /\ \E ends : CharsAt(ends, Escaped(chars), 0, chars) /\ ends[Len(chars)] = Len(Escaped(chars))
  <1> DEFINE f == [k \in 1 .. Len(chars) |-> IF chars[k] \in Braces THEN Two("back", chars[k])
                                             ELSE One(chars[k])]
  <1>1. Len(chars) \in Nat /\ DOMAIN chars = 1 .. Len(chars) /\ \A k \in 1 .. Len(chars) : chars[k] \in Chars
    OBVIOUS
  <1>2. Escaped(chars) = FlattenSeq(f)
    <2>1. \A k \in 1 .. Len(chars) : (IF chars[k] \in Braces THEN <<"back", chars[k]>> ELSE <<chars[k]>>)
                                     = (IF chars[k] \in Braces THEN Two("back", chars[k]) ELSE One(chars[k]))
      BY DEF One, Two
    <2> QED BY <1>1, <2>1 DEF Escaped
  <1>3. "back" \in Chars
    BY DEF Marks
  <1>4. ASSUME NEW k \in 1 .. Len(chars)
        PROVE  f[k] \in Seq(Chars)
    <2>1. Two("back", chars[k]) \in Seq(Chars) /\ One(chars[k]) \in Seq(Chars)
      BY <1>1, <1>3, ShortIs
    <2> QED BY <2>1
  <1>5. f \in Seq(Seq(Chars)) /\ Len(f) = Len(chars)
    <2>1. f \in [1 .. Len(chars) -> Seq(Chars)]
      BY <1>4
    <2> HIDE DEF f
    <2> QED BY <1>1, <2>1, FunctionIsSequence
  <1>6. ASSUME NEW k \in 1 .. Len(chars)
        PROVE  /\ chars[k] \in Braces => Len(f[k]) = 2 /\ f[k][1] = "back" /\ f[k][2] = chars[k]
               /\ chars[k] \notin Braces => Len(f[k]) = 1 /\ f[k][1] = chars[k]
    <2>1. CASE chars[k] \in Braces
      <3> DEFINE char == chars[k]
      <3>1. f[k] = Two("back", char) /\ char \in Chars /\ char \in Braces
        BY <1>1, <2>1
      <3> HIDE DEF f, char
      <3>2. /\ Len(Two("back", char)) = 2 /\ Two("back", char)[1] = "back" /\ Two("back", char)[2] = char
        BY DEF Two
      <3>3. Len(f[k]) = 2 /\ f[k][1] = "back" /\ f[k][2] = char
        BY <3>1, <3>2
      <3> QED BY <2>1, <3>3 DEF char
    <2>2. CASE chars[k] \notin Braces
      <3>1. f[k] = One(chars[k])
        BY <2>2
      <3> HIDE DEF f
      <3> QED BY <1>1, <1>3, <2>2, <3>1, ShortIs
    <2> QED BY <2>1, <2>2
  <1> HIDE DEF f
  <1> DEFINE t == FlattenSeq(f)
  <1>7. t \in Seq(Chars) /\ \E ends : AreEnds(ends, f, t)
    BY <1>5, FlattenIs
  <1>8. PICK ends : AreEnds(ends, f, t)
    BY <1>7
  <1> HIDE DEF t
  <1>9. /\ ends \in [0 .. Len(chars) -> Nat] /\ ends[0] = 0 /\ ends[Len(chars)] = Len(t)
        /\ \A k \in 1 .. Len(chars) : ends[k] = ends[k - 1] + Len(f[k]) /\ PartAt(t, ends[k - 1], f[k])
    BY <1>5, <1>8 DEF AreEnds
  <1>10. ASSUME NEW k \in 1 .. Len(chars)
         PROVE  CharAt(t, ends[k - 1], ends[k], chars[k])
    <2> DEFINE i == ends[k - 1]
               p == f[k]
               char == chars[k]
    <2>1. i \in Nat /\ ends[k] = i + Len(p) /\ PartAt(t, i, p)
      <3>1. k - 1 \in 0 .. Len(chars)
        BY <1>1
      <3>2. ends[k - 1] \in Nat
        BY <1>9, <3>1
      <3> QED BY <1>9, <3>2
    <2>2. /\ char \in Braces => Len(p) = 2 /\ p[1] = "back" /\ p[2] = char
          /\ char \notin Braces => Len(p) = 1 /\ p[1] = char
      BY <1>6
    <2> HIDE DEF i, p, char
    <2>3. i + Len(p) <= Len(t) /\ \A j \in 1 .. Len(p) : t[i + j] = p[j]
      BY <2>1 DEF PartAt
    <2>4. CASE char \in Braces
      <3>0. Len(p) = 2 /\ p[1] = "back" /\ p[2] = char
        BY <2>2, <2>4
      <3>1. Len(p) = 2 /\ 1 \in 1 .. Len(p) /\ 2 \in 1 .. Len(p)
        BY ONLY <3>0
      <3>2. t[i + 1] = "back" /\ t[i + 2] = char
        BY <2>3, <3>0, <3>1
      <3>3. CharAt(t, i, ends[k], char)
        BY <2>1, <2>3, <2>4, <3>1, <3>2 DEF CharAt
      <3> QED BY <3>3 DEF i, char
    <2>5. CASE char \notin Braces
      <3>0. Len(p) = 1 /\ p[1] = char
        BY <2>2, <2>5
      <3>1. Len(p) = 1 /\ 1 \in 1 .. Len(p)
        BY ONLY <3>0
      <3>2. t[i + 1] = char
        BY <2>3, <3>0, <3>1
      <3>3. CharAt(t, i, ends[k], char)
        BY <2>1, <2>3, <2>5, <3>1, <3>2 DEF CharAt
      <3> QED BY <3>3 DEF i, char
    <2> QED BY <2>4, <2>5
  <1>11. CharsAt(ends, t, 0, chars)
    BY <1>9, <1>10 DEF CharsAt
  <1> QED BY <1>2, <1>7, <1>9, <1>11 DEF t

LEMMA CharsShift ==
  ASSUME NEW Chars, NEW s \in Seq(Chars), NEW t \in Seq(Chars), NEW a \in Nat, PartAt(s, a, t),
         NEW chars \in Seq(Chars), NEW ends, CharsAt(ends, t, 0, chars)
  PROVE  \E more : CharsAt(more, s, a, chars) /\ more[Len(chars)] = a + ends[Len(chars)]
  <1> DEFINE more == [m \in 0 .. Len(chars) |-> a + ends[m]]
  <1>1. /\ Len(chars) \in Nat /\ Len(s) \in Nat /\ Len(t) \in Nat
        /\ a + Len(t) <= Len(s) /\ \A j \in 1 .. Len(t) : s[a + j] = t[j]
    BY DEF PartAt
  <1>2. /\ ends \in [0 .. Len(chars) -> Nat] /\ ends[0] = 0
        /\ \A m \in 1 .. Len(chars) : CharAt(t, ends[m - 1], ends[m], chars[m])
    BY DEF CharsAt
  <1>3. more \in [0 .. Len(chars) -> Nat] /\ more[0] = a /\ more[Len(chars)] = a + ends[Len(chars)]
    BY <1>1, <1>2
  <1>4. ASSUME NEW m \in 1 .. Len(chars)
        PROVE  CharAt(s, more[m - 1], more[m], chars[m])
    <2> DEFINE i == ends[m - 1]
               j == ends[m]
               char == chars[m]
    <2>1. m - 1 \in 0 .. Len(chars) /\ m \in 0 .. Len(chars)
      BY <1>1
    <2>2. i \in Nat /\ j \in Nat /\ more[m - 1] = a + i /\ more[m] = a + j /\ CharAt(t, i, j, char)
      BY <1>2, <2>1
    <2> HIDE DEF i, j, char, more
    <2>3. CASE char \in Braces
      <3>1. j <= Len(t) /\ j = i + 2 /\ t[i + 1] = "back" /\ t[i + 2] = char
        BY <2>2, <2>3 DEF CharAt
      <3>2. i + 1 \in 1 .. Len(t) /\ i + 2 \in 1 .. Len(t)
        BY <1>1, <2>2, <3>1
      <3>3. s[a + (i + 1)] = "back" /\ s[a + (i + 2)] = char
        BY <1>1, <3>1, <3>2
      <3>4. a + (i + 1) = (a + i) + 1 /\ a + (i + 2) = (a + i) + 2 /\ a + j = (a + i) + 2 /\ a + j <= Len(s)
        BY <1>1, <2>2, <3>1
      <3>5. CharAt(s, a + i, a + j, char)
        BY <2>3, <3>3, <3>4 DEF CharAt
      <3> QED BY <2>2, <3>5 DEF char
    <2>4. CASE char \notin Braces
      <3>1. j <= Len(t) /\ j = i + 1 /\ t[i + 1] = char
        BY <2>2, <2>4 DEF CharAt
      <3>2. i + 1 \in 1 .. Len(t)
        BY <1>1, <2>2, <3>1
      <3>3. s[a + (i + 1)] = char
        BY <1>1, <3>1, <3>2
      <3>4. a + (i + 1) = (a + i) + 1 /\ a + j = (a + i) + 1 /\ a + j <= Len(s)
        BY <1>1, <2>2, <3>1
      <3>5. CharAt(s, a + i, a + j, char)
        BY <2>4, <3>3, <3>4 DEF CharAt
      <3> QED BY <2>2, <3>5 DEF char
    <2> QED BY <2>3, <2>4
  <1> HIDE DEF more
  <1>5. CharsAt(more, s, a, chars)
    BY <1>3, <1>4 DEF CharsAt
  <1> QED BY <1>3, <1>5

\* A part in the encoded string, from after a to b.
TextAt(s, a, b, chars) == \E ends : CharsAt(ends, s, a, chars) /\ ends[Len(chars)] = b
ExprAt(s, a, b, chars) ==
    /\ b = a + Len(chars) + 3 /\ b <= Len(s)
    /\ s[a + 1] = "lbrace" /\ s[a + 2] = "EXPR" /\ s[b] = "rbrace"
    /\ \A j \in 1 .. Len(chars) : s[a + 2 + j] = chars[j]
EncodedAt(s, a, b, part) ==
    /\ part[1] = "lit" => TextAt(s, a, b, part[2])
    /\ part[1] = "expr" => ExprAt(s, a, b, part[2])

\* An expression between its marks.
LEMMA MarkedIs ==
  ASSUME NEW Chars, Marks \subseteq Chars, NEW chars \in Seq(Chars)
  PROVE  /\ <<"lbrace", "EXPR">> \o chars \o <<"rbrace">> \in Seq(Chars)
         /\ ExprAt(<<"lbrace", "EXPR">> \o chars \o <<"rbrace">>, 0,
                   Len(<<"lbrace", "EXPR">> \o chars \o <<"rbrace">>), chars)
  <1> DEFINE front == Two("lbrace", "EXPR")
             back == One("rbrace")
             part == front \o chars
             all == part \o back
  <1>1. /\ front \in Seq(Chars) /\ Len(front) = 2 /\ front[1] = "lbrace" /\ front[2] = "EXPR"
        /\ back \in Seq(Chars) /\ Len(back) = 1 /\ back[1] = "rbrace"
    <2>1. "lbrace" \in Chars /\ "EXPR" \in Chars /\ "rbrace" \in Chars
      BY DEF Marks
    <2> QED BY <2>1 DEF One, Two
  <1>0. front \in Seq(Chars) /\ back \in Seq(Chars)
    BY <1>1
  <1> HIDE DEF front, back
  <1>2. /\ part \in Seq(Chars) /\ Len(part) = 2 + Len(chars) /\ Len(chars) \in Nat
        /\ \A k \in 1 .. Len(front) : part[k] = front[k]
        /\ \A k \in 1 .. Len(chars) : part[Len(front) + k] = chars[k]
    <2>1. /\ part \in Seq(Chars) /\ Len(part) = Len(front) + Len(chars) /\ Len(chars) \in Nat
          /\ \A k \in 1 .. Len(front) : part[k] = front[k]
          /\ \A k \in 1 .. Len(chars) : part[Len(front) + k] = chars[k]
      BY <1>0, ConcatIs
    <2> HIDE DEF part
    <2> QED BY <1>1, <2>1
  <1>3. /\ part[1] = "lbrace" /\ part[2] = "EXPR"
        /\ \A k \in 1 .. Len(chars) : part[2 + k] = chars[k]
    <2> HIDE DEF part
    <2>1. 1 \in 1 .. Len(front) /\ 2 \in 1 .. Len(front)
      BY <1>1
    <2> QED BY <1>1, <1>2, <2>1
  <1> HIDE DEF part
  <1>4. /\ all \in Seq(Chars) /\ Len(all) = Len(part) + 1
        /\ \A k \in 1 .. Len(part) : all[k] = part[k]
        /\ all[Len(part) + 1] = "rbrace"
    <2>1. /\ all \in Seq(Chars) /\ Len(all) = Len(part) + Len(back)
          /\ \A k \in 1 .. Len(part) : all[k] = part[k]
          /\ \A k \in 1 .. Len(back) : all[Len(part) + k] = back[k]
      <3>1. part \in Seq(Chars)
        BY <1>2
      <3> QED BY <1>0, <3>1, ConcatIs
    <2> HIDE DEF all
    <2>2. 1 \in 1 .. Len(back)
      BY <1>1
    <2>3. all[Len(part) + 1] = back[1]
      BY <2>1, <2>2
    <2> QED BY <1>1, <2>1, <2>3
  <1> HIDE DEF all
  <1>5. Len(all) = 0 + Len(chars) + 3 /\ Len(part) + 1 = Len(all)
    BY <1>2, <1>4
  <1>6. all[1] = "lbrace" /\ all[2] = "EXPR" /\ all[Len(all)] = "rbrace"
    <2>1. 1 \in 1 .. Len(part) /\ 2 \in 1 .. Len(part)
      BY <1>2
    <2> QED BY <1>3, <1>4, <1>5, <2>1
  <1>7. ASSUME NEW j \in 1 .. Len(chars)
        PROVE  all[0 + 2 + j] = chars[j]
    <2>1. 2 + j \in 1 .. Len(part) /\ 0 + 2 + j = 2 + j
      BY <1>2
    <2> QED BY <1>3, <1>4, <2>1
  <1>8. ExprAt(all, 0, Len(all), chars)
    BY <1>2, <1>4, <1>5, <1>6, <1>7 DEF ExprAt
  <1>9. all = <<"lbrace", "EXPR">> \o chars \o <<"rbrace">>
    BY DEF all, part, front, back, One, Two
  <1> QED BY <1>4, <1>8, <1>9

LEMMA EncodePartIs ==
  ASSUME NEW Chars, Marks \subseteq Chars, NEW part \in Parts(Chars)
  PROVE  /\ EncodePart(part) \in Seq(Chars) /\ part[2] \in Seq(Chars) /\ part[1] \in {"lit", "expr"}
         /\ EncodedAt(EncodePart(part), 0, Len(EncodePart(part)), part)
  <1>1. part[1] \in {"lit", "expr"} /\ part[2] \in Seq(Chars)
    BY DEF Parts
  <1>2. CASE part[1] = "lit"
    <2>1. EncodePart(part) = Escaped(part[2])
      BY <1>2 DEF EncodePart
    <2>2. /\ Escaped(part[2]) \in Seq(Chars)
          /\ TextAt(Escaped(part[2]), 0, Len(Escaped(part[2])), part[2])
      BY <1>1, EscapedIs DEF TextAt
    <2> QED BY <1>1, <1>2, <2>1, <2>2 DEF EncodedAt
  <1>3. CASE part[1] = "expr"
    <2> DEFINE all == <<"lbrace", "EXPR">> \o part[2] \o <<"rbrace">>
    <2>1. EncodePart(part) = all
      BY <1>3 DEF EncodePart
    <2>2. all \in Seq(Chars) /\ ExprAt(all, 0, Len(all), part[2])
      BY <1>1, MarkedIs
    <2> HIDE DEF all
    <2> QED BY <1>1, <1>3, <2>1, <2>2 DEF EncodedAt
  <1> QED BY <1>1, <1>2, <1>3

\* What a part is in its own encoding, it is in a text that holds that.
LEMMA EncodedShift ==
  ASSUME NEW Chars, NEW s \in Seq(Chars), NEW t \in Seq(Chars), NEW a \in Nat, PartAt(s, a, t),
         NEW part \in Parts(Chars), EncodedAt(t, 0, Len(t), part)
  PROVE  EncodedAt(s, a, a + Len(t), part)
  <1>1. part[1] \in {"lit", "expr"} /\ part[2] \in Seq(Chars) /\ Len(t) \in Nat /\ Len(s) \in Nat
    BY DEF Parts
  <1>2. ASSUME part[1] = "lit"
        PROVE  TextAt(s, a, a + Len(t), part[2])
    <2>1. PICK ends : CharsAt(ends, t, 0, part[2]) /\ ends[Len(part[2])] = Len(t)
      BY <1>2 DEF EncodedAt, TextAt
    <2> DEFINE chars == part[2]
    <2>2. \E more : CharsAt(more, s, a, chars) /\ more[Len(chars)] = a + ends[Len(chars)]
      <3>1. chars \in Seq(Chars) /\ CharsAt(ends, t, 0, chars)
        BY <1>1, <2>1
      <3> HIDE DEF chars
      <3> QED BY <3>1, CharsShift
    <2> QED BY <2>1, <2>2 DEF TextAt
  <1>3. ASSUME part[1] = "expr"
        PROVE  ExprAt(s, a, a + Len(t), part[2])
    <2> DEFINE chars == part[2]
               b == Len(t)
    <2>1. Len(chars) \in Nat
      BY <1>1
    <2>2. /\ b = Len(chars) + 3
          /\ t[1] = "lbrace" /\ t[2] = "EXPR" /\ t[b] = "rbrace"
          /\ \A j \in 1 .. Len(chars) : t[0 + 2 + j] = chars[j]
      <3>1. ExprAt(t, 0, b, chars)
        BY <1>3 DEF EncodedAt
      <3>2. b = 0 + Len(chars) + 3 /\ t[0 + 1] = "lbrace" /\ t[0 + 2] = "EXPR" /\ t[b] = "rbrace"
            /\ \A j \in 1 .. Len(chars) : t[0 + 2 + j] = chars[j]
        BY <3>1 DEF ExprAt
      <3> HIDE DEF b, chars
      <3> QED BY <2>1, <3>2
    <2>3. b \in Nat /\ a + b <= Len(s) /\ \A j \in 1 .. b : s[a + j] = t[j]
      BY <1>1 DEF PartAt
    <2> HIDE DEF chars, b
    <2>4. s[a + 1] = "lbrace" /\ s[a + 2] = "EXPR" /\ s[a + b] = "rbrace"
      <3>1. 1 \in 1 .. b /\ 2 \in 1 .. b /\ b \in 1 .. b
        BY <2>1, <2>2
      <3> QED BY <2>2, <2>3, <3>1
    <2>5. ASSUME NEW j \in 1 .. Len(chars)
          PROVE  s[a + 2 + j] = chars[j]
      <3>1. 0 + 2 + j = 2 + j /\ 2 + j \in 1 .. b /\ a + (2 + j) = a + 2 + j
        BY <2>1, <2>2
      <3>2. t[2 + j] = chars[j]
        BY <2>2, <3>1
      <3>3. s[a + (2 + j)] = t[2 + j]
        BY <2>3, <3>1
      <3> QED BY <3>1, <3>2, <3>3
    <2>6. a + b = a + Len(chars) + 3
      BY <2>1, <2>2
    <2>7. ExprAt(s, a, a + b, chars)
      BY <2>3, <2>4, <2>5, <2>6 DEF ExprAt
    <2> QED BY <2>7 DEF chars, b
  <1> QED BY <1>2, <1>3 DEF EncodedAt

\* Where the parts are in the encoded string.
Laid(ends, s, parts) ==
    /\ ends \in [0 .. Len(parts) -> Nat] /\ ends[0] = 0 /\ ends[Len(parts)] = Len(s)
    /\ \A k \in 1 .. Len(parts) : EncodedAt(s, ends[k - 1], ends[k], parts[k])

LEMMA EncodeIs ==
  ASSUME NEW Chars, Marks \subseteq Chars, NEW parts \in Seq(Parts(Chars))
  PROVE  Encode(parts) \in Seq(Chars) /\ \E ends : Laid(ends, Encode(parts), parts)
  <1> DEFINE f == [k \in 1 .. Len(parts) |-> EncodePart(parts[k])]
  <1>1. /\ Len(parts) \in Nat /\ DOMAIN parts = 1 .. Len(parts)
        /\ \A k \in 1 .. Len(parts) : parts[k] \in Parts(Chars)
    OBVIOUS
  <1>2. Encode(parts) = FlattenSeq(f)
    BY <1>1 DEF Encode
  <1>3. ASSUME NEW k \in 1 .. Len(parts)
        PROVE  f[k] \in Seq(Chars) /\ EncodedAt(f[k], 0, Len(f[k]), parts[k])
    <2>1. f[k] = EncodePart(parts[k])
      OBVIOUS
    <2> HIDE DEF f
    <2> QED BY <1>1, <2>1, EncodePartIs
  <1>4. f \in Seq(Seq(Chars)) /\ Len(f) = Len(parts)
    <2>1. f \in [1 .. Len(parts) -> Seq(Chars)]
      BY <1>3
    <2> HIDE DEF f
    <2> QED BY <1>1, <2>1, FunctionIsSequence
  <1> HIDE DEF f
  <1> DEFINE s == FlattenSeq(f)
  <1>5. s \in Seq(Chars) /\ \E ends : AreEnds(ends, f, s)
    BY <1>4, FlattenIs
  <1>6. PICK ends : AreEnds(ends, f, s)
    BY <1>5
  <1> HIDE DEF s
  <1>7. /\ ends \in [0 .. Len(parts) -> Nat] /\ ends[0] = 0 /\ ends[Len(parts)] = Len(s)
        /\ \A k \in 1 .. Len(parts) : ends[k] = ends[k - 1] + Len(f[k]) /\ PartAt(s, ends[k - 1], f[k])
    BY <1>4, <1>6 DEF AreEnds
  <1>8. ASSUME NEW k \in 1 .. Len(parts)
        PROVE  EncodedAt(s, ends[k - 1], ends[k], parts[k])
    <2> DEFINE a == ends[k - 1]
               t == f[k]
    <2>1. a \in Nat
      <3>1. k - 1 \in 0 .. Len(parts)
        BY <1>1
      <3> QED BY <1>7, <3>1
    <2>2. t \in Seq(Chars) /\ EncodedAt(t, 0, Len(t), parts[k]) /\ PartAt(s, a, t) /\ ends[k] = a + Len(t)
      BY <1>3, <1>7
    <2> HIDE DEF a, t
    <2>3. EncodedAt(s, a, a + Len(t), parts[k])
      BY <1>1, <1>5, <2>1, <2>2, EncodedShift
    <2> QED BY <2>2, <2>3 DEF a
  <1>9. Laid(ends, s, parts)
    BY <1>7, <1>8 DEF Laid
  <1> QED BY <1>2, <1>5, <1>9 DEF s

-----------------------------------------------------------------------------
(* The brace that closes an expression.                                    *)

LEMMA ClosingIs ==
  ASSUME NEW s, Len(s) \in Nat, NEW i \in 1 .. Len(s) + 1
  PROVE  /\ Closing(s, i) \in i .. Len(s) + 1
         /\ Closing(s, i) <= Len(s) =>
                Times("rbrace", s, i, Closing(s, i)) > Times("lbrace", s, i, Closing(s, i))
         /\ \A j \in i .. Closing(s, i) - 1 : ~ (Times("rbrace", s, i, j) > Times("lbrace", s, i, j))
  <1> DEFINE P == {j \in i .. Len(s) + 1 : Beyond(s, j) \/ Times("rbrace", s, i, j) > Times("lbrace", s, i, j)}
  <1>1. P \in SUBSET Nat /\ Len(s) + 1 \in P
    BY DEF Beyond
  <1>2. Closing(s, i) = Min(P)
    BY DEF Closing
  <1>3. Min(P) \in P /\ \A j \in P : Min(P) <= j
    BY <1>1, MinIs
  <1>4. Min(P) \in i .. Len(s) + 1
        /\ (Beyond(s, Min(P)) \/ Times("rbrace", s, i, Min(P)) > Times("lbrace", s, i, Min(P)))
    BY <1>3
  <1>5. ASSUME NEW j \in i .. Min(P) - 1
        PROVE  ~ (Times("rbrace", s, i, j) > Times("lbrace", s, i, j))
    <2>1. j \in i .. Len(s) + 1 /\ j < Min(P)
      BY <1>4
    <2>2. j \notin P
      BY <1>3, <1>4, <2>1
    <2> QED BY <2>1, <2>2
  <1> HIDE DEF P
  <1>6. Min(P) <= Len(s) => ~ Beyond(s, Min(P))
    BY <1>4 DEF Beyond
  <1> QED BY <1>2, <1>4, <1>5, <1>6

\* A character is as often in a part of a text as in the part alone.
TimesAfter(char, s, a, n) == Times(char, s, a + 1, a + n)

LEMMA TimesShift ==
  ASSUME NEW char, NEW s, NEW chars, NEW a \in Nat, Len(chars) \in Nat,
         PartAt(s, a, chars), NEW n \in 0 .. Len(chars)
  PROVE  TimesAfter(char, s, a, n) = Times(char, chars, 1, n)
  <1> DEFINE P == {m \in Nat : m <= Len(chars) => Times(char, s, a + 1, a + m) = Times(char, chars, 1, m)}
  <1>1. 0 \in P
    <2>1. Times(char, s, a + 1, a + 0) = 0
      BY TimesNone
    <2>2. Times(char, chars, 1, 0) = 0
      BY TimesNone
    <2> QED BY <2>1, <2>2
  <1>2. ASSUME NEW m \in Nat, m \in P
        PROVE  m + 1 \in P
    <2> SUFFICES ASSUME m + 1 <= Len(chars)
                 PROVE  Times(char, s, a + 1, a + (m + 1)) = Times(char, chars, 1, m + 1)
      OBVIOUS
    <2>1. Times(char, chars, 1, m + 1) = Times(char, chars, 1, m) + (IF chars[m + 1] = char THEN 1 ELSE 0)
      BY TimesNext
    <2> DEFINE j == a + m
    <2>2. j \in Nat /\ a + 1 \in Nat /\ a + 1 <= j + 1
      OBVIOUS
    <2> HIDE DEF j
    <2>3. Times(char, s, a + 1, j + 1) = Times(char, s, a + 1, j) + (IF s[j + 1] = char THEN 1 ELSE 0)
      BY <2>2, TimesNext
    <2>4. a + (m + 1) = j + 1 /\ s[j + 1] = chars[m + 1]
      <3>1. m + 1 \in 1 .. Len(chars) /\ a + (m + 1) = j + 1
        BY DEF j
      <3>2. s[a + (m + 1)] = chars[m + 1]
        BY <3>1 DEF PartAt
      <3> QED BY <3>1, <3>2
    <2>5. Times(char, s, a + 1, j) = Times(char, chars, 1, m)
      BY <1>2 DEF j
    <2> QED BY <2>1, <2>3, <2>4, <2>5
  <1> HIDE DEF P
  <1>3. Nat \subseteq P
    BY <1>1, <1>2, SetInduction
  <1>4. n \in P /\ n <= Len(chars)
    BY <1>3
  <1> QED BY <1>4 DEF P, TimesAfter

\* The parser finds the brace the lexer wrote exactly if the braces between match.
LEMMA ClosingMatches ==
  ASSUME NEW Chars, NEW s \in Seq(Chars), NEW a \in Nat, NEW b, NEW chars \in Seq(Chars),
         ExprAt(s, a, b, chars)
  PROVE  /\ a + 3 \in 1 .. Len(s) + 1 /\ b \in a + 3 .. Len(s)
         /\ Closing(s, a + 3) \in a + 3 .. Len(s) + 1
         /\ Closing(s, a + 3) = b <=> Matching(chars)
  <1> DEFINE n == Len(chars)
             R(j) == Times("rbrace", s, a + 3, j)
             L(j) == Times("lbrace", s, a + 3, j)
             Rc(m) == Times("rbrace", chars, 1, m)
             Lc(m) == Times("lbrace", chars, 1, m)
             e == Closing(s, a + 3)
  <1>1. /\ n \in Nat /\ Len(s) \in Nat /\ DOMAIN chars = 1 .. n
        /\ b = (a + 2) + n + 1 /\ b <= Len(s) /\ s[b] = "rbrace"
        /\ \A j \in 1 .. n : s[(a + 2) + j] = chars[j]
    BY DEF ExprAt
  <1>2. a + 3 \in 1 .. Len(s) + 1 /\ b \in a + 3 .. Len(s) /\ (a + 2) + 1 = a + 3 /\ a + 2 \in Nat
    BY <1>1
  <1>3. /\ e \in a + 3 .. Len(s) + 1
        /\ e <= Len(s) => R(e) > L(e)
        /\ \A j \in a + 3 .. e - 1 : ~ (R(j) > L(j))
    BY <1>1, <1>2, ClosingIs
  <1>4. ASSUME NEW m \in 0 .. n
        PROVE  /\ R((a + 2) + m) = Rc(m) /\ L((a + 2) + m) = Lc(m)
               /\ Rc(m) \in Nat /\ Lc(m) \in Nat
    <2>1. m \in Int /\ 1 \in Nat /\ m \in 0 .. Len(chars)
      BY <1>1
    <2> DEFINE i == a + 2
    <2>2. i \in Nat /\ Len(chars) \in Nat /\ PartAt(s, i, chars)
      <3>1. i + Len(chars) <= Len(s)
        BY <1>1
      <3>2. \A j \in 1 .. Len(chars) : s[i + j] = chars[j]
        BY <1>1
      <3> HIDE DEF i
      <3>3. PartAt(s, i, chars)
        BY <3>1, <3>2 DEF PartAt
      <3> QED BY <1>1, <1>2, <3>3 DEF i
    <2>3. a + 3 = i + 1
      BY <1>2
    <2> HIDE DEF i
    <2>4. ASSUME NEW char
          PROVE  Times(char, s, i + 1, i + m) = Times(char, chars, 1, m) /\ Times(char, chars, 1, m) \in Nat
      <3>1. Times(char, s, i + 1, i + m) = Times(char, chars, 1, m)
        <4>1. TimesAfter(char, s, i, m) = Times(char, chars, 1, m)
          BY <2>1, <2>2, TimesShift
        <4> QED BY <4>1 DEF TimesAfter
      <3>2. Times(char, chars, 1, m) \in Nat
        BY <2>1, TimesIs
      <3> QED BY <3>1, <3>2
    <2>5. /\ Times("rbrace", s, a + 3, i + m) = Times("rbrace", chars, 1, m)
          /\ Times("rbrace", chars, 1, m) \in Nat
      BY <2>3, <2>4
    <2>6. /\ Times("lbrace", s, a + 3, i + m) = Times("lbrace", chars, 1, m)
          /\ Times("lbrace", chars, 1, m) \in Nat
      BY <2>3, <2>4
    <2> QED BY <2>5, <2>6 DEF i
  <1>5. R(b) = Rc(n) + 1 /\ L(b) = Lc(n)
    <2> DEFINE j == (a + 2) + n
    <2>1. j \in Nat /\ a + 3 \in Nat /\ a + 3 <= j + 1 /\ b = j + 1 /\ n \in 0 .. n
      BY <1>1, <1>2
    <2>2. R(j) = Rc(n) /\ L(j) = Lc(n) /\ Rc(n) \in Nat /\ Lc(n) \in Nat
      BY <1>4, <2>1
    <2> HIDE DEF j
    <2>3. /\ R(j + 1) = R(j) + (IF s[j + 1] = "rbrace" THEN 1 ELSE 0)
          /\ L(j + 1) = L(j) + (IF s[j + 1] = "lbrace" THEN 1 ELSE 0)
      BY <2>1, TimesNext
    <2> HIDE DEF R, L, Rc, Lc
    <2> QED BY <1>1, <2>1, <2>2, <2>3
  <1>6. Matching(chars) <=> Lc(n) = Rc(n) /\ \A m \in 1 .. n : Lc(m) >= Rc(m)
    BY <1>1 DEF Matching
  <1> HIDE DEF R, L, Rc, Lc, e, n
  <1>7. n \in 0 .. n /\ Rc(n) \in Nat /\ Lc(n) \in Nat
    <2>1. n \in 0 .. n
      BY <1>1
    <2> QED BY <1>4, <2>1
  <1>8. ASSUME Matching(chars)
        PROVE  e = b
    <2>1. Lc(n) = Rc(n) /\ \A m \in 1 .. n : Lc(m) >= Rc(m)
      BY <1>6, <1>8
    <2>2. R(b) > L(b)
      BY <1>5, <1>7, <2>1
    <2>3. ~ (b \in a + 3 .. e - 1)
      BY <1>3, <2>2
    <2>4. ASSUME e < b
          PROVE  FALSE
      <3> DEFINE m == e - (a + 2)
      <3>1. m \in 1 .. n /\ (a + 2) + m = e /\ e <= Len(s) /\ m \in 0 .. n
        BY <1>1, <1>2, <1>3, <2>4
      <3> HIDE DEF m
      <3>2. R((a + 2) + m) = Rc(m) /\ L((a + 2) + m) = Lc(m) /\ Rc(m) \in Nat /\ Lc(m) \in Nat
        BY <1>4, <3>1
      <3>3. R(e) > L(e)
        BY <1>3, <3>1
      <3>4. Lc(m) >= Rc(m)
        BY <2>1, <3>1
      <3> QED BY <3>1, <3>2, <3>3, <3>4
    <2> QED BY <1>2, <1>3, <2>3, <2>4
  <1>9. ASSUME e = b
        PROVE  Matching(chars)
    <2>1. ASSUME NEW m \in 1 .. n
          PROVE  Lc(m) >= Rc(m)
      <3>1. (a + 2) + m \in a + 3 .. e - 1 /\ m \in 0 .. n
        BY <1>1, <1>2, <1>9
      <3>2. ~ (R((a + 2) + m) > L((a + 2) + m))
        BY <1>3, <3>1
      <3>3. R((a + 2) + m) = Rc(m) /\ L((a + 2) + m) = Lc(m) /\ Rc(m) \in Nat /\ Lc(m) \in Nat
        BY <1>4, <3>1
      <3> QED BY <3>2, <3>3
    <2>2. R(b) > L(b)
      BY <1>1, <1>3, <1>9
    <2>3. Rc(n) <= Lc(n)
      <3>1. CASE n = 0
        <4>1. Rc(0) = 0 /\ Lc(0) = 0
          <5>1. Times("rbrace", chars, 1, 0) = 0 /\ Times("lbrace", chars, 1, 0) = 0
            BY TimesNone
          <5> QED BY <5>1 DEF Rc, Lc
        <4> QED BY <3>1, <4>1
      <3>2. CASE n # 0
        <4>1. n \in 1 .. n
          BY <1>1, <3>2
        <4> QED BY <1>7, <2>1, <4>1
      <3> QED BY <3>1, <3>2
    <2>4. Lc(n) = Rc(n)
      BY <1>5, <1>7, <2>2, <2>3
    <2> QED BY <1>6, <2>1, <2>4
  <1>10. e = b <=> Matching(chars)
    BY <1>8, <1>9
  <1> QED BY <1>2, <1>3, <1>10 DEF e

-----------------------------------------------------------------------------
(* The parser's reading.                                                   *)

Reading(i, parts) == [i |-> i, parts |-> parts]
DecodeStates(s, Chars) == [i : 1 .. Len(s) + 2, parts : Seq(Parts(Chars))]
Lit(chars) == <<"lit", chars>>
Expr(chars) == <<"expr", chars>>

LEMMA ReadingIs ==
  ASSUME NEW i, NEW parts
  PROVE  Reading(i, parts).i = i /\ Reading(i, parts).parts = parts
  BY DEF Reading

LEMMA ReadingStays ==
  ASSUME NEW s, NEW Chars, NEW i \in 1 .. Len(s) + 2, NEW parts \in Seq(Parts(Chars))
  PROVE  Reading(i, parts) \in DecodeStates(s, Chars)
  BY DEF Reading, DecodeStates

LEMMA EveryReading ==
  ASSUME NEW s, NEW Chars, NEW x \in DecodeStates(s, Chars)
  PROVE  x = Reading(x.i, x.parts) /\ x.i \in 1 .. Len(s) + 2 /\ x.parts \in Seq(Parts(Chars))
  BY DEF Reading, DecodeStates

LEMMA PartIs ==
  ASSUME NEW Chars, NEW chars \in Seq(Chars)
  PROVE  /\ Lit(chars) \in Parts(Chars) /\ Lit(chars)[1] = "lit" /\ Lit(chars)[2] = chars
         /\ Expr(chars) \in Parts(Chars) /\ Expr(chars)[1] = "expr" /\ Expr(chars)[2] = chars
  BY DEF Lit, Expr, Parts

LEMMA EveryPart ==
  ASSUME NEW Chars, NEW part \in Parts(Chars)
  PROVE  /\ part[1] \in {"lit", "expr"} /\ part[2] \in Seq(Chars)
         /\ part[1] = "lit" => part = Lit(part[2])
         /\ part[1] = "expr" => part = Expr(part[2])
  BY DEF Lit, Expr, Parts

\* A turn at a mark, at an escaped brace, at a backslash, at a character, or at
\* what the parser cannot go past.
LEMMA DecodeExpr ==
  ASSUME NEW Chars, NEW s \in Seq(Chars), NEW i \in 1 .. Len(s), NEW parts,
         s[i] = "lbrace", i < Len(s), s[i + 1] = "EXPR"
  PROVE  DecodeTurn(s, Reading(i, parts))
             = Reading(Closing(s, i + 2) + 1, Append(parts, Expr(SubSeq(s, i + 2, Closing(s, i + 2) - 1))))
  BY ReadingIs DEF DecodeTurn, Beyond, Expr, Reading

LEMMA DecodeBrace ==
  ASSUME NEW Chars, NEW s \in Seq(Chars), NEW i \in 1 .. Len(s), NEW parts,
         s[i] = "back", i < Len(s), s[i + 1] \in Braces
  PROVE  DecodeTurn(s, Reading(i, parts)) = Reading(i + 2, AddText(parts, One(s[i + 1])))
  BY ReadingIs DEF DecodeTurn, Beyond, One, Reading

LEMMA DecodeBack ==
  ASSUME NEW Chars, NEW s \in Seq(Chars), NEW i \in 1 .. Len(s), NEW parts,
         s[i] = "back", i < Len(s), s[i + 1] \notin Braces
  PROVE  DecodeTurn(s, Reading(i, parts)) = Reading(i + 1, AddText(parts, One(s[i])))
  BY ReadingIs DEF DecodeTurn, Beyond, One, Reading

LEMMA DecodePlain ==
  ASSUME NEW Chars, NEW s \in Seq(Chars), NEW i \in 1 .. Len(s), NEW parts,
         s[i] # "lbrace", s[i] # "back"
  PROVE  DecodeTurn(s, Reading(i, parts)) = Reading(i + 1, AddText(parts, One(s[i])))
  BY ReadingIs DEF DecodeTurn, Beyond, One, Reading

LEMMA DecodeStuck ==
  ASSUME NEW Chars, NEW s \in Seq(Chars), NEW i \in 1 .. Len(s), NEW parts,
         \/ s[i] = "back" /\ i = Len(s)
         \/ s[i] = "lbrace" /\ ~ (i < Len(s) /\ s[i + 1] = "EXPR")
  PROVE  DecodeTurn(s, Reading(i, parts)) = Reading(i, parts)
  BY ReadingIs DEF DecodeTurn, Beyond, Reading

LEMMA DecodeBeyond ==
  ASSUME NEW s, NEW i, NEW parts, i > Len(s)
  PROVE  DecodeTurn(s, Reading(i, parts)) = Reading(i, parts)
  BY ReadingIs DEF DecodeTurn, Beyond

\* The parts a turn leaves: as they were, with one more expression, or with more text.
Grows(parts, more, Chars) ==
    \/ more = parts
    \/ \E chars \in Seq(Chars) : more = Append(parts, Expr(chars))
    \/ \E char \in Chars : more = AddText(parts, One(char))

\* The k-th part is not what it was before it was encoded.
Other(parts, k, chars) ==
    /\ k \in 1 .. Len(parts)
    /\ \/ parts[k][1] = "expr" /\ Len(parts[k][2]) # Len(chars)
       \/ parts[k][1] = "lit" /\ \E n \in 1 .. Len(parts[k][2]) : parts[k][2][n] # chars[n]

\* More text, after an expression or after text.
LEMMA TextAfterExpr ==
  ASSUME NEW Chars, NEW parts \in Seq(Parts(Chars)), NEW char \in Chars,
         parts = <<>> \/ parts[Len(parts)][1] = "expr"
  PROVE  AddText(parts, One(char)) = Append(parts, Lit(One(char)))
  <1>1. One(char) \in Seq(Chars)
    BY ShortIs
  <1> QED BY <1>1, AddTextNew DEF Lit

LEMMA TextAfterText ==
  ASSUME NEW Chars, NEW parts \in Seq(Parts(Chars)), NEW char \in Chars,
         parts # <<>>, parts[Len(parts)][1] = "lit"
  PROVE  /\ AddText(parts, One(char)) = Append(Front(parts), Lit(parts[Len(parts)][2] \o One(char)))
         /\ Front(parts) \in Seq(Parts(Chars)) /\ Len(Front(parts)) = Len(parts) - 1
         /\ \A k \in 1 .. Len(parts) - 1 : Front(parts)[k] = parts[k]
         /\ Len(parts) \in Nat \ {0} /\ parts[Len(parts)][2] \in Seq(Chars)
         /\ parts[Len(parts)][2] \o One(char) \in Seq(Chars)
  <1>1. One(char) \in Seq(Chars)
    BY ShortIs
  <1>2. AddText(parts, One(char)) = Append(Front(parts), Lit(parts[Len(parts)][2] \o One(char)))
    BY <1>1, AddTextMore DEF Lit
  <1>3. /\ Front(parts) \in Seq(Parts(Chars)) /\ Len(Front(parts)) = Len(parts) - 1
        /\ \A k \in 1 .. Len(parts) - 1 : Front(parts)[k] = parts[k]
        /\ Len(parts) \in Nat \ {0}
    BY FrontIs
  <1>4. parts[Len(parts)] \in Parts(Chars)
    BY <1>3
  <1> DEFINE text2 == parts[Len(parts)][2]
  <1>5. text2 \in Seq(Chars)
    BY <1>4, EveryPart
  <1>6. text2 \o One(char) \in Seq(Chars)
    <2> HIDE DEF text2
    <2> QED BY <1>1, <1>5, ConcatIs
  <1> QED BY <1>2, <1>3, <1>5, <1>6

LEMMA AppendGrows ==
  ASSUME NEW Chars, NEW parts \in Seq(Parts(Chars)), NEW part \in Parts(Chars)
  PROVE  /\ Append(parts, part) \in Seq(Parts(Chars))
         /\ \A k, chars : Other(parts, k, chars) => Other(Append(parts, part), k, chars)
  <1> DEFINE more == Append(parts, part)
  <1>1. /\ more \in Seq(Parts(Chars)) /\ Len(more) = Len(parts) + 1 /\ Len(parts) \in Nat
        /\ \A k \in 1 .. Len(parts) : more[k] = parts[k]
    BY AppendIs
  <1> HIDE DEF more
  <1>2. ASSUME NEW k, NEW chars, Other(parts, k, chars)
        PROVE  Other(more, k, chars)
    <2>1. k \in 1 .. Len(parts) /\ k \in 1 .. Len(more) /\ more[k] = parts[k]
      BY <1>1, <1>2 DEF Other
    <2> QED BY <1>2, <2>1 DEF Other
  <1> QED BY <1>1, <1>2 DEF more

LEMMA TextGrows ==
  ASSUME NEW Chars, NEW parts \in Seq(Parts(Chars)), NEW char \in Chars
  PROVE  /\ AddText(parts, One(char)) \in Seq(Parts(Chars))
         /\ \A k, chars : Other(parts, k, chars) => Other(AddText(parts, One(char)), k, chars)
  <1>1. CASE parts = <<>> \/ parts[Len(parts)][1] = "expr"
    <2>1. AddText(parts, One(char)) = Append(parts, Lit(One(char)))
      BY <1>1, TextAfterExpr
    <2>2. Lit(One(char)) \in Parts(Chars)
      <3>1. One(char) \in Seq(Chars)
        BY ShortIs
      <3> QED BY <3>1, PartIs
    <2> DEFINE part == Lit(One(char))
    <2> HIDE DEF part
    <2>3. /\ Append(parts, part) \in Seq(Parts(Chars))
          /\ \A k, chars : Other(parts, k, chars) => Other(Append(parts, part), k, chars)
      BY <2>2, AppendGrows DEF part
    <2> QED BY <2>1, <2>3 DEF part
  <1>2. CASE ~ (parts = <<>> \/ parts[Len(parts)][1] = "expr")
    <2>1. parts # <<>> /\ parts[Len(parts)][1] = "lit"
      <3>1. Len(parts) \in Nat \ {0} /\ parts[Len(parts)] \in Parts(Chars)
        BY <1>2
      <3> QED BY <1>2, <3>1, EveryPart
    <2> DEFINE front == Front(parts)
               before == parts[Len(parts)][2]
               after == before \o One(char)
               more == Append(front, Lit(after))
    <2>2. /\ AddText(parts, One(char)) = more
          /\ front \in Seq(Parts(Chars)) /\ Len(front) = Len(parts) - 1
          /\ \A k \in 1 .. Len(parts) - 1 : front[k] = parts[k]
          /\ Len(parts) \in Nat \ {0} /\ before \in Seq(Chars) /\ after \in Seq(Chars)
      BY <2>1, TextAfterText
    <2>3. Len(before) \in Nat /\ Len(before) <= Len(after) /\ \A n \in 1 .. Len(before) : after[n] = before[n]
      <3>1. One(char) \in Seq(Chars) /\ before \in Seq(Chars)
        BY <2>2, ShortIs
      <3> HIDE DEF before
      <3>2. /\ Len(after) = Len(before) + Len(One(char)) /\ Len(before) \in Nat /\ Len(One(char)) \in Nat
            /\ \A k \in 1 .. Len(before) : after[k] = before[k]
        BY <3>1, ConcatIs
      <3> QED BY <3>2
    <2> HIDE DEF front, after
    <2>4. Lit(after) \in Parts(Chars) /\ Lit(after)[1] = "lit" /\ Lit(after)[2] = after
      BY <2>2, PartIs
    <2>5. /\ more \in Seq(Parts(Chars)) /\ Len(more) = Len(front) + 1
          /\ \A k \in 1 .. Len(front) : more[k] = front[k]
          /\ more[Len(front) + 1] = Lit(after)
      BY <2>2, <2>4, AppendIs
    <2> HIDE DEF more
    <2>6. ASSUME NEW k, NEW chars, Other(parts, k, chars)
          PROVE  Other(more, k, chars)
      <3>1. k \in 1 .. Len(parts) /\ k \in 1 .. Len(more)
        BY <2>2, <2>5, <2>6 DEF Other
      <3>2. CASE k = Len(parts)
        <4>1. PICK n \in 1 .. Len(before) : before[n] # chars[n]
          BY <2>1, <2>6, <3>2 DEF Other
        <4>2. more[k] = Lit(after)
          BY <2>2, <2>5, <3>2
        <4>3. n \in 1 .. Len(after) /\ after[n] # chars[n]
          <5>1. Len(after) \in Nat
            BY <2>2
          <5> QED BY <2>3, <4>1, <5>1
        <4>4. more[k][1] = "lit" /\ more[k][2] = after
          BY <2>4, <4>2
        <4> QED BY <3>1, <4>3, <4>4 DEF Other
      <3>3. CASE k # Len(parts)
        <4>1. more[k] = parts[k]
          <5>1. k \in 1 .. Len(parts) - 1 /\ k \in 1 .. Len(front)
            BY <2>2, <3>1, <3>3
          <5> QED BY <2>2, <2>5, <5>1
        <4> QED BY <2>6, <3>1, <4>1 DEF Other
      <3> QED BY <3>2, <3>3
    <2> QED BY <2>2, <2>5, <2>6
  <1> QED BY <1>1, <1>2

LEMMA GrowsKeeps ==
  ASSUME NEW Chars, NEW parts \in Seq(Parts(Chars)), NEW more, Grows(parts, more, Chars)
  PROVE  /\ more \in Seq(Parts(Chars))
         /\ \A k, chars : Other(parts, k, chars) => Other(more, k, chars)
  <1>1. CASE more = parts
    BY <1>1
  <1>2. CASE \E chars \in Seq(Chars) : more = Append(parts, Expr(chars))
    <2>1. PICK chars \in Seq(Chars) : more = Append(parts, Expr(chars))
      BY <1>2
    <2>2. Expr(chars) \in Parts(Chars)
      BY PartIs
    <2> QED BY <2>1, <2>2, AppendGrows
  <1>3. CASE \E char \in Chars : more = AddText(parts, One(char))
    <2>1. PICK char \in Chars : more = AddText(parts, One(char))
      BY <1>3
    <2> QED BY <2>1, TextGrows
  <1> QED BY <1>1, <1>2, <1>3 DEF Grows

LEMMA SubSeqIs ==
  ASSUME NEW S, NEW s \in Seq(S), NEW i \in 1 .. Len(s) + 1, NEW j \in i - 1 .. Len(s)
  PROVE  /\ SubSeq(s, i, j) \in Seq(S) /\ Len(SubSeq(s, i, j)) = (j + 1) - i
         /\ \A k \in 1 .. (j + 1) - i : SubSeq(s, i, j)[k] = s[(i - 1) + k]
  <1>1. Len(s) \in Nat /\ \A k \in 1 .. Len(s) : s[k] \in S
    OBVIOUS
  <1>2. i \in Nat /\ j \in Nat /\ i <= j + 1
    BY <1>1
  <1>3. \A k \in i .. j : s[k] \in S
    BY <1>1
  <1> DEFINE t == SubSeq(s, i, j)
  <1>4. /\ t \in Seq(S)
        /\ Len(t) = IF i <= j THEN j - i + 1 ELSE 0
        /\ \A k \in 1 .. j - i + 1 : t[k] = s[i + k - 1]
    BY <1>2, <1>3, SubSeqProperties
  <1> HIDE DEF t
  <1>5. Len(t) = (j + 1) - i
    BY <1>2, <1>4
  <1>6. ASSUME NEW k \in 1 .. (j + 1) - i
        PROVE  t[k] = s[(i - 1) + k]
    <2>1. k \in 1 .. j - i + 1 /\ (i - 1) + k = i + k - 1
      BY <1>2
    <2> QED BY <1>4, <2>1
  <1> QED BY <1>4, <1>5, <1>6 DEF t

LEMMA DecodeTurnStays ==
  ASSUME NEW Chars, NEW s \in Seq(Chars), NEW x \in DecodeStates(s, Chars)
  PROVE  /\ DecodeTurn(s, x) \in DecodeStates(s, Chars)
         /\ Grows(x.parts, DecodeTurn(s, x).parts, Chars)
         /\ DecodeTurn(s, x) = x \/ DecodeTurn(s, x).i > x.i
         /\ x.i > Len(s) => DecodeTurn(s, x) = x
  <1> DEFINE i == x.i
             parts == x.parts
             y == DecodeTurn(s, x)
  <1>1. x = Reading(i, parts) /\ i \in 1 .. Len(s) + 2 /\ parts \in Seq(Parts(Chars)) /\ Len(s) \in Nat
    BY EveryReading
  <1> HIDE DEF i, parts
  <1>2. y = DecodeTurn(s, Reading(i, parts))
    BY <1>1
  <1> HIDE DEF y
  <1>3. Grows(parts, parts, Chars)
    BY DEF Grows
  <1>4. ASSUME y = x
        PROVE  y \in DecodeStates(s, Chars) /\ Grows(x.parts, y.parts, Chars)
    BY <1>3, <1>4 DEF parts
  <1>5. CASE i > Len(s)
    <2>1. y = x
      BY <1>1, <1>2, <1>5, DecodeBeyond
    <2> QED BY <1>4, <2>1 DEF y
  <1>6. ASSUME NEW j \in 1 .. Len(s) + 2, j > i, NEW more, Grows(parts, more, Chars), y = Reading(j, more),
               i <= Len(s)
        PROVE  /\ y \in DecodeStates(s, Chars) /\ Grows(x.parts, y.parts, Chars)
               /\ y.i > x.i /\ ~ (x.i > Len(s))
    <2>1. more \in Seq(Parts(Chars))
      BY <1>1, <1>6, GrowsKeeps
    <2>2. y \in DecodeStates(s, Chars)
      BY <1>6, <2>1, ReadingStays
    <2>3. y.i = j /\ y.parts = more
      BY <1>6, ReadingIs
    <2>4. y.i > x.i /\ ~ (x.i > Len(s))
      BY <1>1, <1>6, <2>3 DEF i
    <2> QED BY <1>6, <2>2, <2>3, <2>4 DEF parts
  <1>7. ASSUME i <= Len(s)
        PROVE  /\ y \in DecodeStates(s, Chars) /\ Grows(x.parts, y.parts, Chars)
               /\ y = x \/ y.i > x.i
               /\ ~ (x.i > Len(s))
    <2>1. i \in 1 .. Len(s) /\ i + 1 \in 1 .. Len(s) + 2 /\ i + 2 \in 1 .. Len(s) + 2 /\ i + 1 > i /\ i + 2 > i
      BY <1>1, <1>7
    <2>2. s[i] \in Chars /\ (i < Len(s) => s[i + 1] \in Chars)
      <3>1. \A k \in 1 .. Len(s) : s[k] \in Chars
        OBVIOUS
      <3>2. i < Len(s) => i + 1 \in 1 .. Len(s)
        BY <1>1
      <3> QED BY <2>1, <3>1, <3>2
    <2>3. CASE s[i] = "lbrace" /\ i < Len(s) /\ s[i + 1] = "EXPR"
      <3> DEFINE c == Closing(s, i + 2)
                 inside == SubSeq(s, i + 2, c - 1)
      <3>1. i + 2 \in 1 .. Len(s) + 1
        BY <1>1, <2>3
      <3>2. c \in i + 2 .. Len(s) + 1
        BY <1>1, <3>1, ClosingIs
      <3>3. y = Reading(c + 1, Append(parts, Expr(inside)))
        BY <1>2, <2>1, <2>3, DecodeExpr
      <3>4. inside \in Seq(Chars)
        <4> HIDE DEF c
        <4>1. c - 1 \in (i + 2) - 1 .. Len(s)
          BY <1>1, <3>1, <3>2
        <4> QED BY <3>1, <4>1, SubSeqIs
      <3> HIDE DEF inside
      <3>5. Grows(parts, Append(parts, Expr(inside)), Chars)
        BY <3>4 DEF Grows
      <3> HIDE DEF c
      <3>6. c + 1 \in 1 .. Len(s) + 2 /\ c + 1 > i
        BY <1>1, <3>2
      <3> QED BY <1>6, <1>7, <3>3, <3>5, <3>6
    <2>4. CASE s[i] = "back" /\ i < Len(s) /\ s[i + 1] \in Braces
      <3>1. y = Reading(i + 2, AddText(parts, One(s[i + 1])))
        BY <1>2, <2>1, <2>4, DecodeBrace
      <3>2. Grows(parts, AddText(parts, One(s[i + 1])), Chars)
        BY <2>2, <2>4 DEF Grows
      <3> QED BY <1>6, <1>7, <2>1, <3>1, <3>2
    <2>5. CASE s[i] = "back" /\ i < Len(s) /\ s[i + 1] \notin Braces
      <3>1. y = Reading(i + 1, AddText(parts, One(s[i])))
        BY <1>2, <2>1, <2>5, DecodeBack
      <3>2. Grows(parts, AddText(parts, One(s[i])), Chars)
        BY <2>2 DEF Grows
      <3> QED BY <1>6, <1>7, <2>1, <3>1, <3>2
    <2>6. CASE s[i] # "lbrace" /\ s[i] # "back"
      <3>1. y = Reading(i + 1, AddText(parts, One(s[i])))
        BY <1>2, <2>1, <2>6, DecodePlain
      <3>2. Grows(parts, AddText(parts, One(s[i])), Chars)
        BY <2>2 DEF Grows
      <3> QED BY <1>6, <1>7, <2>1, <3>1, <3>2
    <2>7. CASE \/ s[i] = "back" /\ i = Len(s)
               \/ s[i] = "lbrace" /\ ~ (i < Len(s) /\ s[i + 1] = "EXPR")
      <3>1. y = x
        BY <1>1, <1>2, <2>1, <2>7, DecodeStuck
      <3>2. ~ (x.i > Len(s))
        BY <1>1, <1>7 DEF i
      <3> QED BY <1>4, <3>1, <3>2
    <2> QED BY <1>1, <1>7, <2>3, <2>4, <2>5, <2>6, <2>7
  <1>8. (~ (i > Len(s))) => i <= Len(s)
    BY <1>1
  <1> QED BY <1>5, <1>7, <1>8 DEF y

\* The states the parser goes through: where it can go no further the parts are what
\* it returns, if it is at the end; a part that differs goes on to differ.
Result(s, x) == IF x.i > Len(s) THEN x.parts ELSE Forever
Decoding(V, s, Chars) ==
    /\ V \subseteq DecodeStates(s, Chars)
    /\ Reading(1, <<>>) \in V
    /\ \A x \in V : DecodeTurn(s, x) \in V
    /\ \A x \in V : DecodeTurn(s, x) = x => Decode(s) = Result(s, x)
    /\ \A x \in V : \A k, chars : Other(x.parts, k, chars) => Decode(s) = Forever \/ Other(Decode(s), k, chars)

LEMMA DecodeRun ==
  ASSUME NEW Chars, NEW s \in Seq(Chars)
  PROVE  \E V : Decoding(V, s, Chars)
  <1> DEFINE D == DecodeStates(s, Chars)
             first == Reading(1, <<>>)
             next == [x \in D |-> DecodeTurn(s, x)]
             W(f) == f = [n \in 0 .. Len(s) |-> IF n = 0 THEN first ELSE DecodeTurn(s, f[n - 1])]
             last == (CHOOSE f : W(f))[Len(s)]
  <1>1. Len(s) \in Nat /\ first \in D /\ first.i = 1
    <2>1. Len(s) \in Nat /\ 1 \in 1 .. Len(s) + 2 /\ <<>> \in Seq(Parts(Chars))
      OBVIOUS
    <2> QED BY <2>1, ReadingStays, ReadingIs
  <1>2. next \in [D -> D]
    BY DecodeTurnStays
  <1>3. Decode(s) = Result(s, last)
    BY DEF Decode, Reading, Result, Beyond
  <1>4. PICK f : IsRun(f, D, next, first, Len(s))
    <2> HIDE DEF D, first, next
    <2> QED BY <1>1, <1>2, RunExists
  <1>5. /\ \A k \in 1 .. Len(s) : f[k - 1] \in D /\ f[k] = DecodeTurn(s, f[k - 1])
        /\ f \in [0 .. Len(s) -> D] /\ f[0] = first
    <2>1. \A k \in 1 .. Len(s) : k - 1 \in 0 .. Len(s)
      BY <1>1
    <2> HIDE DEF D, first
    <2> QED BY <1>4, <2>1 DEF IsRun
  <1>6. W(f)
    <2> HIDE DEF D, first
    <2> QED BY <1>1, <1>5
  <1>7. PICK g : W(g) /\ last = g[Len(s)]
    <2> HIDE DEF W
    <2> QED BY <1>6
  <1> HIDE DEF last
  <1>8. Alike(f, g, Len(s))
    <2> HIDE DEF D, first
    <2>1. /\ \A k \in 0 .. Len(s) : f[k] = IF k = 0 THEN first ELSE DecodeTurn(s, f[k - 1])
          /\ \A k \in 0 .. Len(s) : g[k] = IF k = 0 THEN first ELSE DecodeTurn(s, g[k - 1])
      BY <1>6, <1>7
    <2> QED BY <1>1, <2>1 DEF Alike
  <1> HIDE DEF W
  <1>9. Decode(s) = Result(s, f[Len(s)])
    BY <1>1, <1>3, <1>7, <1>8, RunUnique
  <1>10. ASSUME NEW k \in 0 .. Len(s)
         PROVE  DecodeTurn(s, f[k]) = f[k] \/ f[k].i >= k + 1
    <2> DEFINE P == {m \in Nat : m <= Len(s) => DecodeTurn(s, f[m]) = f[m] \/ f[m].i >= m + 1}
    <2>1. 0 \in P
      BY <1>1, <1>5
    <2>2. ASSUME NEW m \in Nat, m \in P
          PROVE  m + 1 \in P
      <3> SUFFICES ASSUME m + 1 <= Len(s)
                   PROVE  DecodeTurn(s, f[m + 1]) = f[m + 1] \/ f[m + 1].i >= (m + 1) + 1
        OBVIOUS
      <3> HIDE DEF D, first
      <3>1. m + 1 \in 1 .. Len(s) /\ (m + 1) - 1 = m /\ m <= Len(s) /\ m + 1 \in 0 .. Len(s)
        BY <1>1
      <3>2. /\ f[m] \in D /\ f[m + 1] \in D /\ f[m + 1] = DecodeTurn(s, f[m])
            /\ DecodeTurn(s, f[m]) = f[m] \/ f[m].i >= m + 1
        BY <1>5, <2>2, <3>1
      <3>3. f[m].i \in Nat /\ f[m + 1].i \in Nat
        BY <3>2 DEF D, DecodeStates
      <3>4. DecodeTurn(s, f[m]) = f[m] \/ f[m + 1].i > f[m].i
        BY <3>2, DecodeTurnStays DEF D
      <3>5. CASE DecodeTurn(s, f[m]) = f[m]
        BY <3>2, <3>5
      <3>6. CASE DecodeTurn(s, f[m]) # f[m]
        BY <3>2, <3>3, <3>4, <3>6
      <3> QED BY <3>5, <3>6
    <2> HIDE DEF P
    <2>3. Nat \subseteq P
      BY <2>1, <2>2, SetInduction
    <2>4. k \in P /\ k <= Len(s)
      BY <1>1, <2>3
    <2> QED BY <2>4 DEF P
  <1>11. ASSUME NEW k \in 0 .. Len(s), DecodeTurn(s, f[k]) = f[k]
         PROVE  f[Len(s)] = f[k]
    <2> DEFINE P == {m \in Nat : k + m <= Len(s) => f[k + m] = f[k]}
    <2>1. 0 \in P
      OBVIOUS
    <2>2. ASSUME NEW m \in Nat, m \in P
          PROVE  m + 1 \in P
      <3> SUFFICES ASSUME k + (m + 1) <= Len(s)
                   PROVE  f[k + (m + 1)] = f[k]
        OBVIOUS
      <3> HIDE DEF D, first
      <3>1. k + (m + 1) \in 1 .. Len(s) /\ (k + (m + 1)) - 1 = k + m /\ k + m <= Len(s)
        BY <1>1
      <3>2. f[k + m] = f[k] /\ f[k + (m + 1)] = DecodeTurn(s, f[k])
        BY <1>5, <2>2, <3>1
      <3> QED BY <1>11, <3>2
    <2> HIDE DEF P
    <2>3. Nat \subseteq P
      BY <2>1, <2>2, SetInduction
    <2>4. Len(s) - k \in Nat /\ k + (Len(s) - k) = Len(s)
      BY <1>1
    <2>5. Len(s) - k \in P
      BY <2>3, <2>4
    <2> QED BY <2>4, <2>5 DEF P
  <1>12. ASSUME NEW k \in 0 .. Len(s), NEW j, NEW chars, Other(f[k].parts, j, chars)
         PROVE  Other(f[Len(s)].parts, j, chars)
    <2> DEFINE P == {m \in Nat : k + m <= Len(s) => Other(f[k + m].parts, j, chars)}
    <2>1. 0 \in P
      BY <1>12
    <2>2. ASSUME NEW m \in Nat, m \in P
          PROVE  m + 1 \in P
      <3> SUFFICES ASSUME k + (m + 1) <= Len(s)
                   PROVE  Other(f[k + (m + 1)].parts, j, chars)
        OBVIOUS
      <3> HIDE DEF D, first
      <3> DEFINE x == f[k + m]
                 y == f[k + (m + 1)]
      <3>1. k + (m + 1) \in 1 .. Len(s) /\ (k + (m + 1)) - 1 = k + m /\ k + m <= Len(s)
        BY <1>1
      <3>2. x \in D /\ y = DecodeTurn(s, x) /\ Other(x.parts, j, chars)
        BY <1>5, <2>2, <3>1
      <3> HIDE DEF x, y
      <3>3. x.parts \in Seq(Parts(Chars)) /\ Grows(x.parts, y.parts, Chars)
        BY <3>2, DecodeTurnStays, EveryReading DEF D
      <3>4. Other(y.parts, j, chars)
        BY <3>2, <3>3, GrowsKeeps
      <3> QED BY <3>4 DEF y
    <2> HIDE DEF P
    <2>3. Nat \subseteq P
      BY <2>1, <2>2, SetInduction
    <2>4. Len(s) - k \in Nat /\ k + (Len(s) - k) = Len(s)
      BY <1>1
    <2>5. Len(s) - k \in P
      BY <2>3, <2>4
    <2> QED BY <2>4, <2>5 DEF P
  <1> DEFINE V == {f[k] : k \in 0 .. Len(s)}
  <1> HIDE DEF D, first
  <1>13. V \subseteq D /\ first \in V
    BY <1>1, <1>5
  <1>14. ASSUME NEW x \in V
         PROVE  DecodeTurn(s, x) \in V
    <2>1. PICK k \in 0 .. Len(s) : x = f[k]
      OBVIOUS
    <2>2. CASE k = Len(s)
      <3>1. DecodeTurn(s, x) = x \/ x.i >= Len(s) + 1
        BY <1>10, <2>1, <2>2
      <3>5. x \in D
        BY <1>5, <2>1
      <3>2. x.i \in Nat /\ x \in D
        BY <1>1, <3>5, EveryReading DEF D
      <3>3. x.i >= Len(s) + 1 => x.i > Len(s)
        BY <1>1, <3>2
      <3>4. DecodeTurn(s, x) = x
        BY <3>1, <3>2, <3>3, DecodeTurnStays DEF D
      <3> QED BY <3>4
    <2>3. CASE k # Len(s)
      <3>1. k + 1 \in 1 .. Len(s) /\ k + 1 \in 0 .. Len(s) /\ (k + 1) - 1 = k
        BY <1>1, <2>3
      <3>2. f[k + 1] = DecodeTurn(s, f[k])
        BY <1>5, <3>1
      <3> QED BY <2>1, <3>1, <3>2
    <2> QED BY <2>2, <2>3
  <1>15. ASSUME NEW x \in V, DecodeTurn(s, x) = x
         PROVE  Decode(s) = Result(s, x)
    <2>1. PICK k \in 0 .. Len(s) : x = f[k]
      OBVIOUS
    <2>2. f[Len(s)] = x
      BY <1>11, <1>15, <2>1
    <2> QED BY <1>9, <2>2
  <1>16. ASSUME NEW x \in V, NEW j, NEW chars, Other(x.parts, j, chars)
         PROVE  Decode(s) = Forever \/ Other(Decode(s), j, chars)
    <2>1. PICK k \in 0 .. Len(s) : x = f[k]
      OBVIOUS
    <2>2. Other(f[Len(s)].parts, j, chars)
      BY <1>12, <1>16, <2>1
    <2>3. Decode(s) = Forever \/ Decode(s) = f[Len(s)].parts
      BY <1>9 DEF Result
    <2> QED BY <2>2, <2>3
  <1> HIDE DEF V
  <1>17. Decoding(V, s, Chars)
    BY <1>13, <1>14, <1>15, <1>16 DEF Decoding, D, first
  <1> QED BY <1>17

-----------------------------------------------------------------------------
(* The parser on a text.                                                   *)

LEMMA SameSequence ==
  ASSUME NEW S, NEW s \in Seq(S), NEW t \in Seq(S), Len(s) = Len(t), \A k \in 1 .. Len(s) : s[k] = t[k]
  PROVE  s = t
  BY SeqEqual

LEMMA FrontAppend ==
  ASSUME NEW S, NEW s \in Seq(S), NEW e \in S
  PROVE  Front(Append(s, e)) = s /\ Append(s, e) # <<>> /\ Append(s, e) \in Seq(S)
         /\ Len(Append(s, e)) = Len(s) + 1 /\ Append(s, e)[Len(s) + 1] = e
  <1> DEFINE t == Append(s, e)
  <1>1. /\ t \in Seq(S) /\ Len(t) = Len(s) + 1 /\ Len(s) \in Nat
        /\ \A k \in 1 .. Len(s) : t[k] = s[k]
        /\ t[Len(s) + 1] = e
    BY AppendIs
  <1> HIDE DEF t
  <1>2. t # <<>>
    BY <1>1
  <1>3. /\ Front(t) \in Seq(S) /\ Len(Front(t)) = Len(t) - 1
        /\ \A k \in 1 .. Len(t) - 1 : Front(t)[k] = t[k]
    BY <1>1, <1>2, FrontIs
  <1>4. Len(t) - 1 = Len(s)
    BY <1>1
  <1>5. Len(Front(t)) = Len(s) /\ \A k \in 1 .. Len(Front(t)) : Front(t)[k] = s[k]
    BY <1>1, <1>3, <1>4
  <1>6. Front(t) = s
    BY <1>3, <1>5, SameSequence
  <1> QED BY <1>1, <1>2, <1>6 DEF t

\* The parts when m characters of a text have been read.
TextSo(parts, chars, m) == IF m = 0 THEN parts ELSE Append(parts, Lit(SubSeq(chars, 1, m)))

LEMMA TextSoMore ==
  ASSUME NEW Chars, NEW parts \in Seq(Parts(Chars)), parts = <<>> \/ parts[Len(parts)][1] = "expr",
         NEW chars \in Seq(Chars), NEW m \in Nat, m + 1 <= Len(chars)
  PROVE  AddText(TextSo(parts, chars, m), One(chars[m + 1])) = TextSo(parts, chars, m + 1)
  <1> DEFINE char == chars[m + 1]
             now == SubSeq(chars, 1, m)
             then == SubSeq(chars, 1, m + 1)
  <1>1. Len(chars) \in Nat /\ m + 1 \in 1 .. Len(chars)
    OBVIOUS
  <1>2. char \in Chars
    BY <1>1
  <1>3. /\ now \in Seq(Chars) /\ then \in Seq(Chars)
        /\ then = now \o One(char)
    <2>1. now \in Seq(Chars) /\ then \in Seq(Chars)
      <3>1. 1 \in 1 .. Len(chars) + 1 /\ m \in 1 - 1 .. Len(chars) /\ m + 1 \in 1 - 1 .. Len(chars)
        BY <1>1
      <3> QED BY <3>1, SubSeqIs
    <2>2. then = SubSeq(chars, 1, (m + 1) - 1) \o <<chars[m + 1]>>
      <3>1. 1 \in 1 .. Len(chars) /\ m + 1 \in 1 .. Len(chars)
        BY <1>1
      <3> QED BY <3>1, SubSeqRecursiveSecond
    <2>3. (m + 1) - 1 = m
      OBVIOUS
    <2> QED BY <2>1, <2>2, <2>3 DEF One
  <1>4. One(char) \in Seq(Chars)
    <2> HIDE DEF char
    <2> QED BY <1>2, ShortIs
  <1>5. m + 1 # 0 /\ TextSo(parts, chars, m + 1) = Append(parts, Lit(then))
    <2>1. m + 1 # 0
      OBVIOUS
    <2> QED BY <2>1 DEF TextSo
  <1> HIDE DEF char, now, then
  <1>6. CASE m = 0
    <2>1. now = <<>>
      BY <1>6 DEF now
    <2>2. then = One(char)
      BY <1>3, <1>4, <2>1, ConcatEmptySeq
    <2>3. TextSo(parts, chars, m) = parts
      BY <1>6 DEF TextSo
    <2>4. AddText(parts, One(char)) = Append(parts, Lit(One(char)))
      BY <1>2, TextAfterExpr
    <2> QED BY <1>5, <2>2, <2>3, <2>4 DEF char
  <1>7. CASE m # 0
    <2> DEFINE so == Append(parts, Lit(now))
    <2>1. TextSo(parts, chars, m) = so
      BY <1>7 DEF TextSo, now
    <2>2. Lit(now) \in Parts(Chars) /\ Lit(now)[1] = "lit" /\ Lit(now)[2] = now
      BY <1>3, PartIs
    <2>3. Front(so) = parts /\ so # <<>> /\ so \in Seq(Parts(Chars)) /\ Len(so) = Len(parts) + 1
          /\ so[Len(parts) + 1] = Lit(now)
      BY <2>2, FrontAppend
    <2> HIDE DEF so
    <2>4. so[Len(so)] = Lit(now)
      BY <2>3
    <2>5. AddText(so, One(char)) = Append(Front(so), Lit(so[Len(so)][2] \o One(char)))
      BY <1>2, <2>2, <2>3, <2>4, TextAfterText
    <2>6. AddText(so, One(char)) = Append(parts, Lit(then))
      BY <1>3, <2>2, <2>3, <2>4, <2>5
    <2> QED BY <1>5, <2>1, <2>6 DEF char
  <1> QED BY <1>6, <1>7

LEMMA TextSoIs ==
  ASSUME NEW Chars, NEW parts \in Seq(Parts(Chars)), NEW chars \in Seq(Chars), NEW m \in 0 .. Len(chars)
  PROVE  TextSo(parts, chars, m) \in Seq(Parts(Chars))
  <1>1. SubSeq(chars, 1, m) \in Seq(Chars)
    <2>1. 1 \in 1 .. Len(chars) + 1 /\ m \in 1 - 1 .. Len(chars)
      OBVIOUS
    <2> QED BY <2>1, SubSeqIs
  <1> DEFINE part == Lit(SubSeq(chars, 1, m))
  <1>2. part \in Parts(Chars)
    BY <1>1, PartIs
  <1> HIDE DEF part
  <1>3. Append(parts, part) \in Seq(Parts(Chars))
    BY <1>2, AppendIs
  <1> QED BY <1>3 DEF TextSo, part

\* A character of a text, unless it is a backslash at the end of it.
LEMMA CharRead ==
  ASSUME NEW Chars, NEW s \in Seq(Chars), NEW parts \in Seq(Parts(Chars)), NEW char \in Chars,
         NEW i \in Nat, NEW j \in Nat, CharAt(s, i, j, char),
         char = "back" => j < Len(s) /\ s[j + 1] \notin Braces
  PROVE  DecodeTurn(s, Reading(i + 1, parts)) = Reading(j + 1, AddText(parts, One(char)))
  <1>1. Len(s) \in Nat
    OBVIOUS
  <1>2. CASE char \in Braces
    <2>1. j <= Len(s) /\ j = i + 2 /\ s[i + 1] = "back" /\ s[i + 2] = char
      BY <1>2 DEF CharAt
    <2> DEFINE k == i + 1
    <2>2. k \in 1 .. Len(s) /\ k < Len(s) /\ k + 1 = i + 2 /\ k + 2 = j + 1
      BY <1>1, <2>1
    <2> HIDE DEF k
    <2>3. s[k] = "back" /\ s[k + 1] \in Braces /\ s[k + 1] = char
      BY <1>2, <2>1, <2>2 DEF k
    <2>4. DecodeTurn(s, Reading(k, parts)) = Reading(k + 2, AddText(parts, One(s[k + 1])))
      BY <2>2, <2>3, DecodeBrace
    <2> QED BY <2>2, <2>3, <2>4 DEF k
  <1>3. CASE char \notin Braces
    <2>1. j <= Len(s) /\ j = i + 1 /\ s[i + 1] = char
      BY <1>3 DEF CharAt
    <2>2. j \in 1 .. Len(s)
      BY <1>1, <2>1
    <2>3. CASE char = "back"
      <3>1. s[j] = "back" /\ j < Len(s) /\ s[j + 1] \notin Braces
        BY <2>1, <2>3
      <3>2. DecodeTurn(s, Reading(j, parts)) = Reading(j + 1, AddText(parts, One(s[j])))
        BY <2>2, <3>1, DecodeBack
      <3> QED BY <2>1, <3>2
    <2>4. CASE char # "back"
      <3>1. s[j] # "lbrace" /\ s[j] # "back"
        BY <1>3, <2>1, <2>4 DEF Braces
      <3>2. DecodeTurn(s, Reading(j, parts)) = Reading(j + 1, AddText(parts, One(s[j])))
        BY <2>2, <3>1, DecodePlain
      <3> QED BY <2>1, <3>2
    <2> QED BY <2>3, <2>4
  <1> QED BY <1>2, <1>3

\* The characters of a text, up to a backslash at the end of it.
LEMMA TextRead ==
  ASSUME NEW Chars, Marks \subseteq Chars, NEW s \in Seq(Chars), NEW V, Decoding(V, s, Chars),
         NEW parts \in Seq(Parts(Chars)), parts = <<>> \/ parts[Len(parts)][1] = "expr",
         NEW chars \in Seq(Chars), NEW ends, NEW a \in Nat, CharsAt(ends, s, a, chars),
         Reading(a + 1, parts) \in V,
         NEW n \in 0 .. Len(chars), n = Len(chars) /\ n > 0 => chars[n] # "back"
  PROVE  Reading(ends[n] + 1, TextSo(parts, chars, n)) \in V
  <1>1. /\ Len(chars) \in Nat /\ Len(s) \in Nat
        /\ ends \in [0 .. Len(chars) -> Nat] /\ ends[0] = a
        /\ \A m \in 1 .. Len(chars) : CharAt(s, ends[m - 1], ends[m], chars[m])
        /\ \A m \in 1 .. Len(chars) : chars[m] \in Chars
    BY DEF CharsAt
  <1> DEFINE P == {m \in Nat : m <= n => Reading(ends[m] + 1, TextSo(parts, chars, m)) \in V}
  <1>2. 0 \in P
    <2>1. TextSo(parts, chars, 0) = parts
      BY DEF TextSo
    <2> QED BY <1>1, <2>1
  <1>3. ASSUME NEW m \in Nat, m \in P
        PROVE  m + 1 \in P
    <2> SUFFICES ASSUME m + 1 <= n
                 PROVE  Reading(ends[m + 1] + 1, TextSo(parts, chars, m + 1)) \in V
      OBVIOUS
    <2> DEFINE i == ends[m]
               j == ends[m + 1]
               char == chars[m + 1]
               so == TextSo(parts, chars, m)
    <2>1. m + 1 \in 1 .. Len(chars) /\ (m + 1) - 1 = m /\ m <= n /\ m \in 0 .. Len(chars) /\ m + 1 \in 0 .. Len(chars)
          /\ m + 1 <= Len(chars)
      BY <1>1
    <2>2. /\ i \in Nat /\ j \in Nat /\ char \in Chars /\ CharAt(s, i, j, char)
      <3>1. CharAt(s, ends[(m + 1) - 1], ends[m + 1], chars[m + 1])
        BY <1>1, <2>1
      <3> QED BY <1>1, <2>1, <3>1
    <2>3. Reading(i + 1, so) \in V
      BY <1>3, <2>1
    <2>4. ASSUME char = "back"
          PROVE  j < Len(s) /\ s[j + 1] \notin Braces
      <3>1. m + 2 \in 1 .. Len(chars) /\ (m + 2) - 1 = m + 1 /\ m + 2 \in 0 .. Len(chars)
        <4>1. m + 1 # Len(chars)
          BY <1>1, <2>1, <2>4
        <4> QED BY <1>1, <2>1, <4>1
      <3>2. CharAt(s, ends[(m + 2) - 1], ends[m + 2], chars[m + 2])
        BY <1>1, <3>1
      <3> DEFINE l == ends[m + 2]
                 next == chars[m + 2]
      <3>3. CharAt(s, j, l, next) /\ l \in Nat
        BY <1>1, <3>1, <3>2
      <3> HIDE DEF j, l, next
      <3>4. l <= Len(s) /\ (l = j + 2 \/ l = j + 1)
        BY <3>3 DEF CharAt
      <3>5. j < Len(s)
        BY <1>1, <2>2, <3>3, <3>4
      <3>6. s[j + 1] \notin Braces
        <4>1. CASE next \in Braces
          <5>1. s[j + 1] = "back"
            BY <3>3, <4>1 DEF CharAt
          <5> QED BY <5>1 DEF Braces
        <4>2. CASE next \notin Braces
          BY <3>3, <4>2 DEF CharAt
        <4> QED BY <4>1, <4>2
      <3> QED BY <3>5, <3>6
    <2>5. so \in Seq(Parts(Chars))
      BY <2>1, TextSoIs
    <2>6. AddText(so, One(char)) = TextSo(parts, chars, m + 1)
      BY <2>1, TextSoMore
    <2> HIDE DEF i, j, char, so
    <2>7. DecodeTurn(s, Reading(i + 1, so)) = Reading(j + 1, AddText(so, One(char)))
      BY <2>2, <2>4, <2>5, CharRead
    <2>8. DecodeTurn(s, Reading(i + 1, so)) \in V
      BY <2>3 DEF Decoding
    <2> QED BY <2>6, <2>7, <2>8 DEF j
  <1> HIDE DEF P
  <1>4. Nat \subseteq P
    BY <1>2, <1>3, SetInduction
  <1>5. n \in P /\ n <= n
    BY <1>1, <1>4
  <1> QED BY <1>5 DEF P

\* The same with another character.
LEMMA TextSoOther ==
  ASSUME NEW Chars, NEW parts \in Seq(Parts(Chars)), parts = <<>> \/ parts[Len(parts)][1] = "expr",
         NEW chars \in Seq(Chars), NEW m \in Nat, m + 1 <= Len(chars),
         NEW char \in Chars, char # chars[m + 1]
  PROVE  Other(AddText(TextSo(parts, chars, m), One(char)), Len(parts) + 1, chars)
  <1> DEFINE now == SubSeq(chars, 1, m)
             k == Len(parts) + 1
  <1>1. Len(chars) \in Nat /\ m \in 0 .. Len(chars) /\ Len(parts) \in Nat
    OBVIOUS
  <1>2. now \in Seq(Chars) /\ Len(now) = m
    <2>1. 1 \in 1 .. Len(chars) + 1 /\ m \in 1 - 1 .. Len(chars) /\ (m + 1) - 1 = m
      BY <1>1
    <2> QED BY <2>1, SubSeqIs
  <1>3. One(char) \in Seq(Chars) /\ Len(One(char)) = 1 /\ One(char)[1] = char
    BY ShortIs
  <1> HIDE DEF now
  <1>4. ASSUME NEW text2 \in Seq(Chars), m + 1 \in 1 .. Len(text2), text2[m + 1] = char
        PROVE  Other(Append(parts, Lit(text2)), k, chars)
    <2>1. Lit(text2) \in Parts(Chars) /\ Lit(text2)[1] = "lit" /\ Lit(text2)[2] = text2
      BY PartIs
    <2> DEFINE more == Append(parts, Lit(text2))
    <2>2. Len(more) = Len(parts) + 1 /\ more[Len(parts) + 1] = Lit(text2)
      BY <2>1, FrontAppend
    <2> HIDE DEF more
    <2>3. k \in 1 .. Len(more)
      BY <1>1, <2>2
    <2>4. more[k][1] = "lit" /\ more[k][2] = text2
      BY <2>1, <2>2
    <2>5. \E n \in 1 .. Len(more[k][2]) : more[k][2][n] # chars[n]
      BY <1>4, <2>4
    <2> HIDE DEF k
    <2>6. Other(more, k, chars)
      BY <2>3, <2>4, <2>5 DEF Other
    <2> QED BY <2>6 DEF more
  <1>5. CASE m = 0
    <2>1. TextSo(parts, chars, m) = parts
      BY <1>5 DEF TextSo
    <2>2. AddText(parts, One(char)) = Append(parts, Lit(One(char)))
      BY TextAfterExpr
    <2>3. m + 1 \in 1 .. Len(One(char)) /\ One(char)[m + 1] = char
      BY <1>3, <1>5
    <2>4. Other(Append(parts, Lit(One(char))), k, chars)
      BY <1>3, <1>4, <2>3
    <2> QED BY <2>1, <2>2, <2>4
  <1>6. CASE m # 0
    <2> DEFINE so == Append(parts, Lit(now))
    <2>1. TextSo(parts, chars, m) = so
      BY <1>6 DEF TextSo, now
    <2>2. Lit(now) \in Parts(Chars) /\ Lit(now)[1] = "lit" /\ Lit(now)[2] = now
      BY <1>2, PartIs
    <2>3. Front(so) = parts /\ so # <<>> /\ so \in Seq(Parts(Chars)) /\ Len(so) = Len(parts) + 1
          /\ so[Len(parts) + 1] = Lit(now)
      BY <2>2, FrontAppend
    <2> HIDE DEF so
    <2>4. so[Len(so)] = Lit(now)
      BY <2>3
    <2>5. AddText(so, One(char)) = Append(Front(so), Lit(so[Len(so)][2] \o One(char)))
      BY <2>2, <2>3, <2>4, TextAfterText
    <2> DEFINE text2 == now \o One(char)
    <2>6. AddText(so, One(char)) = Append(parts, Lit(text2))
      BY <2>2, <2>3, <2>4, <2>5
    <2>7. /\ text2 \in Seq(Chars) /\ Len(text2) = Len(now) + Len(One(char))
          /\ \A j \in 1 .. Len(One(char)) : text2[Len(now) + j] = One(char)[j]
      <3> DEFINE one == One(char)
      <3>1. now \in Seq(Chars) /\ one \in Seq(Chars)
        BY <1>2, <1>3
      <3> HIDE DEF one
      <3>2. /\ now \o one \in Seq(Chars) /\ Len(now \o one) = Len(now) + Len(one)
            /\ \A j \in 1 .. Len(one) : (now \o one)[Len(now) + j] = one[j]
        BY <3>1, ConcatIs
      <3> QED BY <3>2 DEF one
    <2> HIDE DEF text2
    <2>8. m + 1 \in 1 .. Len(text2) /\ text2[m + 1] = char
      <3>1. 1 \in 1 .. Len(One(char)) /\ Len(text2) = m + 1
        BY <1>2, <1>3, <2>7
      <3>2. text2[Len(now) + 1] = char
        BY <1>3, <2>7, <3>1
      <3> QED BY <1>2, <3>1, <3>2
    <2>9. Other(Append(parts, Lit(text2)), k, chars)
      BY <1>4, <2>7, <2>8
    <2> QED BY <2>1, <2>6, <2>9
  <1> QED BY <1>5, <1>6

-----------------------------------------------------------------------------
(* The parser on an expression, and on all parts.                          *)

LEMMA ExprRead ==
  ASSUME NEW Chars, NEW s \in Seq(Chars), NEW parts \in Seq(Parts(Chars)),
         NEW a \in Nat, NEW b, NEW chars \in Seq(Chars), ExprAt(s, a, b, chars)
  PROVE  \E i \in 1 .. Len(s) + 2, found \in Seq(Chars) :
             /\ DecodeTurn(s, Reading(a + 1, parts)) = Reading(i, Append(parts, Expr(found)))
             /\ Matching(chars) => i = b + 1 /\ found = chars
             /\ ~ Matching(chars) => Len(found) # Len(chars)
  <1> DEFINE e == Closing(s, a + 3)
             found == SubSeq(s, a + 3, e - 1)
  <1>1. /\ a + 3 \in 1 .. Len(s) + 1 /\ b \in a + 3 .. Len(s) /\ e \in a + 3 .. Len(s) + 1
        /\ e = b <=> Matching(chars)
    BY ClosingMatches
  <1>2. /\ Len(s) \in Nat /\ Len(chars) \in Nat /\ b = a + Len(chars) + 3 /\ b <= Len(s)
        /\ s[a + 1] = "lbrace" /\ s[a + 2] = "EXPR"
        /\ \A j \in 1 .. Len(chars) : s[a + 2 + j] = chars[j]
    BY DEF ExprAt
  <1>3. DecodeTurn(s, Reading(a + 1, parts)) = Reading(e + 1, Append(parts, Expr(found)))
    <2> DEFINE i == a + 1
    <2>1. i \in 1 .. Len(s) /\ i < Len(s) /\ i + 1 = a + 2 /\ i + 2 = a + 3
      BY <1>2
    <2> HIDE DEF i
    <2>2. s[i] = "lbrace" /\ s[i + 1] = "EXPR"
      BY <1>2, <2>1 DEF i
    <2>3. DecodeTurn(s, Reading(i, parts))
              = Reading(Closing(s, i + 2) + 1, Append(parts, Expr(SubSeq(s, i + 2, Closing(s, i + 2) - 1))))
      BY <2>1, <2>2, DecodeExpr
    <2> QED BY <2>1, <2>3 DEF i
  <1> HIDE DEF e
  <1>4. /\ found \in Seq(Chars) /\ Len(found) = ((e - 1) + 1) - (a + 3)
        /\ \A k \in 1 .. ((e - 1) + 1) - (a + 3) : found[k] = s[((a + 3) - 1) + k]
    <2>1. e - 1 \in (a + 3) - 1 .. Len(s)
      BY <1>1, <1>2
    <2> DEFINE i == a + 3
               j == e - 1
    <2>2. i \in 1 .. Len(s) + 1 /\ j \in i - 1 .. Len(s)
      BY <1>1, <2>1
    <2> HIDE DEF i, j
    <2>3. /\ SubSeq(s, i, j) \in Seq(Chars) /\ Len(SubSeq(s, i, j)) = (j + 1) - i
          /\ \A k \in 1 .. (j + 1) - i : SubSeq(s, i, j)[k] = s[(i - 1) + k]
      BY <2>2, SubSeqIs
    <2> QED BY <2>3 DEF i, j
  <1> HIDE DEF found
  <1>5. ((e - 1) + 1) - (a + 3) = e - (a + 3) /\ (a + 3) - 1 = a + 2
    BY <1>1
  <1>6. ASSUME Matching(chars)
        PROVE  e + 1 = b + 1 /\ found = chars
    <2>1. e = b
      BY <1>1, <1>6
    <2>2. e - (a + 3) = Len(chars)
      BY <1>2, <2>1
    <2>3. Len(found) = Len(chars) /\ \A k \in 1 .. Len(found) : found[k] = chars[k]
      BY <1>2, <1>4, <1>5, <2>2
    <2> QED BY <1>4, <2>1, <2>3, SameSequence
  <1>7. ASSUME ~ Matching(chars)
        PROVE  Len(found) # Len(chars)
    BY <1>1, <1>2, <1>4, <1>5, <1>7
  <1>8. e + 1 \in 1 .. Len(s) + 2
    BY <1>1, <1>2
  <1> QED BY <1>3, <1>4, <1>6, <1>7, <1>8

LEMMA SubSeqMore ==
  ASSUME NEW S, NEW s \in Seq(S), NEW k \in Nat, k + 1 <= Len(s)
  PROVE  /\ SubSeq(s, 1, k) \in Seq(S) /\ Len(SubSeq(s, 1, k)) = k
         /\ \A j \in 1 .. k : SubSeq(s, 1, k)[j] = s[j]
         /\ Append(SubSeq(s, 1, k), s[k + 1]) = SubSeq(s, 1, k + 1)
  <1>1. Len(s) \in Nat /\ s[k + 1] \in S
    OBVIOUS
  <1> DEFINE t == SubSeq(s, 1, k)
             u == SubSeq(s, 1, k + 1)
  <1>2. t \in Seq(S) /\ Len(t) = k /\ \A j \in 1 .. k : t[j] = s[j]
    <2>1. 1 \in 1 .. Len(s) + 1 /\ k \in 1 - 1 .. Len(s) /\ (k + 1) - 1 = k /\ \A j \in 1 .. k : (1 - 1) + j = j
      BY <1>1
    <2>2. /\ t \in Seq(S) /\ Len(t) = (k + 1) - 1
          /\ \A j \in 1 .. (k + 1) - 1 : t[j] = s[(1 - 1) + j]
      BY <2>1, SubSeqIs
    <2> HIDE DEF t
    <2> QED BY <2>1, <2>2
  <1>3. u \in Seq(S) /\ Len(u) = k + 1 /\ \A j \in 1 .. k + 1 : u[j] = s[j]
    <2> DEFINE m == k + 1
    <2>1. 1 \in 1 .. Len(s) + 1 /\ m \in 1 - 1 .. Len(s) /\ (m + 1) - 1 = m /\ \A j \in 1 .. m : (1 - 1) + j = j
      BY <1>1
    <2> HIDE DEF m
    <2>2. /\ SubSeq(s, 1, m) \in Seq(S) /\ Len(SubSeq(s, 1, m)) = (m + 1) - 1
          /\ \A j \in 1 .. (m + 1) - 1 : SubSeq(s, 1, m)[j] = s[(1 - 1) + j]
      BY <2>1, SubSeqIs
    <2>3. SubSeq(s, 1, m) \in Seq(S) /\ Len(SubSeq(s, 1, m)) = m /\ \A j \in 1 .. m : SubSeq(s, 1, m)[j] = s[j]
      BY <2>1, <2>2
    <2> QED BY <2>3 DEF m
  <1> HIDE DEF t, u
  <1> DEFINE v == Append(t, s[k + 1])
  <1>4. /\ v \in Seq(S) /\ Len(v) = Len(t) + 1
        /\ \A j \in 1 .. Len(t) : v[j] = t[j]
        /\ v[Len(t) + 1] = s[k + 1]
    BY <1>1, <1>2, AppendIs
  <1> HIDE DEF v
  <1>5. ASSUME NEW j \in 1 .. Len(v)
        PROVE  v[j] = u[j]
    <2>1. CASE j = k + 1
      BY <1>2, <1>3, <1>4, <2>1
    <2>2. CASE j # k + 1
      <3>1. j \in 1 .. k /\ j \in 1 .. k + 1
        BY <1>2, <1>4, <2>2
      <3> QED BY <1>2, <1>3, <1>4, <3>1
    <2> QED BY <2>1, <2>2
  <1>6. v = u
    <2>1. Len(v) = Len(u)
      BY <1>2, <1>3, <1>4
    <2> QED BY <1>3, <1>4, <1>5, <2>1, SameSequence
  <1> QED BY <1>2, <1>6 DEF t, u, v

\* Up to the first part that is not sturdy the parser is where the lexer was.
PartsSo(parts, k) == SubSeq(parts, 1, k)

LEMMA PartsSoIs ==
  ASSUME NEW Chars, NEW parts \in Seq(Parts(Chars)), WellParted(parts), NEW k \in Nat, k + 1 <= Len(parts)
  PROVE  /\ PartsSo(parts, k) \in Seq(Parts(Chars)) /\ Len(PartsSo(parts, k)) = k
         /\ Append(PartsSo(parts, k), parts[k + 1]) = PartsSo(parts, k + 1)
         /\ parts[k + 1][1] = "lit" => /\ PartsSo(parts, k) = <<>> \/ PartsSo(parts, k)[Len(PartsSo(parts, k))][1] = "expr"
                                       /\ Len(parts[k + 1][2]) \in Nat \ {0}
  <1> DEFINE so == PartsSo(parts, k)
  <1>1. /\ so \in Seq(Parts(Chars)) /\ Len(so) = k
        /\ \A j \in 1 .. k : so[j] = parts[j]
        /\ Append(so, parts[k + 1]) = PartsSo(parts, k + 1)
    BY SubSeqMore DEF PartsSo
  <1> HIDE DEF so
  <1>2. Len(parts) \in Nat /\ \A j \in 1 .. Len(parts) : parts[j] \in Parts(Chars)
    OBVIOUS
  <1>3. ASSUME parts[k + 1][1] = "lit"
        PROVE  /\ so = <<>> \/ so[Len(so)][1] = "expr"
               /\ Len(parts[k + 1][2]) \in Nat \ {0}
    <2>1. k + 1 \in 1 .. Len(parts)
      BY <1>2
    <2>2. parts[k + 1][2] # <<>>
      BY <1>3, <2>1 DEF WellParted
    <2>3. parts[k + 1][2] \in Seq(Chars)
      BY <1>2, <2>1, EveryPart
    <2>4. CASE k = 0
      <3>1. so = <<>>
        BY <1>1, <2>4
      <3> QED BY <2>2, <2>3, <3>1
    <2>5. CASE k # 0
      <3>1. k \in 1 .. Len(parts) /\ k < Len(parts) /\ k \in 1 .. k
        BY <1>2, <2>5
      <3>2. parts[k][1] # "lit"
        <4>1. parts[k][1] = "lit" => parts[k + 1][1] = "expr"
          BY <3>1 DEF WellParted
        <4> QED BY <1>3, <4>1
      <3>3. parts[k][1] = "expr"
        BY <1>2, <3>1, <3>2, EveryPart
      <3>4. so[Len(so)] = parts[k]
        BY <1>1, <3>1
      <3> QED BY <2>2, <2>3, <3>3, <3>4
    <2> QED BY <2>4, <2>5
  <1> QED BY <1>1, <1>3 DEF so

LEMMA PartsRead ==
  ASSUME NEW Chars, Marks \subseteq Chars, NEW s \in Seq(Chars), NEW V, Decoding(V, s, Chars),
         NEW parts \in Seq(Parts(Chars)), WellParted(parts), NEW ends, Laid(ends, s, parts),
         NEW n \in 0 .. Len(parts), \A k \in 1 .. n : Sturdy(parts[k])
  PROVE  Reading(ends[n] + 1, PartsSo(parts, n)) \in V
  <1>1. /\ Len(parts) \in Nat /\ Len(s) \in Nat
        /\ ends \in [0 .. Len(parts) -> Nat] /\ ends[0] = 0
        /\ \A k \in 1 .. Len(parts) : EncodedAt(s, ends[k - 1], ends[k], parts[k])
        /\ \A k \in 1 .. Len(parts) : parts[k] \in Parts(Chars)
    BY DEF Laid
  <1> DEFINE P == {k \in Nat : k <= n => Reading(ends[k] + 1, PartsSo(parts, k)) \in V}
  <1>2. 0 \in P
    <2>1. PartsSo(parts, 0) = <<>>
      BY DEF PartsSo
    <2>2. Reading(1, <<>>) \in V
      BY DEF Decoding
    <2> QED BY <1>1, <2>1, <2>2
  <1>3. ASSUME NEW k \in Nat, k \in P
        PROVE  k + 1 \in P
    <2> SUFFICES ASSUME k + 1 <= n
                 PROVE  Reading(ends[k + 1] + 1, PartsSo(parts, k + 1)) \in V
      OBVIOUS
    <2> DEFINE a == ends[k]
               b == ends[k + 1]
               part == parts[k + 1]
               chars == part[2]
               so == PartsSo(parts, k)
    <2>1. /\ k + 1 \in 1 .. Len(parts) /\ (k + 1) - 1 = k /\ k <= n /\ k \in 0 .. Len(parts)
          /\ k + 1 \in 0 .. Len(parts) /\ k + 1 <= Len(parts) /\ k + 1 \in 1 .. n
      BY <1>1
    <2>2. a \in Nat /\ b \in Nat /\ part \in Parts(Chars) /\ EncodedAt(s, a, b, part) /\ Sturdy(part)
      <3>1. EncodedAt(s, ends[(k + 1) - 1], ends[k + 1], parts[k + 1])
        BY <1>1, <2>1
      <3> QED BY <1>1, <2>1, <3>1
    <2>3. Reading(a + 1, so) \in V
      BY <1>3, <2>1
    <2>4. /\ so \in Seq(Parts(Chars)) /\ Append(so, part) = PartsSo(parts, k + 1)
          /\ part[1] = "lit" => (so = <<>> \/ so[Len(so)][1] = "expr") /\ Len(chars) \in Nat \ {0}
      BY <2>1, PartsSoIs
    <2> HIDE DEF a, b, part, so
    <2>5. part[1] \in {"lit", "expr"} /\ chars \in Seq(Chars)
      BY <2>2, EveryPart
    <2>6. CASE part[1] = "lit"
      <3>1. PICK at : CharsAt(at, s, a, chars) /\ at[Len(chars)] = b
        BY <2>2, <2>6 DEF EncodedAt, TextAt
      <3>2. chars[Len(chars)] # "back"
        BY <2>2, <2>6 DEF Sturdy, Last
      <3>3. part = Lit(chars)
        BY <2>2, <2>6, EveryPart
      <3> DEFINE m == Len(chars)
      <3>4. m \in 0 .. Len(chars) /\ (m = Len(chars) /\ m > 0 => chars[m] # "back") /\ m # 0
        BY <2>4, <2>6, <3>2
      <3>5. so = <<>> \/ so[Len(so)][1] = "expr"
        BY <2>4, <2>6
      <3>6. SubSeq(chars, 1, m) = chars
        BY <2>5, SubSeqFull
      <3> HIDE DEF m, chars
      <3>7. Reading(at[m] + 1, TextSo(so, chars, m)) \in V
        BY <2>2, <2>3, <2>4, <2>5, <3>1, <3>4, <3>5, TextRead
      <3>8. TextSo(so, chars, m) = Append(so, part)
        BY <3>3, <3>4, <3>6 DEF TextSo
      <3>9. at[m] = b
        BY <3>1 DEF m
      <3> QED BY <2>4, <3>7, <3>8, <3>9 DEF b
    <2>7. CASE part[1] = "expr"
      <3>1. ExprAt(s, a, b, chars) /\ Matching(chars)
        BY <2>2, <2>7 DEF EncodedAt, Sturdy
      <3>2. part = Expr(chars)
        BY <2>2, <2>7, EveryPart
      <3> HIDE DEF chars
      <3>3. DecodeTurn(s, Reading(a + 1, so)) = Reading(b + 1, Append(so, Expr(chars)))
        BY <2>2, <2>4, <2>5, <3>1, ExprRead
      <3>4. DecodeTurn(s, Reading(a + 1, so)) \in V
        BY <2>3 DEF Decoding
      <3> QED BY <2>4, <3>2, <3>3, <3>4 DEF b
    <2> QED BY <2>5, <2>6, <2>7
  <1> HIDE DEF P
  <1>4. Nat \subseteq P
    BY <1>2, <1>3, SetInduction
  <1>5. n \in P /\ n <= n
    BY <1>1, <1>4
  <1> QED BY <1>5 DEF P

-----------------------------------------------------------------------------
(* Which strings survive.                                                  *)

\* A part that is not what it was, in what is returned.
Spoiled(parts) == Decode(Encode(parts)) # parts

LEMMA NotForever ==
  ASSUME NEW Chars, NEW parts \in Seq(Parts(Chars)), parts # <<>>
  PROVE  parts # Forever
  <1>1. parts[1][1] \in {"lit", "expr"}
    <2>1. 1 \in 1 .. Len(parts) /\ parts[1] \in Parts(Chars)
      OBVIOUS
    <2> QED BY <2>1, EveryPart
  <1>2. Forever[1][1] = "forever"
    BY DEF Forever
  <1> QED BY <1>1, <1>2

LEMMA OtherSpoils ==
  ASSUME NEW Chars, NEW parts \in Seq(Parts(Chars)), parts # <<>>, NEW V, Decoding(V, Encode(parts), Chars),
         NEW x \in V, NEW k \in 1 .. Len(parts), Other(x.parts, k, parts[k][2])
  PROVE  Spoiled(parts)
  <1>1. Decode(Encode(parts)) = Forever \/ Other(Decode(Encode(parts)), k, parts[k][2])
    BY DEF Decoding
  <1>2. ~ Other(parts, k, parts[k][2])
    BY DEF Other
  <1> QED BY <1>1, <1>2, NotForever DEF Spoiled

\* An expression whose braces do not match is cut or goes on too far.
LEMMA ExprSpoils ==
  ASSUME NEW Chars, NEW parts \in Seq(Parts(Chars)), WellParted(parts),
         NEW V, Decoding(V, Encode(parts), Chars), Encode(parts) \in Seq(Chars),
         NEW k \in Nat, k + 1 <= Len(parts), NEW a \in Nat, NEW b,
         parts[k + 1][1] = "expr", ExprAt(Encode(parts), a, b, parts[k + 1][2]), ~ Matching(parts[k + 1][2]),
         Reading(a + 1, PartsSo(parts, k)) \in V
  PROVE  Spoiled(parts)
  <1> DEFINE s == Encode(parts)
             chars == parts[k + 1][2]
             so == PartsSo(parts, k)
  <1>1. k + 1 \in 1 .. Len(parts) /\ parts # <<>> /\ parts[k + 1] \in Parts(Chars)
    OBVIOUS
  <1>2. chars \in Seq(Chars)
    BY <1>1, EveryPart
  <1>3. so \in Seq(Parts(Chars)) /\ Len(so) = k
    BY PartsSoIs
  <1> HIDE DEF s, so, chars
  <1>4. /\ s \in Seq(Chars) /\ Decoding(V, s, Chars) /\ ExprAt(s, a, b, chars) /\ ~ Matching(chars)
        /\ Reading(a + 1, so) \in V
    BY DEF s, so, chars
  <1>5. PICK i \in 1 .. Len(s) + 2, found \in Seq(Chars) :
            /\ DecodeTurn(s, Reading(a + 1, so)) = Reading(i, Append(so, Expr(found)))
            /\ Len(found) # Len(chars)
    BY <1>2, <1>3, <1>4, ExprRead
  <1> DEFINE more == Append(so, Expr(found))
  <1>6. Expr(found) \in Parts(Chars) /\ Expr(found)[1] = "expr" /\ Expr(found)[2] = found
    BY PartIs
  <1>7. Len(more) = Len(so) + 1 /\ more[Len(so) + 1] = Expr(found)
    BY <1>3, <1>6, FrontAppend
  <1>8. Reading(i, more) \in V
    BY <1>4, <1>5 DEF Decoding
  <1> HIDE DEF more
  <1>9. k + 1 \in 1 .. Len(more) /\ more[k + 1] = Expr(found)
    BY <1>3, <1>7
  <1>10. Other(more, k + 1, chars)
    <2>1. more[k + 1][1] = "expr" /\ Len(more[k + 1][2]) # Len(chars)
      BY <1>5, <1>6, <1>9
    <2> QED BY <1>9, <2>1 DEF Other
  <1> DEFINE x == Reading(i, more)
             j == k + 1
  <1>11. x \in V /\ j \in 1 .. Len(parts) /\ Other(x.parts, j, parts[j][2]) /\ Decoding(V, Encode(parts), Chars)
    BY <1>1, <1>8, <1>10, ReadingIs DEF chars
  <1> HIDE DEF x, j
  <1> QED BY <1>1, <1>11, OtherSpoils

\* A text that ends with a backslash: the brace after it is read as text, or
\* nothing is after it.
LEMMA TextSpoils ==
  ASSUME NEW Chars, Marks \subseteq Chars, NEW parts \in Seq(Parts(Chars)), WellParted(parts),
         NEW V, Decoding(V, Encode(parts), Chars), Encode(parts) \in Seq(Chars),
         NEW ends, Laid(ends, Encode(parts), parts),
         NEW k \in Nat, k + 1 <= Len(parts), parts[k + 1][1] = "lit", Last(parts[k + 1][2]) = "back",
         Reading(ends[k] + 1, PartsSo(parts, k)) \in V
  PROVE  Spoiled(parts)
  <1> DEFINE s == Encode(parts)
             chars == parts[k + 1][2]
             so == PartsSo(parts, k)
             a == ends[k]
             b == ends[k + 1]
             n == Len(chars)
  <1>1. /\ k + 1 \in 1 .. Len(parts) /\ parts # <<>> /\ parts[k + 1] \in Parts(Chars) /\ Len(parts) \in Nat
        /\ k \in 0 .. Len(parts) /\ k + 1 \in 0 .. Len(parts) /\ (k + 1) - 1 = k
    OBVIOUS
  <1>2. chars \in Seq(Chars)
    BY <1>1, EveryPart
  <1>3. /\ so \in Seq(Parts(Chars)) /\ Len(so) = k
        /\ so = <<>> \/ so[Len(so)][1] = "expr"
        /\ n \in Nat \ {0}
    <2>1. /\ PartsSo(parts, k) \in Seq(Parts(Chars)) /\ Len(PartsSo(parts, k)) = k
          /\ parts[k + 1][1] = "lit" => /\ PartsSo(parts, k) = <<>> \/ PartsSo(parts, k)[Len(PartsSo(parts, k))][1] = "expr"
                                        /\ Len(parts[k + 1][2]) \in Nat \ {0}
      BY PartsSoIs
    <2> QED BY <2>1
  <1>4. a \in Nat /\ b \in Nat /\ ends[Len(parts)] = Len(s) /\ TextAt(s, a, b, chars)
    <2>1. EncodedAt(s, ends[(k + 1) - 1], ends[k + 1], parts[k + 1]) /\ ends \in [0 .. Len(parts) -> Nat]
          /\ ends[Len(parts)] = Len(s)
      BY <1>1 DEF Laid
    <2>2. EncodedAt(s, a, b, parts[k + 1])
      BY <1>1, <2>1
    <2>3. TextAt(s, a, b, chars)
      BY <2>2 DEF EncodedAt
    <2> QED BY <1>1, <2>1, <2>3
  <1>5. PICK at : CharsAt(at, s, a, chars) /\ at[n] = b
    BY <1>4 DEF TextAt
  <1>6. chars[n] = "back"
    BY DEF Last
  <1> HIDE DEF s, chars, so, a
  <1>7. s \in Seq(Chars) /\ Decoding(V, s, Chars) /\ Reading(a + 1, so) \in V /\ Len(s) \in Nat
    <2>1. s \in Seq(Chars) /\ Decoding(V, s, Chars) /\ Reading(a + 1, so) \in V
      BY DEF s, a, so
    <2> QED BY <2>1
  <1>8. PICK m \in Nat : n = m + 1
    <2>1. n - 1 \in Nat /\ n = (n - 1) + 1
      BY <1>3
    <2> QED BY <2>1
  <1>9. /\ m \in 0 .. Len(chars) /\ m # Len(chars) /\ m + 1 <= Len(chars) /\ m + 1 \in 1 .. Len(chars)
        /\ (m + 1) - 1 = m /\ chars[m + 1] = "back" /\ at[m + 1] = b
    BY <1>5, <1>6, <1>8
  <1> HIDE DEF n, b
  <1> DEFINE i == at[m] + 1
             text2 == TextSo(so, chars, m)
  <1>10. Reading(i, text2) \in V
    BY <1>2, <1>3, <1>4, <1>5, <1>7, <1>9, TextRead
  <1>11. text2 \in Seq(Parts(Chars))
    BY <1>2, <1>3, <1>9, TextSoIs
  <1>12. i = b /\ i \in 1 .. Len(s) /\ s[i] = "back"
    <2>1. at[m] \in Nat /\ CharAt(s, at[m], b, "back")
      <3>1. CharAt(s, at[(m + 1) - 1], at[m + 1], chars[m + 1]) /\ at[m] \in Nat
        BY <1>5, <1>9 DEF CharsAt
      <3> QED BY <1>9, <3>1
    <2>2. "back" \notin Braces
      BY DEF Braces
    <2>3. b <= Len(s) /\ b = at[m] + 1 /\ s[at[m] + 1] = "back"
      BY <2>1, <2>2 DEF CharAt
    <2> QED BY <1>7, <2>1, <2>3
  <1> HIDE DEF i, text2
  <1>13. CASE k + 1 = Len(parts)
    <2>1. i = Len(s)
      BY <1>4, <1>12, <1>13 DEF b
    <2>2. DecodeTurn(s, Reading(i, text2)) = Reading(i, text2)
      BY <1>7, <1>12, <2>1, DecodeStuck
    <2>3. Decode(s) = Result(s, Reading(i, text2))
      BY <1>7, <1>10, <2>2 DEF Decoding
    <2>4. ~ (Reading(i, text2).i > Len(s))
      BY <1>12, <1>7, ReadingIs
    <2>5. Decode(s) = Forever
      BY <2>3, <2>4 DEF Result
    <2> QED BY <1>1, <2>5, NotForever DEF s, Spoiled
  <1>14. CASE k + 1 # Len(parts)
    <2>1. k + 2 \in 1 .. Len(parts) /\ (k + 2) - 1 = k + 1 /\ k + 1 < Len(parts) /\ (k + 1) + 1 = k + 2
      BY <1>1, <1>14
    <2>2. parts[k + 2][1] = "expr"
      <3>1. parts[(k + 1) + 1][1] = "expr"
        BY <1>1, <2>1 DEF WellParted
      <3> QED BY <2>1, <3>1
    <2>3. ExprAt(s, b, ends[k + 2], parts[k + 2][2])
      <3>1. EncodedAt(s, ends[(k + 2) - 1], ends[k + 2], parts[k + 2])
        BY <2>1 DEF Laid, s
      <3>2. EncodedAt(s, b, ends[k + 2], parts[k + 2])
        BY <2>1, <3>1 DEF b
      <3> QED BY <2>2, <3>2 DEF EncodedAt
    <2>4. i < Len(s) /\ s[i + 1] = "lbrace"
      <3>1. parts[k + 2] \in Parts(Chars)
        BY <2>1
      <3>2. Len(parts[k + 2][2]) \in Nat
        BY <3>1, EveryPart
      <3>3. b + Len(parts[k + 2][2]) + 3 <= Len(s) /\ s[b + 1] = "lbrace"
        BY <2>3 DEF ExprAt
      <3> QED BY <1>4, <1>7, <1>12, <3>2, <3>3
    <2>5. s[i + 1] \in Braces /\ "lbrace" \in Chars /\ "lbrace" # chars[m + 1]
      BY <1>9, <2>4 DEF Braces, Marks
    <2> DEFINE char == "lbrace"
    <2>6. DecodeTurn(s, Reading(i, text2)) = Reading(i + 2, AddText(text2, One(char)))
      <3>1. DecodeTurn(s, Reading(i, text2)) = Reading(i + 2, AddText(text2, One(s[i + 1])))
        BY <1>7, <1>12, <2>4, <2>5, DecodeBrace
      <3> QED BY <2>4, <3>1
    <2>7. char \in Chars /\ char # chars[m + 1]
      BY <2>5
    <2> HIDE DEF char
    <2>8. Other(AddText(text2, One(char)), Len(so) + 1, chars)
      BY <1>2, <1>3, <1>9, <2>7, TextSoOther DEF text2
    <2> DEFINE x == Reading(i + 2, AddText(text2, One(char)))
               j == k + 1
    <2>9. x \in V
      BY <1>7, <1>10, <2>6 DEF Decoding
    <2>10. x.parts = AddText(text2, One(char))
      BY ReadingIs
    <2>11. j \in 1 .. Len(parts) /\ Other(x.parts, j, parts[j][2]) /\ Decoding(V, Encode(parts), Chars)
      BY <1>1, <1>3, <2>8, <2>10 DEF chars
    <2> HIDE DEF x, j
    <2> QED BY <1>1, <2>9, <2>11, OtherSpoils
  <1> QED BY <1>13, <1>14

(* The parser gets back what the lexer put in, exactly if every part is sturdy. *)
THEOREM PartsSurvive ==
  ASSUME NEW Chars, NEW parts \in Seq(Parts(Chars)), WellParted(parts), parts # <<>>
  PROVE  Survives(parts)
  <1> DEFINE Wide == Chars \cup Marks
             s == Encode(parts)
             n == Len(parts)
  <1>1. parts \in Seq(Parts(Wide)) /\ Marks \subseteq Wide
    <2>1. Parts(Chars) \subseteq Parts(Wide)
      <3>1. Seq(Chars) \subseteq Seq(Wide)
        <4>1. ASSUME NEW t \in Seq(Chars)
              PROVE  t \in Seq(Wide)
          BY SeqMonotonic
        <4> QED BY <4>1
      <3> QED BY <3>1 DEF Parts
    <2> QED BY <2>1, SeqMonotonic
  <1> HIDE DEF Wide, s
  <1>2. s \in Seq(Wide) /\ \E ends : Laid(ends, s, parts)
    BY <1>1, EncodeIs DEF s
  <1>3. PICK ends : Laid(ends, s, parts)
    BY <1>2
  <1>4. PICK V : Decoding(V, s, Wide)
    BY <1>2, DecodeRun
  <1>5. /\ n \in Nat \ {0} /\ DOMAIN parts = 1 .. n /\ Len(s) \in Nat
        /\ ends[n] = Len(s) /\ ends \in [0 .. n -> Nat]
        /\ \A k \in 1 .. n : parts[k] \in Parts(Wide)
    <2>1. n \in Nat \ {0} /\ DOMAIN parts = 1 .. n /\ \A k \in 1 .. n : parts[k] \in Parts(Wide)
      BY <1>1
    <2>2. Len(s) \in Nat
      BY <1>2
    <2> QED BY <1>3, <2>1, <2>2 DEF Laid
  <1>6. ASSUME \A k \in 1 .. n : Sturdy(parts[k])
        PROVE  Decode(s) = parts
    <2> DEFINE x == Reading(ends[n] + 1, PartsSo(parts, n))
    <2>1. x \in V
      <3>1. n \in 0 .. Len(parts)
        BY <1>5
      <3> QED BY <1>1, <1>2, <1>3, <1>4, <1>6, <3>1, PartsRead
    <2>2. PartsSo(parts, n) = parts
      BY <1>1, SubSeqFull DEF PartsSo
    <2>3. x.i = ends[n] + 1 /\ x.parts = parts
      BY <2>2, ReadingIs
    <2>4. ends[n] + 1 > Len(s)
      BY <1>5
    <2>5. DecodeTurn(s, x) = x
      BY <2>4, DecodeBeyond
    <2> HIDE DEF x
    <2>6. Decode(s) = Result(s, x)
      BY <1>4, <2>1, <2>5 DEF Decoding
    <2> QED BY <2>3, <2>4, <2>6 DEF Result
  <1>7. ASSUME ~ (\A k \in 1 .. n : Sturdy(parts[k]))
        PROVE  Decode(s) # parts
    <2> DEFINE B == {k \in 1 .. n : ~ Sturdy(parts[k])}
    <2>1. B \in SUBSET Nat /\ B # {}
      BY <1>5, <1>7
    <2>2. PICK l \in B : \A j \in B : l <= j
      BY <2>1, LeastNatural
    <2>3. PICK k \in Nat : l = k + 1
      <3>1. l \in 1 .. n
        BY <2>2
      <3>2. l - 1 \in Nat /\ l = (l - 1) + 1
        BY <1>5, <3>1
      <3> QED BY <3>2
    <2>4. k + 1 <= n /\ k \in 0 .. n /\ k + 1 \in 1 .. n /\ ~ Sturdy(parts[k + 1]) /\ (k + 1) - 1 = k
      BY <1>5, <2>2, <2>3
    <2>5. ASSUME NEW j \in 1 .. k
          PROVE  Sturdy(parts[j])
      <3>1. j \in 1 .. n /\ ~ (l <= j)
        BY <1>5, <2>3, <2>4
      <3> QED BY <2>2, <3>1
    <2> HIDE DEF B
    <2>6. Reading(ends[k] + 1, PartsSo(parts, k)) \in V
      BY <1>1, <1>2, <1>3, <1>4, <2>4, <2>5, PartsRead
    <2>7. parts[k + 1][1] \in {"lit", "expr"}
      BY <1>5, <2>4, EveryPart
    <2>8. Encode(parts) \in Seq(Wide) /\ Decoding(V, Encode(parts), Wide) /\ Laid(ends, Encode(parts), parts)
      BY <1>2, <1>3, <1>4 DEF s
    <2>9. CASE parts[k + 1][1] = "lit"
      <3>1. Last(parts[k + 1][2]) = "back"
        BY <2>4, <2>9 DEF Sturdy
      <3>2. Spoiled(parts)
        BY <1>1, <2>4, <2>6, <2>8, <2>9, <3>1, TextSpoils
      <3> QED BY <3>2 DEF Spoiled, s
    <2>10. CASE parts[k + 1][1] = "expr"
      <3> DEFINE a == ends[k]
                 b == ends[k + 1]
      <3>1. ~ Matching(parts[k + 1][2])
        BY <2>4, <2>10 DEF Sturdy
      <3>2. a \in Nat /\ ExprAt(Encode(parts), a, b, parts[k + 1][2])
        <4>1. EncodedAt(Encode(parts), ends[(k + 1) - 1], ends[k + 1], parts[k + 1])
          BY <2>4, <2>8 DEF Laid
        <4> QED BY <1>5, <2>4, <2>10, <4>1 DEF EncodedAt
      <3>3. Reading(a + 1, PartsSo(parts, k)) \in V
        BY <2>6
      <3> HIDE DEF a, b
      <3>4. Spoiled(parts)
        BY <1>1, <2>4, <2>8, <2>10, <3>1, <3>2, <3>3, ExprSpoils
      <3> QED BY <3>4 DEF Spoiled, s
    <2> QED BY <2>7, <2>9, <2>10
  <1>8. Decode(s) = parts <=> \A k \in 1 .. n : Sturdy(parts[k])
    BY <1>6, <1>7
  <1> QED BY <1>5, <1>8 DEF Survives, s

-----------------------------------------------------------------------------
(* The strings of a file.                                                  *)

\* Only the first and the last text may be empty.
Nearly(parts) ==
    \A k \in 1 .. Len(parts) : parts[k][1] = "lit" =>
        /\ k > 1 /\ k < Len(parts) => parts[k][2] # <<>>
        /\ k < Len(parts) => parts[k + 1][1] = "expr"

LEMMA TrimmedIs ==
  ASSUME NEW Chars, NEW parts \in Seq(Parts(Chars)), WellParted(parts)
  PROVE  Trimmed(parts) \in Seq(Parts(Chars)) /\ Nearly(Trimmed(parts))
  <1> DEFINE n == Len(parts)
             First(k) == IF k = 1 /\ parts[k][2][1] = "nl" THEN 2 ELSE 1
             End(k) == IF k = n /\ parts[k][2][Len(parts[k][2])] = "nl" THEN Len(parts[k][2]) - 1
                       ELSE Len(parts[k][2])
             rest(k) == SubSeq(parts[k][2], First(k), End(k))
             t == [k \in 1 .. n |-> IF parts[k][1] = "lit" THEN Lit(rest(k)) ELSE parts[k]]
  <1>1. /\ n \in Nat /\ DOMAIN parts = 1 .. n
        /\ \A k \in 1 .. n : parts[k] \in Parts(Chars)
    OBVIOUS
  <1>2. Trimmed(parts) = t
    BY <1>1 DEF Trimmed, Lit
  <1>3. ASSUME NEW k \in 1 .. n
        PROVE  /\ parts[k][2] \in Seq(Chars) /\ Len(parts[k][2]) \in Nat
               /\ rest(k) \in Seq(Chars)
    <2>1. parts[k][2] \in Seq(Chars)
      BY <1>1, EveryPart
    <2> DEFINE chars == parts[k][2]
               i == First(k)
               j == End(k)
    <2>2. Len(chars) \in Nat /\ \A m \in 1 .. Len(chars) : chars[m] \in Chars
      BY <2>1
    <2>3. i \in Int /\ j \in Int /\ i >= 1 /\ j <= Len(chars)
      BY <2>2
    <2> HIDE DEF chars, i, j
    <2>4. \A m \in i .. j : chars[m] \in Chars
      BY <2>2, <2>3
    <2>5. SubSeq(chars, i, j) \in Seq(Chars)
      BY <2>3, <2>4, SubSeqProperties
    <2> QED BY <2>1, <2>2, <2>5 DEF chars, i, j
  <1>4. ASSUME NEW k \in 1 .. n, k > 1, k < n
        PROVE  rest(k) = parts[k][2]
    <2>1. k # 1 /\ k # n
      <3>1. n \in Nat /\ k \in 1 .. n /\ k > 1 /\ k < n
        BY <1>1, <1>4
      <3> HIDE DEF n
      <3> QED BY <3>1
    <2>2. First(k) = 1
      BY <2>1
    <2>3. End(k) = Len(parts[k][2])
      BY <2>1
    <2> HIDE DEF First, End
    <2> QED BY <1>3, <2>2, <2>3, SubSeqFull
  <1> HIDE DEF rest
  <1>5. ASSUME NEW k \in 1 .. n
        PROVE  /\ t[k] \in Parts(Chars) /\ t[k][1] = parts[k][1]
               /\ parts[k][1] = "lit" => t[k][2] = rest(k)
    <2>1. Lit(rest(k)) \in Parts(Chars) /\ Lit(rest(k))[1] = "lit" /\ Lit(rest(k))[2] = rest(k)
      BY <1>3, PartIs
    <2>2. t[k] = IF parts[k][1] = "lit" THEN Lit(rest(k)) ELSE parts[k]
      OBVIOUS
    <2> HIDE DEF t
    <2> QED BY <1>1, <2>1, <2>2
  <1>6. t \in Seq(Parts(Chars)) /\ Len(t) = n
    <2>1. t \in [1 .. n -> Parts(Chars)]
      BY <1>5
    <2> HIDE DEF t
    <2> QED BY <1>1, <2>1, FunctionIsSequence
  <1> HIDE DEF t
  <1>7. ASSUME NEW k \in 1 .. Len(t), t[k][1] = "lit"
        PROVE  /\ k > 1 /\ k < Len(t) => t[k][2] # <<>>
               /\ k < Len(t) => t[k + 1][1] = "expr"
    <2>1. k \in 1 .. n /\ parts[k][1] = "lit" /\ t[k][2] = rest(k) /\ Len(t) = n
      BY <1>5, <1>6, <1>7
    <2>2. parts[k][2] # <<>> /\ (k < n => parts[k + 1][1] = "expr")
      BY <2>1 DEF WellParted
    <2>3. ASSUME k < n
          PROVE  t[k + 1][1] = "expr"
      <3>1. k + 1 \in 1 .. n
        BY <1>1, <2>1, <2>3
      <3> QED BY <1>5, <2>2, <2>3, <3>1
    <2> QED BY <1>4, <2>1, <2>2, <2>3
  <1>8. Nearly(t)
    BY <1>7 DEF Nearly
  <1> QED BY <1>2, <1>6, <1>8

LEMMA NotEmptyIs ==
  ASSUME NEW Chars, NEW parts \in Seq(Parts(Chars)), Nearly(parts), Interpolated(parts)
  PROVE  NotEmpty(parts) \in Seq(Parts(Chars)) /\ WellParted(NotEmpty(parts)) /\ NotEmpty(parts) # <<>>
  <1> DEFINE n == Len(parts)
             first == IF parts[1] = <<"lit", <<>>>> THEN 2 ELSE 1
             last == IF Last(parts) = <<"lit", <<>>>> THEN n - 1 ELSE n
             t == SubSeq(parts, first, last)
  <1>1. /\ n \in Nat /\ DOMAIN parts = 1 .. n
        /\ \A k \in 1 .. n : parts[k] \in Parts(Chars)
    OBVIOUS
  <1>2. NotEmpty(parts) = t
    BY DEF NotEmpty
  <1>3. PICK e \in 1 .. n : parts[e][1] = "expr"
    BY <1>1 DEF Interpolated
  <1>4. ASSUME NEW k \in 1 .. n
        PROVE  parts[k] = <<"lit", <<>>>> <=> parts[k][1] = "lit" /\ parts[k][2] = <<>>
    BY <1>1, EveryPart DEF Lit
  <1>5. 1 \in 1 .. n /\ n \in 1 .. n /\ Last(parts) = parts[n]
    BY <1>1 DEF Last
  <1>6. /\ first \in {1, 2} /\ (first = 1 => ~ (parts[1][1] = "lit" /\ parts[1][2] = <<>>))
        /\ (first = 2 => parts[1][1] = "lit")
    BY <1>4, <1>5
  <1>7. /\ last \in {n - 1, n} /\ (last = n => ~ (parts[n][1] = "lit" /\ parts[n][2] = <<>>))
        /\ (last = n - 1 => parts[n][1] = "lit")
    <2>1. n - 1 # n
      <3>1. n \in Nat
        BY <1>1
      <3> HIDE DEF n
      <3> QED BY <3>1
    <2>2. parts[n] = <<"lit", <<>>>> <=> parts[n][1] = "lit" /\ parts[n][2] = <<>>
      BY <1>4, <1>5
    <2> HIDE DEF n
    <2>3. CASE Last(parts) = <<"lit", <<>>>>
      <3>1. last = n - 1
        BY <2>3
      <3> HIDE DEF last
      <3> QED BY <1>5, <2>1, <2>2, <2>3, <3>1
    <2>4. CASE Last(parts) # <<"lit", <<>>>>
      <3>1. last = n
        BY <2>4
      <3> HIDE DEF last
      <3> QED BY <1>5, <2>1, <2>2, <2>4, <3>1
    <2> QED BY <2>3, <2>4
  <1> HIDE DEF first, last
  <1>8. first <= e /\ e <= last /\ first \in 1 .. n + 1 /\ last \in first - 1 .. n
    <2>1. e # 1 \/ first = 1
      BY <1>3, <1>6
    <2>2. e # n \/ last = n
      BY <1>1, <1>3, <1>7
    <2>3. n \in Nat /\ e \in 1 .. n /\ first \in {1, 2} /\ last \in {n - 1, n}
      BY <1>1, <1>3, <1>6, <1>7
    <2> HIDE DEF n
    <2>4. first <= e
      BY <2>1, <2>3
    <2>5. e <= last
      BY <2>2, <2>3
    <2> QED BY <2>3, <2>4, <2>5
  <1>9. /\ t \in Seq(Parts(Chars)) /\ Len(t) = (last + 1) - first
        /\ \A k \in 1 .. (last + 1) - first : t[k] = parts[(first - 1) + k]
    BY <1>8, SubSeqIs
  <1> HIDE DEF t, n
  <1>10. Len(t) \in Nat \ {0} /\ t # <<>>
    <2>1. Len(t) \in Nat \ {0}
      BY <1>1, <1>8, <1>9
    <2> QED BY <2>1
  <1>11. ASSUME NEW k \in 1 .. Len(t), t[k][1] = "lit"
         PROVE  t[k][2] # <<>> /\ (k < Len(t) => t[k + 1][1] = "expr")
    <2> DEFINE j == (first - 1) + k
    <2>1. /\ j \in 1 .. n /\ j >= first /\ j <= last /\ (j = 1 => first = 1) /\ (j = n => last = n)
          /\ (k < Len(t) => j < n /\ k + 1 \in 1 .. Len(t) /\ (first - 1) + (k + 1) = j + 1)
      BY <1>1, <1>8, <1>9
    <2>2. t[k] = parts[j]
      BY <1>9
    <2> HIDE DEF j
    <2>3. /\ j > 1 /\ j < n => parts[j][2] # <<>>
          /\ j < n => parts[j + 1][1] = "expr"
      BY <1>11, <2>1, <2>2 DEF Nearly, n
    <2>4. parts[j][2] # <<>>
      <3>1. j = 1 \/ j = n \/ (j > 1 /\ j < n)
        BY <1>1, <2>1
      <3> QED BY <1>6, <1>7, <1>11, <2>1, <2>2, <2>3, <3>1
    <2>5. ASSUME k < Len(t)
          PROVE  t[k + 1][1] = "expr"
      <3>1. t[k + 1] = parts[(first - 1) + (k + 1)]
        BY <1>9, <2>1, <2>5
      <3> QED BY <2>1, <2>3, <2>5, <3>1
    <2> QED BY <2>2, <2>4, <2>5
  <1>12. WellParted(t)
    BY <1>11 DEF WellParted
  <1> QED BY <1>2, <1>9, <1>10, <1>12

LEMMA StringsNearly ==
  ASSUME NEW Chars, NEW s \in Seq(Chars), NEW string \in Scan(s).strings
  PROVE  string \in Seq(Parts(Chars)) /\ Nearly(string)
  <1>1. PICK f : IsFileRun(f, s)
    BY FileRun
  <1>2. string \in StringsOf(s)
    <2>1. Len(s) \in 0 .. Len(s)
      OBVIOUS
    <2>2. Scan(s) \in FileStates(s)
      BY <1>1, <2>1 DEF IsFileRun
    <2> QED BY <2>2 DEF FileStates
  <1>3. PICK i \in 1 .. Len(s) : s[i] \in Quotes /\ StringAt(s, i).is = "closed" /\ string = StringAt(s, i).parts
    BY <1>2 DEF StringsOf
  <1> DEFINE count == IF Ahead(s, i, 3, s[i]) THEN 3 ELSE 1
             x == ScanString(s, i + count, s[i], count)
  <1>4. count \in {1, 3} /\ i + count \in 1 .. Len(s) + 1 /\ x.is = "closed"
    BY <1>3, StringAtIs
  <1>5. x \in StringStates(s, Chars, s[i], i + count)
    BY <1>4, ScanStringIs
  <1>6. /\ x \in [is : {"open", "closed", "broken"}, i : i + count .. Len(s) + 1, parts : Seq(Parts(Chars))]
        /\ x.parts \in Seq(Parts(Chars)) /\ WellParted(x.parts)
    BY <1>5 DEF StringStates
  <1>7. CASE Ahead(s, i, 3, s[i])
    <2>1. StringAt(s, i) = [x EXCEPT !.parts = IF x.is = "closed" THEN Trimmed(x.parts) ELSE x.parts]
      BY <1>7 DEF StringAt
    <2> HIDE DEF x
    <2>2. string = Trimmed(x.parts)
      BY <1>3, <1>4, <1>6, <2>1
    <2> QED BY <1>6, <2>2, TrimmedIs
  <1>8. CASE ~ Ahead(s, i, 3, s[i])
    <2>1. StringAt(s, i) = x
      BY <1>8 DEF StringAt
    <2> HIDE DEF x
    <2>2. string = x.parts
      BY <1>3, <2>1
    <2>3. Nearly(x.parts)
      BY <1>6 DEF Nearly, WellParted
    <2> QED BY <1>6, <2>2, <2>3
  <1> QED BY <1>7, <1>8

(* FStringPartsSurvive holds of every text that can be typed, whatever the keys. *)
THEOREM FStringPartsSurviveHolds == Spec => []FStringPartsSurvive
  <1>1. (\E S : text \in Seq(S)) => FStringPartsSurvive
    <2> SUFFICES ASSUME NEW Chars, text \in Seq(Chars), NEW string \in Scan(text).strings, Interpolated(string)
                 PROVE  Survives(NotEmpty(string))
      BY DEF FStringPartsSurvive
    <2>1. string \in Seq(Parts(Chars)) /\ Nearly(string)
      BY StringsNearly
    <2> DEFINE parts == NotEmpty(string)
    <2>2. parts \in Seq(Parts(Chars)) /\ WellParted(parts) /\ parts # <<>>
      BY <2>1, NotEmptyIs
    <2> HIDE DEF parts
    <2>3. Survives(parts)
      BY <2>2, PartsSurvive
    <2> QED BY <2>3 DEF parts
  <1> QED BY <1>1, IsText, PTL

=============================================================================
