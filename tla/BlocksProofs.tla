---------------------------- MODULE BlocksProofs ----------------------------
(***************************************************************************)
(* The Indent and Dedent tokens of every text are those of the columns of  *)
(* its lines, however long the text is and whatever its lexemes are        *)
(* (WellNested), and so are those of every text an editor shows            *)
(* (BlocksMatchColumns).                                                   *)
(*                                                                         *)
(* The lexer runs twice over a text: the cursor writes raw tokens, then    *)
(* the indent processor turns columns into blocks.  The proof follows the  *)
(* cursor turn by turn and the indent processor with it, token by token:   *)
(* CursorInv says what the cursor knows of the text before it, BlockInv    *)
(* what the stack of columns and the tokens written so far have to do with *)
(* the lines before it.                                                    *)
(***************************************************************************)
EXTENDS Blocks, FiniteSetTheorems, SequenceTheorems, WellFoundedInduction, TLAPS

-----------------------------------------------------------------------------
(* Numbers and sequences.                                                  *)

\* The order of the natural numbers is well founded.
LEMMA NatOrder == IsWellFoundedOn({p \in Nat \X Nat : p[1] < p[2]}, Nat)
  BY NatLessThanWellFounded DEF OpToRel

\* A nonempty set of natural numbers has a least member.
LEMMA LeastNatural ==
  ASSUME NEW P \in SUBSET Nat, P # {}
  PROVE  \E i \in P : \A j \in P : i <= j
  <1> DEFINE Less == {p \in Nat \X Nat : p[1] < p[2]}
  <1>1. IsWellFoundedOn(Less, Nat)
    BY NatOrder
  <1> HIDE DEF Less
  <1>2. PICK i \in P : \A j \in P : ~ (<<j, i>> \in Less)
    BY <1>1, WFMin
  <1>3. ASSUME NEW j \in P
        PROVE  i <= j
    <2>1. i \in Nat /\ j \in Nat
      OBVIOUS
    <2>2. j < i => <<j, i>> \in Less
      BY <2>1 DEF Less
    <2> QED BY <1>2, <2>1, <2>2
  <1> QED BY <1>3

\* A nonempty set of numbers up to n has a greatest member.
LEMMA GreatestNatural ==
  ASSUME NEW n \in Nat, NEW P \in SUBSET (0 .. n), P # {}
  PROVE  \E i \in P : \A j \in P : i >= j
  <1> DEFINE Q == {k \in Nat : n - k \in P}
  <1>1. Q \in SUBSET Nat /\ Q # {}
    <2>1. PICK p \in P : TRUE
      OBVIOUS
    <2>2. n - p \in Nat /\ n - (n - p) = p
      BY <2>1
    <2> QED BY <2>1, <2>2
  <1>2. PICK k \in Q : \A h \in Q : k <= h
    BY <1>1, LeastNatural
  <1>3. ASSUME NEW j \in P
        PROVE  n - k >= j
    <2>1. n - j \in Nat /\ n - (n - j) = j
      OBVIOUS
    <2>2. n - j \in Q
      BY <2>1
    <2> QED BY <1>2, <2>1, <2>2
  <1> QED BY <1>2, <1>3

\* A set that holds 0, and the successor of each of its numbers, holds them all.
LEMMA SetInduction ==
  ASSUME NEW P, 0 \in P, \A n \in Nat : n \in P => n + 1 \in P
  PROVE  Nat \subseteq P
  <1> SUFFICES ASSUME Nat \ P # {}
               PROVE  FALSE
    OBVIOUS
  <1>1. PICK i \in Nat \ P : \A j \in Nat \ P : i <= j
    BY LeastNatural
  <1>2. i # 0
    OBVIOUS
  <1>3. i - 1 \in Nat /\ i - 1 < i
    BY <1>2
  <1>4. i - 1 \in P
    BY <1>1, <1>3
  <1> QED BY <1>3, <1>4

\* One element more.
LEMMA AppendSeq ==
  ASSUME NEW S, NEW s \in Seq(S), NEW e \in S
  PROVE  /\ Append(s, e) \in Seq(S) /\ Len(Append(s, e)) = Len(s) + 1 /\ Len(s) \in Nat
         /\ DOMAIN Append(s, e) = 1 .. Len(s) + 1
         /\ \A k \in 1 .. Len(s) : Append(s, e)[k] = s[k]
         /\ Append(s, e)[Len(s) + 1] = e /\ Last(Append(s, e)) = e
  BY DEF Last

-----------------------------------------------------------------------------
(* Counting pieces and tokens.                                             *)

\* What is counted is a finite set.
LEMMA CountFinite ==
  ASSUME NEW kinds, NEW seq, NEW i \in Int, NEW j \in Int
  PROVE  /\ IsFiniteSet({h \in i .. j : Kind(seq[h]) \in kinds})
         /\ Count(kinds, seq, i, j) \in Nat
  <1>1. IsFiniteSet(i .. j) /\ {h \in i .. j : Kind(seq[h]) \in kinds} \in SUBSET (i .. j)
    BY FS_Interval
  <1> QED BY <1>1, FS_Subset, FS_CardinalityType DEF Count

\* There is nothing to count.
LEMMA CountNone ==
  ASSUME NEW kinds, NEW seq, NEW i \in Int, NEW j \in Int,
         \A h \in i .. j : Kind(seq[h]) \notin kinds
  PROVE  Count(kinds, seq, i, j) = 0
  <1>1. {h \in i .. j : Kind(seq[h]) \in kinds} = {}
    OBVIOUS
  <1> QED BY <1>1, FS_EmptySet DEF Count

\* Everything counts.
LEMMA CountAll ==
  ASSUME NEW kinds, NEW seq, NEW i \in Int, NEW j \in Int, i <= j + 1,
         \A h \in i .. j : Kind(seq[h]) \in kinds
  PROVE  Count(kinds, seq, i, j) = j + 1 - i
  <1>1. {h \in i .. j : Kind(seq[h]) \in kinds} = i .. j
    OBVIOUS
  <1>2. Count(kinds, seq, i, j) = Cardinality(i .. j)
    BY <1>1 DEF Count
  <1>3. Cardinality(i .. j) = IF i > j THEN 0 ELSE j - i + 1
    BY FS_Interval
  <1> QED BY <1>2, <1>3

\* Two stretches are counted one after the other.
LEMMA CountSplit ==
  ASSUME NEW kinds, NEW seq, NEW i \in Int, NEW j \in Int, NEW k \in Int, i <= j + 1, j <= k
  PROVE  Count(kinds, seq, i, k) = Count(kinds, seq, i, j) + Count(kinds, seq, j + 1, k)
  <1> DEFINE A == {h \in i .. j : Kind(seq[h]) \in kinds}
             B == {h \in j + 1 .. k : Kind(seq[h]) \in kinds}
  <1>0. j + 1 \in Int
    OBVIOUS
  <1>1. IsFiniteSet(A) /\ IsFiniteSet(B)
    BY <1>0, CountFinite
  <1>2. A \cap B = {} /\ {h \in i .. k : Kind(seq[h]) \in kinds} = A \cup B
    OBVIOUS
  <1>5. /\ Count(kinds, seq, i, k) = Cardinality(A \cup B)
        /\ Count(kinds, seq, i, j) = Cardinality(A) /\ Count(kinds, seq, j + 1, k) = Cardinality(B)
    BY <1>2 DEF Count
  <1>3. Cardinality(A \cup B) = Cardinality(A) + Cardinality(B) - Cardinality(A \cap B)
    BY <1>1, FS_Union
  <1>4. Cardinality(A) \in Nat /\ Cardinality(B) \in Nat /\ Cardinality(A \cap B) = 0
    BY <1>1, <1>2, FS_EmptySet, FS_CardinalityType
  <1> HIDE DEF A, B
  <1> QED BY <1>3, <1>4, <1>5

\* One more.
LEMMA CountNext ==
  ASSUME NEW kinds, NEW seq, NEW i \in Int, NEW j \in Int, i <= j + 1
  PROVE  Count(kinds, seq, i, j + 1)
            = Count(kinds, seq, i, j) + (IF Kind(seq[j + 1]) \in kinds THEN 1 ELSE 0)
  <1>1. Count(kinds, seq, i, j + 1) = Count(kinds, seq, i, j) + Count(kinds, seq, j + 1, j + 1)
    BY CountSplit
  <1>2. CASE Kind(seq[j + 1]) \in kinds
    <2>1. \A h \in j + 1 .. j + 1 : Kind(seq[h]) \in kinds
      BY <1>2
    <2>2. Count(kinds, seq, j + 1, j + 1) = 1
      BY <2>1, CountAll
    <2> QED BY <1>1, <1>2, <2>2
  <1>3. CASE Kind(seq[j + 1]) \notin kinds
    <2>1. \A h \in j + 1 .. j + 1 : Kind(seq[h]) \notin kinds
      BY <1>3
    <2>2. Count(kinds, seq, j + 1, j + 1) = 0
      BY <2>1, CountNone
    <2>3. Count(kinds, seq, i, j) \in Nat
      BY CountFinite
    <2> QED BY <1>1, <1>3, <2>2, <2>3
  <1> QED BY <1>2, <1>3

\* The count depends on what is counted alone.
LEMMA CountSame ==
  ASSUME NEW kinds, NEW seq, NEW other, NEW i \in Int, NEW j \in Int,
         \A h \in i .. j : Kind(seq[h]) \in kinds <=> Kind(other[h]) \in kinds
  PROVE  Count(kinds, seq, i, j) = Count(kinds, other, i, j)
  <1>1. {h \in i .. j : Kind(seq[h]) \in kinds} = {h \in i .. j : Kind(other[h]) \in kinds}
    OBVIOUS
  <1> QED BY <1>1 DEF Count

-----------------------------------------------------------------------------
(* What is before a piece: its line, the brackets that are open, whether    *)
(* its line goes on, the columns that are open.                             *)

IsText(src) ==
    /\ Len(src) \in Nat /\ DOMAIN src = 1 .. Len(src)
    /\ WellFormed(src) /\ Legible(src)

\* The brackets opened from j to h beyond those that are closed there.
Balance(src, j, h) == Count(Openers, src, j, h) - Count(Closers, src, j, h)

\* The depth d of the cursor before piece i: no stretch of the text up to
\* there opens more, and one that never closes what it has not opened opens
\* as many.
DepthIs(src, i, d) ==
    /\ d \in Nat
    /\ \A j \in 1 .. i - 1 : Balance(src, j, i - 1) <= d
    /\ d > 0 => \E j \in 1 .. i - 1 :
                   Balance(src, j, i - 1) = d /\ \A h \in j .. i - 1 : Balance(src, j, h) > 0

\* The balance is an integer, and changes by what is there.
LEMMA BalanceInt ==
  ASSUME NEW src, NEW i \in Int, NEW j \in Int
  PROVE  Balance(src, i, j) \in Int
  <1>1. Count(Openers, src, i, j) \in Nat /\ Count(Closers, src, i, j) \in Nat
    BY CountFinite
  <1> QED BY <1>1 DEF Balance

LEMMA BalanceNext ==
  ASSUME NEW src, NEW i \in Int, NEW j \in Int, i <= j + 1
  PROVE  Balance(src, i, j + 1) = Balance(src, i, j) + (IF Kind(src[j + 1]) \in Openers THEN 1
                                    ELSE IF Kind(src[j + 1]) \in Closers THEN -1 ELSE 0)
  <1>1. Kind(src[j + 1]) \in Openers => Kind(src[j + 1]) \notin Closers
    BY DEF Openers, Closers
  <1> DEFINE o == Kind(src[j + 1]) \in Openers
             c == Kind(src[j + 1]) \in Closers
  <1>2. Count(Openers, src, i, j + 1) = Count(Openers, src, i, j) + (IF o THEN 1 ELSE 0)
    BY CountNext
  <1>3. Count(Closers, src, i, j + 1) = Count(Closers, src, i, j) + (IF c THEN 1 ELSE 0)
    BY CountNext
  <1>4. Count(Openers, src, i, j) \in Nat /\ Count(Closers, src, i, j) \in Nat
    BY CountFinite
  <1> HIDE DEF o, c
  <1>5. Count(Openers, src, i, j + 1) - Count(Closers, src, i, j + 1)
           = (Count(Openers, src, i, j) - Count(Closers, src, i, j))
                + (IF o THEN 1 ELSE IF c THEN -1 ELSE 0)
    BY <1>1, <1>2, <1>3, <1>4 DEF o, c
  <1> QED BY <1>5 DEF Balance, o, c

LEMMA BalanceNone ==
  ASSUME NEW src, NEW i \in Int, NEW j \in Int, NEW k \in Int, i <= j + 1, j <= k,
         \A h \in j + 1 .. k : Kind(src[h]) \notin Openers \cup Closers
  PROVE  Balance(src, i, k) = Balance(src, i, j)
  <1>0. j + 1 \in Int
    OBVIOUS
  <1>1. Count(Openers, src, j + 1, k) = 0 /\ Count(Closers, src, j + 1, k) = 0
    BY <1>0, CountNone
  <1>2. /\ Count(Openers, src, i, k) = Count(Openers, src, i, j) + Count(Openers, src, j + 1, k)
        /\ Count(Closers, src, i, k) = Count(Closers, src, i, j) + Count(Closers, src, j + 1, k)
    BY CountSplit
  <1>3. Count(Openers, src, i, j) \in Nat /\ Count(Closers, src, i, j) \in Nat
    BY CountFinite
  <1> QED BY <1>1, <1>2, <1>3 DEF Balance

\* Nothing opens or closes in an empty stretch, or in one without brackets.
LEMMA BalanceEmpty ==
  ASSUME NEW src, NEW i \in Int, NEW j \in Int,
         \A h \in i .. j : Kind(src[h]) \notin Openers \cup Closers
  PROVE  Balance(src, i, j) = 0
  <1>1. Count(Openers, src, i, j) = 0 /\ Count(Closers, src, i, j) = 0
    BY CountNone
  <1> QED BY <1>1 DEF Balance

\* The depth is that of the brackets: it is 0 if and only if none is open.
LEMMA DepthNested ==
  ASSUME NEW src, NEW i \in Nat \ {0}, NEW d, DepthIs(src, i, d)
  PROVE  d > 0 <=> Nested(src, i)
  <1>1. ASSUME d > 0
        PROVE  Nested(src, i)
    <2>1. PICK j \in 1 .. i - 1 : \A h \in j .. i - 1 : Balance(src, j, h) > 0
      BY <1>1 DEF DepthIs
    <2>2. j \in Int /\ j \in j .. i - 1
      OBVIOUS
    <2>3. ASSUME NEW h \in j .. i - 1
          PROVE  Count(Openers, src, j, h) > Count(Closers, src, j, h)
      <3>1. h \in Int /\ Balance(src, j, h) > 0
        BY <2>1
      <3>2. Count(Openers, src, j, h) \in Nat /\ Count(Closers, src, j, h) \in Nat
        BY <2>2, <3>1, CountFinite
      <3> QED BY <3>1, <3>2 DEF Balance
    <2>4. Kind(src[j]) \in Openers
      <3> SUFFICES ASSUME Kind(src[j]) \notin Openers
                   PROVE  FALSE
        OBVIOUS
      <3>1. \A h \in j .. j : Kind(src[h]) \notin Openers
        OBVIOUS
      <3>2. Count(Openers, src, j, j) = 0
        BY <2>2, <3>1, CountNone
      <3>3. Count(Closers, src, j, j) \in Nat
        BY <2>2, CountFinite
      <3>4. Count(Openers, src, j, j) > Count(Closers, src, j, j)
        BY <2>2, <2>3
      <3> QED BY <3>2, <3>3, <3>4
    <2> QED BY <2>3, <2>4 DEF Nested
  <1>2. ASSUME Nested(src, i)
        PROVE  d > 0
    <2>1. PICK j \in 1 .. i - 1 : \A h \in j .. i - 1 : Count(Openers, src, j, h) > Count(Closers, src, j, h)
      BY <1>2 DEF Nested
    <2>2. i - 1 \in j .. i - 1 /\ j \in Int /\ i - 1 \in Int
      OBVIOUS
    <2>3. Count(Openers, src, j, i - 1) > Count(Closers, src, j, i - 1)
      BY <2>1, <2>2
    <2>4. Count(Openers, src, j, i - 1) \in Nat /\ Count(Closers, src, j, i - 1) \in Nat
      BY <2>2, CountFinite
    <2>5. Balance(src, j, i - 1) > 0 /\ Balance(src, j, i - 1) \in Int
      BY <2>3, <2>4 DEF Balance
    <2>6. Balance(src, j, i - 1) <= d /\ d \in Nat
      BY DEF DepthIs
    <2> QED BY <2>5, <2>6
  <1> QED BY <1>1, <1>2

\* Before the first piece the depth is 0.
LEMMA DepthFirst ==
  ASSUME NEW src
  PROVE  DepthIs(src, 1, 0)
  BY DEF DepthIs

\* Pieces that are no brackets leave the depth.
LEMMA DepthQuiet ==
  ASSUME NEW src, NEW i \in Nat \ {0}, NEW k \in Nat \ {0}, i <= k, NEW d, DepthIs(src, i, d),
         \A h \in i .. k - 1 : Kind(src[h]) \notin Openers \cup Closers
  PROVE  DepthIs(src, k, d)
  <1>0. d \in Nat
    BY DEF DepthIs
  <1>1. ASSUME NEW j \in 1 .. i - 1, NEW m \in i - 1 .. k - 1
        PROVE  Balance(src, j, m) = Balance(src, j, i - 1)
    <2>1. \A h \in (i - 1) + 1 .. m : Kind(src[h]) \notin Openers \cup Closers
      OBVIOUS
    <2>2. j \in Int /\ i - 1 \in Int /\ m \in Int /\ j <= i - 1 + 1 /\ i - 1 <= m
      OBVIOUS
    <2> QED BY <2>1, <2>2, BalanceNone
  <1>2. ASSUME NEW j \in 1 .. k - 1
        PROVE  Balance(src, j, k - 1) <= d
    <2>1. CASE j <= i - 1
      <3>1. j \in 1 .. i - 1 /\ k - 1 \in i - 1 .. k - 1
        BY <2>1
      <3> QED BY <1>1, <3>1 DEF DepthIs
    <2>2. CASE j >= i
      <3>1. \A h \in j .. k - 1 : Kind(src[h]) \notin Openers \cup Closers
        BY <2>2
      <3>2. Balance(src, j, k - 1) = 0
        BY <3>1, BalanceEmpty
      <3> QED BY <1>0, <3>2
    <2> QED BY <2>1, <2>2
  <1>3. ASSUME d > 0
        PROVE  \E j \in 1 .. k - 1 :
                  Balance(src, j, k - 1) = d /\ \A h \in j .. k - 1 : Balance(src, j, h) > 0
    <2>1. PICK j \in 1 .. i - 1 :
             Balance(src, j, i - 1) = d /\ \A h \in j .. i - 1 : Balance(src, j, h) > 0
      BY <1>3 DEF DepthIs
    <2>2. k - 1 \in i - 1 .. k - 1 /\ j \in 1 .. k - 1
      OBVIOUS
    <2>3. Balance(src, j, k - 1) = d
      BY <1>1, <2>1, <2>2
    <2>4. ASSUME NEW h \in j .. k - 1
          PROVE  Balance(src, j, h) > 0
      <3>1. CASE h \in j .. i - 1
        BY <2>1, <3>1
      <3>2. CASE h \in i - 1 .. k - 1
        BY <1>1, <1>3, <2>1, <3>2
      <3> QED BY <3>1, <3>2
    <2> QED BY <2>2, <2>3, <2>4
  <1> QED BY <1>0, <1>2, <1>3 DEF DepthIs

\* An opening bracket is one more.
LEMMA DepthOpener ==
  ASSUME NEW src, NEW i \in Nat \ {0}, NEW d, DepthIs(src, i, d), Kind(src[i]) \in Openers
  PROVE  DepthIs(src, i + 1, d + 1)
  <1>0. d \in Nat /\ i - 1 + 1 = i /\ i + 1 - 1 = i
    BY DEF DepthIs
  <1>1. ASSUME NEW j \in 1 .. i
        PROVE  Balance(src, j, i) = Balance(src, j, i - 1) + 1
    <2>1. j \in Int /\ i - 1 \in Int /\ j <= i - 1 + 1
      OBVIOUS
    <2>2. Balance(src, j, (i - 1) + 1) = Balance(src, j, i - 1)
             + (IF Kind(src[(i - 1) + 1]) \in Openers THEN 1
                ELSE IF Kind(src[(i - 1) + 1]) \in Closers THEN -1 ELSE 0)
      BY <2>1, BalanceNext
    <2> QED BY <1>0, <2>2
  <1>2. Balance(src, i, i - 1) = 0
    <2>1. \A h \in i .. i - 1 : Kind(src[h]) \notin Openers \cup Closers
      OBVIOUS
    <2> QED BY <2>1, BalanceEmpty
  <1>3. ASSUME NEW j \in 1 .. i
        PROVE  Balance(src, j, i) <= d + 1
    <2>1. CASE j = i
      BY <1>0, <1>1, <1>2, <2>1
    <2>2. CASE j # i
      <3>1. j \in 1 .. i - 1 /\ j \in Int /\ i - 1 \in Int
        BY <2>2
      <3>2. Balance(src, j, i - 1) <= d /\ Balance(src, j, i - 1) \in Int
        BY <3>1, BalanceInt DEF DepthIs
      <3> QED BY <1>0, <1>1, <3>2
    <2> QED BY <2>1, <2>2
  <1>4. \E j \in 1 .. i : Balance(src, j, i) = d + 1 /\ \A h \in j .. i : Balance(src, j, h) > 0
    <2>1. CASE d = 0
      <3>1. i \in 1 .. i /\ Balance(src, i, i) = 1 /\ \A h \in i .. i : h = i
        BY <1>1, <1>2
      <3> QED BY <2>1, <3>1
    <2>2. CASE d > 0
      <3>1. PICK j \in 1 .. i - 1 :
               Balance(src, j, i - 1) = d /\ \A h \in j .. i - 1 : Balance(src, j, h) > 0
        BY <2>2 DEF DepthIs
      <3>2. j \in 1 .. i /\ Balance(src, j, i) = d + 1
        BY <1>1, <3>1
      <3>3. \A h \in j .. i : h = i \/ h \in j .. i - 1
        OBVIOUS
      <3>4. d + 1 > 0
        BY <1>0
      <3> QED BY <3>1, <3>2, <3>3, <3>4
    <2> QED BY <1>0, <2>1, <2>2
  <1> QED BY <1>0, <1>3, <1>4 DEF DepthIs

\* A closing bracket is one less, if there is one.
LEMMA DepthCloser ==
  ASSUME NEW src, NEW i \in Nat \ {0}, NEW d, DepthIs(src, i, d), Kind(src[i]) \in Closers
  PROVE  DepthIs(src, i + 1, IF d = 0 THEN 0 ELSE d - 1)
  <1>0. d \in Nat /\ i - 1 + 1 = i /\ i + 1 - 1 = i /\ Kind(src[i]) \notin Openers
    <2>1. Kind(src[i]) \notin Openers
      BY DEF Openers, Closers
    <2> QED BY <2>1 DEF DepthIs
  <1>1. ASSUME NEW j \in 1 .. i
        PROVE  Balance(src, j, i) = Balance(src, j, i - 1) - 1
    <2>1. j \in Int /\ i - 1 \in Int /\ j <= i - 1 + 1
      OBVIOUS
    <2>2. Balance(src, j, (i - 1) + 1) = Balance(src, j, i - 1)
             + (IF Kind(src[(i - 1) + 1]) \in Openers THEN 1
                ELSE IF Kind(src[(i - 1) + 1]) \in Closers THEN -1 ELSE 0)
      BY <2>1, BalanceNext
    <2>3. Balance(src, j, i - 1) \in Int
      BY <2>1, BalanceInt
    <2> QED BY <1>0, <2>2, <2>3
  <1>2. Balance(src, i, i - 1) = 0
    <2>1. \A h \in i .. i - 1 : Kind(src[h]) \notin Openers \cup Closers
      OBVIOUS
    <2> QED BY <2>1, BalanceEmpty
  <1>3. ASSUME NEW j \in 1 .. i
        PROVE  Balance(src, j, i) <= d - 1 \/ Balance(src, j, i) = -1
    <2>1. CASE j = i
      BY <1>0, <1>1, <1>2, <2>1
    <2>2. CASE j # i
      <3>1. j \in 1 .. i - 1 /\ j \in Int /\ i - 1 \in Int
        BY <2>2
      <3>2. Balance(src, j, i - 1) <= d /\ Balance(src, j, i - 1) \in Int
        BY <3>1, BalanceInt DEF DepthIs
      <3> QED BY <1>0, <1>1, <3>2
    <2> QED BY <2>1, <2>2
  <1>4. CASE d = 0 \/ d = 1
    <2>1. \A j \in 1 .. i : Balance(src, j, i) <= 0
      <3>1. ASSUME NEW j \in 1 .. i
            PROVE  Balance(src, j, i) <= 0
        <4>1. Balance(src, j, i) \in Int
          BY BalanceInt
        <4> QED BY <1>3, <1>4, <4>1
      <3> QED BY <3>1
    <2> QED BY <1>0, <1>4, <2>1 DEF DepthIs
  <1>5. CASE d > 1
    <2>1. PICK j \in 1 .. i - 1 :
             Balance(src, j, i - 1) = d /\ \A h \in j .. i - 1 : Balance(src, j, h) > 0
      BY <1>5 DEF DepthIs
    <2>2. j \in 1 .. i /\ Balance(src, j, i) = d - 1
      BY <1>1, <2>1
    <2>3. \A h \in j .. i : h = i \/ h \in j .. i - 1
      OBVIOUS
    <2>4. d - 1 > 0 /\ d - 1 \in Nat /\ -1 <= d - 1
      BY <1>0, <1>5
    <2>5. \A h \in j .. i : Balance(src, j, h) > 0
      BY <2>1, <2>2, <2>3, <2>4
    <2>6. \A m \in 1 .. i : Balance(src, m, i) <= d - 1
      BY <1>3, <2>4
    <2> QED BY <1>0, <1>5, <2>2, <2>4, <2>5, <2>6 DEF DepthIs
  <1> QED BY <1>0, <1>4, <1>5

\* A line goes on in the next one after pieces that are no lexemes, and after
\* a lexeme that continues it.
LEMMA GoesOnQuiet ==
  ASSUME NEW src, NEW i \in Nat \ {0}, NEW k \in Nat \ {0}, i <= k,
         \A h \in i .. k - 1 : ~Lexeme(src[h])
  PROVE  GoesOn(src, k) <=> GoesOn(src, i)
  <1>1. ASSUME NEW h, Kind(src[h]) \in ContinuationOps
        PROVE  Lexeme(src[h])
    BY <1>1 DEF ContinuationOps, Lexeme, LineEnds
  <1>2. ASSUME GoesOn(src, k)
        PROVE  GoesOn(src, i)
    <2>1. PICK j \in 1 .. k - 1 :
             Kind(src[j]) \in ContinuationOps /\ \A h \in j + 1 .. k - 1 : ~Lexeme(src[h])
      BY <1>2 DEF GoesOn
    <2>2. ~(j \in i .. k - 1)
      BY <1>1, <2>1
    <2>3. j \in 1 .. i - 1 /\ \A h \in j + 1 .. i - 1 : h \in j + 1 .. k - 1
      BY <2>2
    <2> QED BY <2>1, <2>3 DEF GoesOn
  <1>3. ASSUME GoesOn(src, i)
        PROVE  GoesOn(src, k)
    <2>1. PICK j \in 1 .. i - 1 :
             Kind(src[j]) \in ContinuationOps /\ \A h \in j + 1 .. i - 1 : ~Lexeme(src[h])
      BY <1>3 DEF GoesOn
    <2>2. j \in 1 .. k - 1 /\ \A h \in j + 1 .. k - 1 : h \in j + 1 .. i - 1 \/ h \in i .. k - 1
      OBVIOUS
    <2> QED BY <2>1, <2>2 DEF GoesOn
  <1> QED BY <1>2, <1>3

LEMMA GoesOnLexeme ==
  ASSUME NEW src, NEW i \in Nat \ {0}, Lexeme(src[i])
  PROVE  GoesOn(src, i + 1) <=> Kind(src[i]) \in ContinuationOps
  <1>1. i + 1 - 1 = i
    OBVIOUS
  <1>2. ASSUME GoesOn(src, i + 1)
        PROVE  Kind(src[i]) \in ContinuationOps
    <2>1. PICK j \in 1 .. i :
             Kind(src[j]) \in ContinuationOps /\ \A h \in j + 1 .. i : ~Lexeme(src[h])
      BY <1>1, <1>2 DEF GoesOn
    <2>2. j = i
      <3>1. ~(i \in j + 1 .. i)
        BY <2>1
      <3> QED BY <3>1
    <2> QED BY <2>1, <2>2
  <1>3. ASSUME Kind(src[i]) \in ContinuationOps
        PROVE  GoesOn(src, i + 1)
    <2>1. i \in 1 .. i /\ \A h \in i + 1 .. i : ~Lexeme(src[h])
      OBVIOUS
    <2> QED BY <1>1, <1>3, <2>1 DEF GoesOn
  <1> QED BY <1>2, <1>3

\* The line of a piece is that of an earlier one and the line ends between.
LEMMA LineLater ==
  ASSUME NEW src, NEW i \in Nat \ {0}, NEW k \in Nat \ {0}, i <= k
  PROVE  /\ LineOfPiece(src, i) \in Nat
         /\ LineOfPiece(src, k) = LineOfPiece(src, i) + Count(LineEnds, src, i, k - 1)
  <1>1. 1 \in Int /\ i - 1 \in Int /\ k - 1 \in Int /\ 1 <= i - 1 + 1 /\ i - 1 <= k - 1 /\ i - 1 + 1 = i
    OBVIOUS
  <1>2. Count(LineEnds, src, 1, k - 1)
           = Count(LineEnds, src, 1, i - 1) + Count(LineEnds, src, (i - 1) + 1, k - 1)
    BY <1>1, CountSplit
  <1>3. Count(LineEnds, src, 1, i - 1) \in Nat /\ Count(LineEnds, src, i, k - 1) \in Nat
    <2>1. i \in Int
      OBVIOUS
    <2> QED BY <1>1, <2>1, CountFinite
  <1> QED BY <1>1, <1>2, <1>3 DEF LineOfPiece

\* The first piece of a line has a greater line number than any piece before.
LEMMA LineNumbers ==
  ASSUME NEW src, NEW i \in Nat \ {0}, NEW k \in Nat \ {0}, i < k, LineStart(src, k)
  PROVE  LineOfPiece(src, i) < LineOfPiece(src, k)
  <1>1. LineOfPiece(src, i) \in Nat /\ LineOfPiece(src, k) = LineOfPiece(src, i) + Count(LineEnds, src, i, k - 1)
    BY LineLater
  <1>2. i \in Int /\ k - 2 \in Int /\ i <= (k - 2) + 1 /\ (k - 2) + 1 = k - 1
    OBVIOUS
  <1>3. Kind(src[k - 1]) \in LineEnds
    BY DEF LineStart
  <1>4. Count(LineEnds, src, i, (k - 2) + 1) = Count(LineEnds, src, i, k - 2)
           + (IF Kind(src[(k - 2) + 1]) \in LineEnds THEN 1 ELSE 0)
    BY <1>2, CountNext
  <1>5. Count(LineEnds, src, i, k - 2) \in Nat
    BY <1>2, CountFinite
  <1> QED BY <1>1, <1>2, <1>3, <1>4, <1>5

\* A line that counts starts at one of the pieces, and its column is known.
LEMMA LinesAre ==
  ASSUME NEW src, IsText(src)
  PROVE  Lines(src) \subseteq 1 .. Len(src) /\ \A l \in Lines(src) : Column(src, l) \in Nat
  <1>1. \A l \in Lines(src) : l \in DOMAIN src
    BY DEF Lines
  <1>2. ASSUME NEW l \in Lines(src)
        PROVE  Column(src, l) \in Nat
    <2>1. Kind(src[l]) = "sp" => Text(src[l]) \in Nat
      BY <1>1 DEF IsText, WellFormed
    <2> QED BY <2>1 DEF Column
  <1> QED BY <1>1, <1>2 DEF IsText

\* Open columns are numbers, those of the lines before.
LEMMA OpenNat ==
  ASSUME NEW src, IsText(src), NEW i
  PROVE  OpenBefore(src, i) \in SUBSET Nat
  BY LinesAre DEF OpenBefore

\* Pieces at which no line starts leave the open columns.
LEMMA OpenQuiet ==
  ASSUME NEW src, IsText(src), NEW i \in Nat, NEW k \in Nat, i <= k,
         \A h \in i .. k - 1 : h \notin Lines(src)
  PROVE  OpenBefore(src, k) = OpenBefore(src, i)
  <1> DEFINE Still(j) == {m \in Lines(src) :
                m < j /\ \A h \in Lines(src) : h \in m .. j - 1 => Column(src, h) >= Column(src, m)}
  <1>1. \A m \in Lines(src) : m \in Nat /\ (m < k <=> m < i)
    BY LinesAre DEF IsText
  <1>2. \A m \in Lines(src), h \in Lines(src) : h \in m .. k - 1 <=> h \in m .. i - 1
    BY <1>1
  <1>3. Still(k) = Still(i)
    BY <1>1, <1>2
  <1>4. OpenBefore(src, k) = {Column(src, l) : l \in Still(k)}
    BY DEF OpenBefore
  <1>5. OpenBefore(src, i) = {Column(src, l) : l \in Still(i)}
    BY DEF OpenBefore
  <1> QED BY <1>3, <1>4, <1>5

\* A line closes the columns right of its own, and opens its own.
LEMMA OpenLine ==
  ASSUME NEW src, IsText(src), NEW l \in Lines(src)
  PROVE  OpenBefore(src, l + 1)
            = {x \in OpenBefore(src, l) : x <= Column(src, l)} \cup {Column(src, l)}
  <1> DEFINE Still(j) == {m \in Lines(src) :
                m < j /\ \A h \in Lines(src) : h \in m .. j - 1 => Column(src, h) >= Column(src, m)}
  <1>0. l \in Nat /\ Column(src, l) \in Nat /\ \A m \in Lines(src) : m \in Nat /\ Column(src, m) \in Nat
    BY LinesAre DEF IsText
  <1>1. OpenBefore(src, l) = {Column(src, m) : m \in Still(l)}
    BY DEF OpenBefore
  <1>2. OpenBefore(src, l + 1) = {Column(src, m) : m \in Still(l + 1)}
    BY DEF OpenBefore
  <1>3. l \in Still(l + 1)
    <2>1. \A h \in Lines(src) : h \in l .. l + 1 - 1 => h = l
      BY <1>0
    <2> QED BY <1>0, <2>1
  <1>4. ASSUME NEW m \in Still(l + 1), m # l
        PROVE  m \in Still(l) /\ Column(src, m) <= Column(src, l)
    <2>1. m \in Nat /\ m < l /\ l \in m .. l + 1 - 1
      BY <1>0, <1>4
    <2>2. \A h \in Lines(src) : h \in m .. l - 1 => h \in m .. l + 1 - 1
      BY <1>0
    <2>3. Column(src, l) >= Column(src, m) /\ Column(src, m) \in Nat
      BY <1>0, <2>1
    <2> QED BY <1>0, <2>1, <2>2, <2>3
  <1>5. ASSUME NEW m \in Still(l), Column(src, m) <= Column(src, l)
        PROVE  m \in Still(l + 1)
    <2>1. \A h \in Lines(src) : h \in m .. l + 1 - 1 => h = l \/ h \in m .. l - 1
      BY <1>0
    <2> QED BY <1>0, <1>5, <2>1
  <1> HIDE DEF Still
  <1> QED BY <1>1, <1>2, <1>3, <1>4, <1>5

-----------------------------------------------------------------------------
(* The two runs over a text, as recurrences that have a solution.          *)

IsScan(turn, c, n) == turn = [k \in 0 .. n |-> IF k = 0 THEN c ELSE Turn(turn[k - 1])]
IsIndent(step, raw, n) ==
    step = [k \in 0 .. n |-> IF k = 0 THEN NewIndents ELSE IndentNext(step[k - 1], raw[k])]

LEMMA ScanExists ==
  ASSUME NEW c, NEW n \in Nat
  PROVE  \E turn : IsScan(turn, c, n)
  <1> DEFINE F(f, k) == IF k = 0 THEN c ELSE Turn(f[k - 1])
             P == {m \in Nat : \E f : IsScan(f, c, m)}
  <1>1. 0 \in P
    <2> DEFINE f == [k \in 0 .. 0 |-> c]
    <2>1. IsScan(f, c, 0)
      BY DEF IsScan
    <2> QED BY <2>1
  <1>2. ASSUME NEW m \in Nat, m \in P
        PROVE  m + 1 \in P
    <2>1. PICK f : IsScan(f, c, m)
      BY <1>2
    <2> DEFINE g == [k \in 0 .. (m + 1) |-> F(f, k)]
    <2>2. \A k \in 0 .. m : f[k] = g[k]
      <3>1. \A k \in 0 .. m : k \in 0 .. (m + 1)
        OBVIOUS
      <3>2. \A k \in 0 .. m : f[k] = F(f, k)
        BY <2>1 DEF IsScan
      <3> HIDE DEF F
      <3> QED BY <3>1, <3>2
    <2> HIDE DEF g
    <2>3. \A k \in 0 .. (m + 1) : F(f, k) = F(g, k)
      <3>1. \A k \in 0 .. (m + 1) : k # 0 => k - 1 \in 0 .. m
        OBVIOUS
      <3> QED BY <2>2, <3>1
    <2>4. g = [k \in 0 .. (m + 1) |-> F(g, k)]
      <3> HIDE DEF F
      <3> QED BY <2>3 DEF g
    <2>5. IsScan(g, c, m + 1)
      BY <2>4 DEF IsScan
    <2> QED BY <2>5
  <1> HIDE DEF P
  <1>3. Nat \subseteq P
    BY <1>1, <1>2, SetInduction
  <1> QED BY <1>3 DEF P

LEMMA IndentExists ==
  ASSUME NEW raw, NEW n \in Nat
  PROVE  \E step : IsIndent(step, raw, n)
  <1> DEFINE F(f, k) == IF k = 0 THEN NewIndents ELSE IndentNext(f[k - 1], raw[k])
             P == {m \in Nat : \E f : IsIndent(f, raw, m)}
  <1>1. 0 \in P
    <2> DEFINE f == [k \in 0 .. 0 |-> NewIndents]
    <2>1. IsIndent(f, raw, 0)
      BY DEF IsIndent
    <2> QED BY <2>1
  <1>2. ASSUME NEW m \in Nat, m \in P
        PROVE  m + 1 \in P
    <2>1. PICK f : IsIndent(f, raw, m)
      BY <1>2
    <2> DEFINE g == [k \in 0 .. (m + 1) |-> F(f, k)]
    <2>2. \A k \in 0 .. m : f[k] = g[k]
      <3>1. \A k \in 0 .. m : k \in 0 .. (m + 1)
        OBVIOUS
      <3>2. \A k \in 0 .. m : f[k] = F(f, k)
        BY <2>1 DEF IsIndent
      <3> HIDE DEF F
      <3> QED BY <3>1, <3>2
    <2> HIDE DEF g
    <2>3. \A k \in 0 .. (m + 1) : F(f, k) = F(g, k)
      <3>1. \A k \in 0 .. (m + 1) : k # 0 => k - 1 \in 0 .. m
        OBVIOUS
      <3> QED BY <2>2, <3>1
    <2>4. g = [k \in 0 .. (m + 1) |-> F(g, k)]
      <3> HIDE DEF F
      <3> QED BY <2>3 DEF g
    <2>5. IsIndent(g, raw, m + 1)
      BY <2>4 DEF IsIndent
    <2> QED BY <2>5
  <1> HIDE DEF P
  <1>3. Nat \subseteq P
    BY <1>1, <1>2, SetInduction
  <1> QED BY <1>3 DEF P

\* The cursor turns as often as there are pieces.
LEMMA ScanTurns ==
  ASSUME NEW c, Len(c.src) \in Nat
  PROVE  \E turn : /\ turn[0] = c
                   /\ \A n \in Nat : n < Len(c.src) => turn[n + 1] = Turn(turn[n])
                   /\ ScanAll(c) = turn[Len(c.src)]
  <1> DEFINE W(f) == f = [k \in 0 .. Len(c.src) |-> IF k = 0 THEN c ELSE Turn(f[k - 1])]
             last == (CHOOSE f : W(f))[Len(c.src)]
  <1>1. ScanAll(c) = last
    BY DEF ScanAll
  <1>2. PICK f : W(f) /\ last = f[Len(c.src)]
    <2>1. \E f : IsScan(f, c, Len(c.src))
      BY ScanExists
    <2>2. \E f : W(f)
      BY <2>1 DEF IsScan
    <2> HIDE DEF W
    <2> QED BY <2>2
  <1> HIDE DEF last
  <1>3. f[0] = c
    BY <1>2
  <1>4. ASSUME NEW n \in Nat, n < Len(c.src)
        PROVE  f[n + 1] = Turn(f[n])
    <2>1. n + 1 \in 0 .. Len(c.src) /\ n + 1 # 0 /\ n + 1 - 1 = n
      BY <1>4
    <2> QED BY <1>2, <2>1
  <1> QED BY <1>1, <1>2, <1>3, <1>4

\* The indent processor steps once for each token.
LEMMA IndentSteps ==
  ASSUME NEW raw, Len(raw) \in Nat
  PROVE  \E step : /\ step[0] = NewIndents
                   /\ \A n \in Nat : n < Len(raw) => step[n + 1] = IndentNext(step[n], raw[n + 1])
                   /\ IndentAll(raw) = step[Len(raw)]
  <1> DEFINE W(f) == f = [k \in 0 .. Len(raw) |->
                            IF k = 0 THEN NewIndents ELSE IndentNext(f[k - 1], raw[k])]
             last == (CHOOSE f : W(f))[Len(raw)]
  <1>1. IndentAll(raw) = last
    BY DEF IndentAll
  <1>2. PICK f : W(f) /\ last = f[Len(raw)]
    <2>1. \E f : IsIndent(f, raw, Len(raw))
      BY IndentExists
    <2>2. \E f : W(f)
      BY <2>1 DEF IsIndent
    <2> HIDE DEF W
    <2> QED BY <2>2
  <1> HIDE DEF last
  <1>3. f[0] = NewIndents
    BY <1>2
  <1>4. ASSUME NEW n \in Nat, n < Len(raw)
        PROVE  f[n + 1] = IndentNext(f[n], raw[n + 1])
    <2>1. n + 1 \in 0 .. Len(raw) /\ n + 1 # 0 /\ n + 1 - 1 = n
      BY <1>4
    <2> QED BY <1>2, <2>1
  <1> QED BY <1>1, <1>2, <1>3, <1>4

\* Without tokens there are no blocks, and a further token is a further step.
LEMMA IndentEmpty == IndentAll(<<>>) = NewIndents
  <1>1. Len(<<>>) = 0
    OBVIOUS
  <1> QED BY <1>1, IndentSteps

LEMMA IndentAppend ==
  ASSUME NEW S, NEW raw \in Seq(S), NEW t \in S
  PROVE  IndentAll(Append(raw, t)) = IndentNext(IndentAll(raw), t)
  <1> DEFINE more == Append(raw, t)
  <1>1. /\ Len(raw) \in Nat /\ Len(more) = Len(raw) + 1 /\ more[Len(raw) + 1] = t
        /\ \A k \in 1 .. Len(raw) : more[k] = raw[k]
    BY AppendSeq
  <1> HIDE DEF more
  <1>2. PICK f : /\ f[0] = NewIndents
                 /\ \A n \in Nat : n < Len(raw) => f[n + 1] = IndentNext(f[n], raw[n + 1])
                 /\ IndentAll(raw) = f[Len(raw)]
    BY <1>1, IndentSteps
  <1>3. Len(more) \in Nat
    BY <1>1
  <1>4. PICK g : /\ g[0] = NewIndents
                 /\ \A n \in Nat : n < Len(more) => g[n + 1] = IndentNext(g[n], more[n + 1])
                 /\ IndentAll(more) = g[Len(more)]
    BY <1>3, IndentSteps
  <1> DEFINE P == {n \in Nat : n <= Len(raw) => g[n] = f[n]}
  <1>5. 0 \in P
    BY <1>2, <1>4
  <1>6. ASSUME NEW n \in Nat, n \in P
        PROVE  n + 1 \in P
    <2> SUFFICES ASSUME n + 1 <= Len(raw)
                 PROVE  g[n + 1] = f[n + 1]
      OBVIOUS
    <2>1. n < Len(raw) /\ n < Len(more) /\ n + 1 \in 1 .. Len(raw) /\ n <= Len(raw)
      BY <1>1
    <2> QED BY <1>1, <1>2, <1>4, <1>6, <2>1
  <1> HIDE DEF P
  <1>7. Nat \subseteq P
    BY <1>5, <1>6, SetInduction
  <1>8. g[Len(raw)] = f[Len(raw)]
    BY <1>1, <1>7 DEF P
  <1>9. g[Len(raw) + 1] = IndentNext(g[Len(raw)], more[Len(raw) + 1])
    BY <1>1, <1>4
  <1> QED BY <1>1, <1>2, <1>4, <1>8, <1>9 DEF more

-----------------------------------------------------------------------------
(* The cursor.                                                             *)

KindsOf(src) == {Kind(src[i]) : i \in 1 .. Len(src)} \cup Made \cup {"sp"}
WordsOf(src) == {Text(src[i]) : i \in 1 .. Len(src)} \cup {""}
TokensOf(src) == KindsOf(src) \X WordsOf(src) \X Nat

Cursors(src) ==
    [src : {src}, i : 1 .. Len(src) + 1, line : Nat, start : BOOLEAN, depth : Nat,
     continuation : BOOLEAN, raw : Seq(TokensOf(src)), ok : {TRUE}]

\* What the cursor knows of the text before it.
CursorInv(src, c) ==
    /\ c \in Cursors(src)
    /\ c.line = LineOfPiece(src, c.i)
    /\ c.start <=> LineStart(src, c.i)
    /\ c.continuation <=> GoesOn(src, c.i)
    /\ DepthIs(src, c.i, c.depth)

\* What a turn of the cursor does: it passes something that makes no token, a
\* line end, the spaces of a line that counts, or a lexeme.
NoLines(src, c, d) == c.i < d.i /\ \A h \in c.i .. d.i - 1 : h \notin Lines(src)
Quiet(src, c, d) ==
    /\ d.raw = c.raw
    /\ NoLines(src, c, d) /\ ~Lexeme(src[d.i - 1])
    /\ Joined(d) <=> Joined(c)
    /\ \/ Joined(c)
       \/ LineStart(src, c.i) /\ LineStart(src, d.i)
       \/ Kind(src[d.i - 1]) = "//"
LineEnded(src, c, d) ==
    /\ d.raw = Append(c.raw, <<"newline", "", c.line>>)
    /\ NoLines(src, c, d) /\ ~Lexeme(src[d.i - 1])
    /\ LineStart(src, d.i) /\ ~Joined(d)
Indented(src, c, d) ==
    /\ d.raw = Append(c.raw, <<"sp", Column(src, c.i), c.line>>)
    /\ d.i = c.i + 1 /\ Kind(src[c.i]) = "sp"
    /\ c.i \in Lines(src) /\ LineStart(src, c.i) /\ ~Joined(c)
LexemeRead(src, c, d) ==
    /\ \E text \in WordsOf(src) : d.raw = Append(c.raw, <<Kind(src[c.i]), text, c.line>>)
    /\ d.i = c.i + 1 /\ Lexeme(src[c.i])
    /\ c.i \in Lines(src) <=> LineStart(src, c.i) /\ ~Joined(c)

\* The brackets and the operators are lexemes.
LEMMA Lexemes ==
  ASSUME NEW p, ~Lexeme(p)
  PROVE  Kind(p) \notin Openers \cup Closers /\ Kind(p) \notin ContinuationOps
  BY DEF Lexeme, LineEnds, Openers, Closers, ContinuationOps

\* The cursor sees a piece, or the end.
LEMMA PeekIs ==
  ASSUME NEW src, NEW c \in Cursors(src), Len(src) \in Nat
  PROVE  /\ AtEnd(c) <=> c.i = Len(src) + 1
         /\ ~AtEnd(c) => Peek(c) = src[c.i] /\ c.i \in 1 .. Len(src)
         /\ AtEnd(c) => Kind(Peek(c)) = "end"
  BY DEF Cursors, AtEnd, Peek, Kind

\* The cursor stands in brackets or on a line that goes on if the text says so.
LEMMA JoinedIs ==
  ASSUME NEW src, NEW c, CursorInv(src, c)
  PROVE  Joined(c) <=> Nested(src, c.i) \/ GoesOn(src, c.i)
  <1>1. c.i \in Nat \ {0} /\ c.depth \in Nat
    BY DEF CursorInv, Cursors
  <1>2. c.depth > 0 <=> Nested(src, c.i)
    BY <1>1, DepthNested DEF CursorInv
  <1> QED BY <1>2 DEF CursorInv, Joined

\* A stretch without lexemes changes the line and the column alone.
LEMMA Passed ==
  ASSUME NEW src, IsText(src), NEW c, CursorInv(src, c), NEW d \in Cursors(src),
         c.i < d.i, \A h \in c.i .. d.i - 1 : ~Lexeme(src[h]),
         d.line = c.line + Count(LineEnds, src, c.i, d.i - 1),
         d.start <=> Kind(src[d.i - 1]) \in LineEnds,
         d.depth = c.depth, d.continuation = c.continuation
  PROVE  CursorInv(src, d) /\ (Joined(d) <=> Joined(c))
  <1>1. c.i \in Nat \ {0} /\ d.i \in Nat \ {0} /\ c.i <= d.i /\ d.i # 1
    BY DEF CursorInv, Cursors, IsText
  <1>2. d.line = LineOfPiece(src, d.i)
    BY <1>1, LineLater DEF CursorInv
  <1>3. d.start <=> LineStart(src, d.i)
    BY <1>1 DEF LineStart
  <1>4. d.continuation <=> GoesOn(src, d.i)
    BY <1>1, GoesOnQuiet DEF CursorInv
  <1>5. DepthIs(src, d.i, d.depth)
    BY <1>1, Lexemes, DepthQuiet DEF CursorInv
  <1> QED BY <1>2, <1>3, <1>4, <1>5 DEF CursorInv, Joined

\* The next piece is passed.
LEMMA ConsumeQuiet ==
  ASSUME NEW src, IsText(src), NEW c, CursorInv(src, c), ~AtEnd(c), ~Lexeme(src[c.i])
  PROVE  LET d == Consume(c)
         IN  /\ CursorInv(src, d) /\ d.i = c.i + 1 /\ d.raw = c.raw
             /\ d.depth = c.depth /\ d.continuation = c.continuation
             /\ (Joined(d) <=> Joined(c))
             /\ LineStart(src, d.i) <=> Kind(src[c.i]) \in LineEnds
  <1> DEFINE d == Consume(c)
             newline == Kind(src[c.i]) \in LineEnds
  <1>1. c \in Cursors(src) /\ Len(src) \in Nat
    BY DEF CursorInv, IsText
  <1>2. Peek(c) = src[c.i] /\ c.i \in 1 .. Len(src)
    BY <1>1, PeekIs
  <1>3. d = [c EXCEPT !.i = c.i + 1, !.start = newline, !.line = c.line + IF newline THEN 1 ELSE 0]
    BY <1>2 DEF Consume
  <1> HIDE DEF d
  <1>4. /\ d \in Cursors(src) /\ d.i = c.i + 1 /\ d.start = newline
        /\ d.line = c.line + (IF newline THEN 1 ELSE 0)
        /\ d.raw = c.raw /\ d.depth = c.depth /\ d.continuation = c.continuation
    <2> DEFINE ends == IF newline THEN 1 ELSE 0
               next == c.i + 1
    <2>1. newline \in BOOLEAN /\ ends \in Nat /\ next \in 1 .. Len(src) + 1
      BY <1>1, <1>2
    <2>2. d = [c EXCEPT !.i = next, !.start = newline, !.line = c.line + ends]
      BY <1>3
    <2>3. c.line \in Nat /\ c.line + ends \in Nat
      BY <1>1, <2>1 DEF Cursors
    <2> HIDE DEF newline, ends, next
    <2>4. d \in Cursors(src)
      BY <1>1, <2>1, <2>2, <2>3 DEF Cursors
    <2>5. /\ d.i = next /\ d.start = newline /\ d.line = c.line + ends
          /\ d.raw = c.raw /\ d.depth = c.depth /\ d.continuation = c.continuation
      BY <1>1, <2>2 DEF Cursors
    <2> QED BY <2>4, <2>5 DEF ends, next
  <1>5. Count(LineEnds, src, c.i, c.i) = IF newline THEN 1 ELSE 0
    <2>1. c.i \in Int /\ c.i <= c.i + 1 /\ \A h \in c.i .. c.i : h = c.i
      BY <1>2
    <2>2. CASE newline
      <3>1. \A h \in c.i .. c.i : Kind(src[h]) \in LineEnds
        BY <2>1, <2>2
      <3>2. Count(LineEnds, src, c.i, c.i) = c.i + 1 - c.i
        BY <2>1, <3>1, CountAll
      <3> QED BY <2>1, <2>2, <3>2
    <2>3. CASE ~newline
      <3>1. \A h \in c.i .. c.i : Kind(src[h]) \notin LineEnds
        BY <2>1, <2>3
      <3> QED BY <2>1, <2>3, <3>1, CountNone
    <2> QED BY <2>2, <2>3
  <1>6. d.i - 1 = c.i /\ c.i < d.i /\ \A h \in c.i .. d.i - 1 : ~Lexeme(src[h])
    BY <1>2, <1>4
  <1>7. CursorInv(src, d) /\ (Joined(d) <=> Joined(c))
    BY <1>4, <1>5, <1>6, Passed
  <1>8. LineStart(src, d.i) <=> Kind(src[c.i]) \in LineEnds
    BY <1>2, <1>4, <1>6 DEF LineStart
  <1> QED BY <1>4, <1>7, <1>8 DEF d

\* A token that continues nothing is written where nothing is continued.
LEMMA PushQuiet ==
  ASSUME NEW src, NEW c, CursorInv(src, c), ~c.continuation,
         NEW kind \in KindsOf(src), kind \notin ContinuationOps,
         NEW text \in WordsOf(src), NEW line \in Nat
  PROVE  LET d == Push(c, kind, text, line)
         IN  /\ CursorInv(src, d) /\ (Joined(d) <=> Joined(c)) /\ d.i = c.i
             /\ d.raw = Append(c.raw, <<kind, text, line>>)
  <1> DEFINE d == Push(c, kind, text, line)
             t == <<kind, text, line>>
  <1>1. c \in Cursors(src) /\ c.raw \in Seq(TokensOf(src)) /\ c.continuation = FALSE
    BY DEF CursorInv, Cursors
  <1>2. t \in TokensOf(src)
    BY DEF TokensOf
  <1>3. d = [c EXCEPT !.raw = Append(c.raw, t), !.continuation = FALSE]
    <2>1. (kind \in ContinuationOps) = FALSE
      OBVIOUS
    <2>2. d = [c EXCEPT !.raw = Append(c.raw, t), !.continuation = kind \in ContinuationOps]
      BY DEF Push
    <2> HIDE DEF d, t
    <2> QED BY <2>1, <2>2
  <1> HIDE DEF t, d
  <1>4. Append(c.raw, t) \in Seq(TokensOf(src))
    BY <1>1, <1>2
  <1>5. /\ d \in Cursors(src) /\ d.raw = Append(c.raw, t) /\ d.continuation = c.continuation
        /\ d.i = c.i /\ d.line = c.line /\ d.start = c.start /\ d.depth = c.depth
    BY <1>1, <1>3, <1>4 DEF Cursors
  <1>6. CursorInv(src, d) /\ (Joined(d) <=> Joined(c))
    BY <1>5 DEF CursorInv, Joined
  <1> QED BY <1>5, <1>6 DEF d, t

\* No line that counts starts at something that is neither lexeme nor spaces.
LEMMA NoLineAt ==
  ASSUME NEW src, NEW i, ~Lexeme(src[i]), Kind(src[i]) # "sp"
  PROVE  i \notin Lines(src)
  BY DEF Lines, Filled

\* A lexeme is the first of a line that counts when it starts a line that is
\* neither in brackets nor goes on.
LEMMA LineAtLexeme ==
  ASSUME NEW src, IsText(src), NEW c, CursorInv(src, c), ~AtEnd(c), Lexeme(src[c.i])
  PROVE  c.i \in Lines(src) <=> LineStart(src, c.i) /\ ~Joined(c)
  <1>1. c.i \in DOMAIN src
    BY PeekIs DEF CursorInv, IsText
  <1>2. Kind(src[c.i]) # "sp"
    BY DEF Lexeme
  <1>3. Filled(src, c.i)
    BY <1>2 DEF Filled
  <1> QED BY <1>1, <1>3, JoinedIs DEF Lines

\* A lexeme is read: a bracket changes the depth, an operator may continue.
LEMMA LexemeTurn ==
  ASSUME NEW src, IsText(src), NEW c, CursorInv(src, c), ~AtEnd(c), Lexeme(src[c.i])
  PROVE  CursorInv(src, NextToken(c)) /\ LexemeRead(src, c, NextToken(c))
  <1> DEFINE kind == Kind(src[c.i])
             bracket == kind \in Openers \cup Closers
             text == IF bracket THEN "" ELSE Text(src[c.i])
             t == <<kind, text, c.line>>
             on == kind \in ContinuationOps
             depth == IF kind \in Openers THEN c.depth + 1
                      ELSE IF kind \in Closers THEN IF c.depth = 0 THEN 0 ELSE c.depth - 1
                      ELSE c.depth
             d == NextToken(c)
             next == c.i + 1
  <1>1. c \in Cursors(src) /\ Len(src) \in Nat
    BY DEF CursorInv, IsText
  <1>2. Peek(c) = src[c.i] /\ c.i \in 1 .. Len(src) /\ c.line \in Nat /\ c.depth \in Nat
    BY <1>1, PeekIs DEF Cursors
  <1>3. kind \notin LineEnds /\ kind # "sp" /\ kind \notin Refused /\ kind # "//"
    <2>1. kind \notin Refused
      BY <1>2 DEF IsText, Legible
    <2> QED BY <2>1 DEF Lexeme
  <1>4. kind \in KindsOf(src) /\ text \in WordsOf(src)
    BY <1>2 DEF KindsOf, WordsOf
  <1>5. t \in TokensOf(src)
    BY <1>2, <1>4 DEF TokensOf
  <1>6. (kind \in LineEnds) = FALSE /\ on \in BOOLEAN
    BY <1>3
  <1>7. Consume(c) = [c EXCEPT !.i = next, !.start = FALSE, !.line = c.line]
    <2>1. c.line + (IF kind \in LineEnds THEN 1 ELSE 0) = c.line
      BY <1>2, <1>3
    <2>2. Consume(c) = [c EXCEPT !.i = next, !.start = kind \in LineEnds,
                                 !.line = c.line + (IF kind \in LineEnds THEN 1 ELSE 0)]
      BY <1>2 DEF Consume
    <2> HIDE DEF kind, next
    <2> QED BY <1>6, <2>1, <2>2
  <1>8. next \in 1 .. Len(src) + 1
    BY <1>1, <1>2
  <1>9. Consume(c) = [src |-> src, i |-> next, line |-> c.line, start |-> FALSE, depth |-> c.depth,
                      continuation |-> c.continuation, raw |-> c.raw, ok |-> TRUE]
    <2> HIDE DEF next
    <2> QED BY <1>1, <1>7 DEF Cursors
  <1> DEFINE e == Push(Consume(c), kind, text, c.line)
  <1>10. e = [src |-> src, i |-> next, line |-> c.line, start |-> FALSE, depth |-> c.depth,
              continuation |-> on, raw |-> Append(c.raw, t), ok |-> TRUE]
    <2> DEFINE rest == Consume(c)
               more == Append(c.raw, t)
    <2>1. e = [rest EXCEPT !.raw = Append(rest.raw, t), !.continuation = on]
      BY DEF Push
    <2>2. rest.raw = c.raw
      BY <1>9
    <2>3. Append(rest.raw, t) = more
      BY <2>2
    <2> HIDE DEF next, e, t, on, rest
    <2>4. e = [rest EXCEPT !.raw = more, !.continuation = on]
      BY <2>1, <2>3
    <2> HIDE DEF more
    <2>5. e = [src |-> src, i |-> next, line |-> c.line, start |-> FALSE, depth |-> c.depth,
               continuation |-> on, raw |-> more, ok |-> TRUE]
      <3>1. rest \in [src : {src}, i : {next}, line : {c.line}, start : {FALSE}, depth : {c.depth},
                      continuation : {c.continuation}, raw : {c.raw}, ok : {TRUE}]
        BY <1>9 DEF rest
      <3> QED BY <2>4, <3>1
    <2> QED BY <2>5 DEF more
  <1>11. /\ bracket => d = [e EXCEPT !.depth = depth]
         /\ ~bracket => d = e /\ depth = c.depth
    <2>1. CASE bracket
      <3>1. d = Bracket(c)
        BY <1>2, <1>3, <2>1 DEF NextToken
      <3>2. text = ""
        BY <2>1
      <3> DEFINE after == Push(Consume(c), kind, "", c.line)
      <3>3. d = [after EXCEPT !.depth = IF kind \in Openers THEN after.depth + 1
                                        ELSE IF after.depth = 0 THEN 0 ELSE after.depth - 1]
        BY <1>2, <3>1 DEF Bracket
      <3>4. after = e
        BY <3>2
      <3> HIDE DEF after, e
      <3>5. after.depth = c.depth
        BY <1>10, <3>4
      <3>6. (IF kind \in Openers THEN c.depth + 1 ELSE IF c.depth = 0 THEN 0 ELSE c.depth - 1) = depth
        BY <2>1
      <3> HIDE DEF d, kind, depth
      <3> QED BY <2>1, <3>3, <3>4, <3>5, <3>6
    <2>2. CASE ~bracket
      BY <1>2, <1>3, <2>2 DEF NextToken
    <2> QED BY <2>1, <2>2
  <1>12. DepthIs(src, next, depth) /\ depth \in Nat
    <2>1. DepthIs(src, c.i, c.depth) /\ c.i \in Nat \ {0}
      BY <1>2 DEF CursorInv
    <2>2. kind \in Openers => kind \notin Closers
      BY DEF Openers, Closers
    <2>3. CASE kind \in Openers
      BY <1>2, <2>1, <2>3, DepthOpener
    <2>4. CASE kind \in Closers
      BY <1>2, <2>1, <2>2, <2>4, DepthCloser
    <2>5. CASE ~bracket
      <3>1. next \in Nat \ {0} /\ c.i <= next /\ \A h \in c.i .. next - 1 : h = c.i
        BY <1>2
      <3>2. \A h \in c.i .. next - 1 : Kind(src[h]) \notin Openers \cup Closers
        BY <2>5, <3>1
      <3>3. DepthIs(src, next, c.depth)
        <4> HIDE DEF next
        <4> QED BY <2>1, <3>1, <3>2, DepthQuiet
      <3> QED BY <1>2, <2>5, <3>3
    <2> QED BY <2>3, <2>4, <2>5
  <1>13. Append(c.raw, t) \in Seq(TokensOf(src))
    <2>1. c.raw \in Seq(TokensOf(src))
      BY <1>1 DEF Cursors
    <2> HIDE DEF t
    <2> QED BY <1>5, <2>1
  <1> HIDE DEF e, d
  <1>14. d = [src |-> src, i |-> next, line |-> c.line, start |-> FALSE, depth |-> depth,
              continuation |-> on, raw |-> Append(c.raw, t), ok |-> TRUE]
    <2> HIDE DEF depth, next, on, t, bracket
    <2>1. CASE bracket
      BY <1>10, <1>11, <2>1
    <2>2. CASE ~bracket
      BY <1>10, <1>11, <2>2
    <2> QED BY <2>1, <2>2
  <1>15. c.line = LineOfPiece(src, next)
    <2>1. c.i \in Nat \ {0} /\ next \in Nat \ {0} /\ c.i <= next /\ next - 1 = c.i
      BY <1>2
    <2>2. \A h \in c.i .. c.i : Kind(src[h]) \notin LineEnds
      BY <1>2, <1>3
    <2>3. Count(LineEnds, src, c.i, c.i) = 0
      BY <1>2, <2>2, CountNone
    <2>4. LineOfPiece(src, next) = LineOfPiece(src, c.i) + Count(LineEnds, src, c.i, next - 1)
      <3> HIDE DEF next
      <3> QED BY <2>1, LineLater
    <2> QED BY <1>2, <2>1, <2>3, <2>4 DEF CursorInv
  <1>16. ~LineStart(src, next)
    BY <1>2, <1>3 DEF LineStart
  <1>17. on <=> GoesOn(src, next)
    BY <1>2, GoesOnLexeme
  <1>18. CursorInv(src, d)
    <2> HIDE DEF depth, next, on, t
    <2>1. d \in Cursors(src)
      BY <1>1, <1>2, <1>6, <1>8, <1>12, <1>13, <1>14 DEF Cursors
    <2> QED BY <1>12, <1>14, <1>15, <1>16, <1>17, <2>1 DEF CursorInv
  <1>19. LexemeRead(src, c, d)
    <2>1. d.raw = Append(c.raw, t) /\ d.i = c.i + 1
      <3> HIDE DEF t, on, depth
      <3> QED BY <1>14
    <2>2. c.i \in Lines(src) <=> LineStart(src, c.i) /\ ~Joined(c)
      BY LineAtLexeme
    <2> HIDE DEF d
    <2> QED BY <1>4, <2>1, <2>2 DEF LexemeRead
  <1> QED BY <1>18, <1>19 DEF d

\* A run of line ends goes up to the first piece that is none.
LEMMA RunEndIs ==
  ASSUME NEW src, Len(src) \in Nat, NEW i \in 1 .. Len(src), Kind(src[i]) = "nl"
  PROVE  /\ RunEnd(src, i) \in i + 1 .. Len(src) + 1
         /\ \A h \in i .. RunEnd(src, i) - 1 : Kind(src[h]) = "nl"
  <1> DEFINE ends == {j \in i .. Len(src) + 1 : j > Len(src) \/ Kind(src[j]) # "nl"}
             n == RunEnd(src, i)
  <1>1. ends \in SUBSET Nat /\ Len(src) + 1 \in ends
    OBVIOUS
  <1>2. \E x \in ends : \A y \in ends : x <= y
    BY <1>1, LeastNatural
  <1>3. n = CHOOSE x \in ends : \A y \in ends : x =< y
    BY DEF RunEnd, Min
  <1>4. n \in ends /\ \A y \in ends : n <= y
    <2> HIDE DEF ends, n
    <2> QED BY <1>2, <1>3
  <1>5. n # i /\ n \in i .. Len(src) + 1
    BY <1>4
  <1>6. ASSUME NEW h \in i .. n - 1
        PROVE  Kind(src[h]) = "nl"
    <2>1. ~(h \in ends)
      BY <1>4, <1>5
    <2> QED BY <1>5, <2>1
  <1> QED BY <1>5, <1>6

LEMMA RunSkipped ==
  ASSUME NEW src, IsText(src), NEW c, CursorInv(src, c), ~AtEnd(c), Kind(src[c.i]) = "nl"
  PROVE  LET d == SkipLineEnds(c)
         IN  /\ CursorInv(src, d) /\ d.raw = c.raw /\ NoLines(src, c, d)
             /\ Kind(src[d.i - 1]) = "nl" /\ d.continuation = c.continuation
             /\ (Joined(d) <=> Joined(c))
  <1> DEFINE n == RunEnd(src, c.i)
             line == c.line + (n - c.i)
             d == SkipLineEnds(c)
  <1>1. c \in Cursors(src) /\ Len(src) \in Nat /\ c.i \in 1 .. Len(src) /\ c.src = src /\ c.line \in Nat
    <2>1. c \in Cursors(src) /\ Len(src) \in Nat
      BY DEF CursorInv, IsText
    <2> QED BY <2>1, PeekIs DEF Cursors
  <1>2. n \in c.i + 1 .. Len(src) + 1 /\ \A h \in c.i .. n - 1 : Kind(src[h]) = "nl"
    BY <1>1, RunEndIs
  <1>3. d = [c EXCEPT !.i = n, !.line = line, !.start = TRUE]
    BY <1>1 DEF SkipLineEnds
  <1>4. line \in Nat /\ n \in 1 .. Len(src) + 1
    BY <1>1, <1>2
  <1> HIDE DEF n, d
  <1>5. /\ d \in Cursors(src) /\ d.i = n /\ d.line = line /\ d.start = TRUE
        /\ d.raw = c.raw /\ d.depth = c.depth /\ d.continuation = c.continuation
    <2> HIDE DEF line
    <2> QED BY <1>1, <1>3, <1>4 DEF Cursors
  <1>6. Count(LineEnds, src, c.i, n - 1) = n - c.i
    <2>1. c.i \in Int /\ n - 1 \in Int /\ c.i <= n - 1 + 1 /\ n - 1 + 1 - c.i = n - c.i
      BY <1>1, <1>2
    <2>2. \A h \in c.i .. n - 1 : Kind(src[h]) \in LineEnds
      BY <1>2 DEF LineEnds
    <2>3. Count(LineEnds, src, c.i, n - 1) = n - 1 + 1 - c.i
      BY <2>1, <2>2, CountAll
    <2> QED BY <2>1, <2>3
  <1>7. \A h \in c.i .. n - 1 : ~Lexeme(src[h]) /\ h \notin Lines(src)
    <2>1. \A h \in c.i .. n - 1 : ~Lexeme(src[h]) /\ Kind(src[h]) # "sp"
      BY <1>2 DEF Lexeme, LineEnds
    <2> QED BY <2>1, NoLineAt
  <1>8. n - 1 \in c.i .. n - 1
    BY <1>1, <1>2
  <1>9. Kind(src[n - 1]) = "nl"
    BY <1>2, <1>8
  <1>10. d.start <=> Kind(src[d.i - 1]) \in LineEnds
    BY <1>5, <1>9 DEF LineEnds
  <1>11. c.i < d.i
    BY <1>1, <1>2, <1>5
  <1>12. CursorInv(src, d) /\ (Joined(d) <=> Joined(c))
    BY <1>5, <1>6, <1>7, <1>10, <1>11, Passed
  <1>13. NoLines(src, c, d)
    BY <1>5, <1>7, <1>11 DEF NoLines
  <1> QED BY <1>5, <1>9, <1>12, <1>13 DEF d

\* A line end: a token where no bracket is open and the line does not go on.
LEMMA LineEndTurn ==
  ASSUME NEW src, IsText(src), NEW c, CursorInv(src, c), ~AtEnd(c), Kind(src[c.i]) \in LineEnds
  PROVE  /\ CursorInv(src, EndOfLine(c))
         /\ Quiet(src, c, EndOfLine(c)) \/ LineEnded(src, c, EndOfLine(c))
  <1> DEFINE past == IF Kind(src[c.i]) = "nl" THEN SkipLineEnds(c) ELSE Consume(c)
             d == EndOfLine(c)
  <1>1. c \in Cursors(src) /\ Len(src) \in Nat /\ Peek(c) = src[c.i] /\ c.i \in 1 .. Len(src) /\ c.line \in Nat
    <2>1. c \in Cursors(src) /\ Len(src) \in Nat
      BY DEF CursorInv, IsText
    <2> QED BY <2>1, PeekIs DEF Cursors
  <1>2. d = IF Joined(c) THEN past ELSE Push(past, "newline", "", c.line)
    BY <1>1 DEF EndOfLine
  <1>3. ~Lexeme(src[c.i]) /\ Kind(src[c.i]) # "sp"
    BY DEF Lexeme, LineEnds
  <1>4. /\ CursorInv(src, past) /\ past.raw = c.raw /\ NoLines(src, c, past)
        /\ Kind(src[past.i - 1]) \in LineEnds /\ past.continuation = c.continuation
        /\ (Joined(past) <=> Joined(c))
    <2>1. CASE Kind(src[c.i]) = "nl"
      <3>1. past = SkipLineEnds(c)
        BY <2>1
      <3> HIDE DEF past
      <3> QED BY <2>1, <3>1, RunSkipped DEF LineEnds
    <2>2. CASE Kind(src[c.i]) # "nl"
      <3>1. past = Consume(c)
        BY <2>2
      <3> HIDE DEF past
      <3>2. /\ CursorInv(src, past) /\ past.i = c.i + 1 /\ past.raw = c.raw
            /\ past.continuation = c.continuation /\ (Joined(past) <=> Joined(c))
        BY <1>3, <3>1, ConsumeQuiet
      <3>3. past.i - 1 = c.i /\ c.i < past.i /\ \A h \in c.i .. past.i - 1 : h = c.i
        BY <1>1, <3>2
      <3>4. NoLines(src, c, past)
        BY <1>3, <3>3, NoLineAt DEF NoLines
      <3> QED BY <3>2, <3>3, <3>4
    <2> QED BY <2>1, <2>2
  <1> HIDE DEF past, d
  <1>5. ~Lexeme(src[past.i - 1])
    BY <1>4 DEF Lexeme
  <1>6. past.i # 1
    BY <1>1, <1>4 DEF NoLines
  <1>7. CASE Joined(c)
    <2>1. d = past
      BY <1>2, <1>7
    <2>2. Quiet(src, c, d)
      BY <1>4, <1>5, <1>7, <2>1 DEF Quiet
    <2> QED BY <1>4, <2>1, <2>2 DEF d
  <1>8. CASE ~Joined(c)
    <2>1. d = Push(past, "newline", "", c.line)
      BY <1>2, <1>8
    <2>2. ~past.continuation
      BY <1>4, <1>8 DEF Joined
    <2>3. "newline" \in KindsOf(src) /\ "" \in WordsOf(src) /\ "newline" \notin ContinuationOps
      BY DEF KindsOf, WordsOf, Made, ContinuationOps
    <2>4. /\ CursorInv(src, d) /\ (Joined(d) <=> Joined(past)) /\ d.i = past.i
          /\ d.raw = Append(past.raw, <<"newline", "", c.line>>)
      <3>1. CursorInv(src, past) /\ c.line \in Nat
        BY <1>1, <1>4
      <3>2. LET e == Push(past, "newline", "", c.line)
            IN  /\ CursorInv(src, e) /\ (Joined(e) <=> Joined(past)) /\ e.i = past.i
                /\ e.raw = Append(past.raw, <<"newline", "", c.line>>)
        <4>1. ASSUME NEW kind \in KindsOf(src), kind \notin ContinuationOps,
                     NEW text \in WordsOf(src)
              PROVE  LET e == Push(past, kind, text, c.line)
                     IN  /\ CursorInv(src, e) /\ (Joined(e) <=> Joined(past)) /\ e.i = past.i
                         /\ e.raw = Append(past.raw, <<kind, text, c.line>>)
          BY ONLY <2>2, <3>1, <4>1, PushQuiet
        <4> QED BY ONLY <2>3, <4>1
      <3> QED BY <2>1, <3>2
    <2>5. LineEnded(src, c, d)
      BY <1>4, <1>5, <1>6, <1>8, <2>4 DEF LineEnded, NoLines, LineStart
    <2> QED BY <2>4, <2>5 DEF d
  <1> QED BY <1>7, <1>8

\* Spaces at the start of a line: its column if the line counts, and nothing
\* when it is blank or holds a comment alone.
LEMMA MeasureTurn ==
  ASSUME NEW src, IsText(src), NEW c, CursorInv(src, c), ~AtEnd(c), Kind(src[c.i]) = "sp", ~Joined(c)
  PROVE  /\ CursorInv(src, Measure(c))
         /\ Quiet(src, c, Measure(c)) \/ Indented(src, c, Measure(c))
  <1> DEFINE after == Consume(c)
             comment == Kind(Peek(after)) = "//"
             past == IF comment THEN Consume(after) ELSE after
             d == Measure(c)
  <1>1. c \in Cursors(src) /\ Len(src) \in Nat /\ Peek(c) = src[c.i] /\ c.i \in 1 .. Len(src) /\ c.line \in Nat
    <2>1. c \in Cursors(src) /\ Len(src) \in Nat
      BY DEF CursorInv, IsText
    <2> QED BY <2>1, PeekIs DEF Cursors
  <1>2. ~Lexeme(src[c.i]) /\ LineStart(src, c.i)
    BY <1>1 DEF Lexeme, IsText, WellFormed
  <1>3. d = IF comment \/ Kind(Peek(after)) = "nl"
            THEN IF Kind(Peek(past)) = "nl" THEN Consume(past) ELSE past
            ELSE Push(after, "sp", Text(src[c.i]), c.line)
    BY <1>1 DEF Measure
  <1>4. /\ CursorInv(src, after) /\ after.i = c.i + 1 /\ after.raw = c.raw
        /\ after.continuation = c.continuation /\ ~Joined(after) /\ ~LineStart(src, after.i)
    <2>1. Kind(src[c.i]) \notin LineEnds
      BY DEF LineEnds
    <2> QED BY <1>2, <2>1, ConsumeQuiet
  <1>5. after \in Cursors(src)
    BY <1>4 DEF CursorInv
  <1>6. /\ AtEnd(after) <=> c.i = Len(src)
        /\ ~AtEnd(after) => Peek(after) = src[c.i + 1] /\ c.i + 1 \in 1 .. Len(src)
        /\ AtEnd(after) => Kind(Peek(after)) = "end"
    BY <1>1, <1>4, <1>5, PeekIs
  <1> HIDE DEF after, d
  <1>7. CASE comment
    <2> DEFINE last == Consume(after)
    <2>1. past = last
      BY <1>7
    <2>2. ~AtEnd(after) /\ Peek(after) = src[c.i + 1] /\ Kind(src[c.i + 1]) = "//" /\ c.i + 1 \in 1 .. Len(src)
      BY <1>6, <1>7
    <2>3. ~Lexeme(src[c.i + 1]) /\ Kind(src[c.i + 1]) \notin LineEnds
      BY <2>2 DEF Lexeme, LineEnds
    <2>4. /\ CursorInv(src, last) /\ last.i = c.i + 1 + 1 /\ last.raw = c.raw /\ ~Joined(last)
      BY <1>4, <2>2, <2>3, ConsumeQuiet
    <2>5. c.i \notin Lines(src)
      <3>1. c.i # Len(src) /\ ~Lexeme(src[c.i + 1]) /\ Kind(src[c.i + 1]) # "crnl"
        BY <1>1, <2>2, <2>3
      <3> QED BY <3>1 DEF Lines, Filled
    <2>6. c.i + 1 \notin Lines(src)
      BY <2>2, <2>3, NoLineAt
    <2>7. last \in Cursors(src)
      BY <2>4 DEF CursorInv
    <2> HIDE DEF last, past
    <2>8. CASE Kind(Peek(last)) = "nl"
      <3>1. d = Consume(last)
        BY <1>3, <1>7, <2>1, <2>8
      <3>2. ~AtEnd(last) /\ Kind(src[last.i]) = "nl"
        <4>1. Kind(Peek(last)) # "end"
          BY <2>8
        <4> QED BY <1>1, <2>7, <2>8, <4>1, PeekIs
      <3>3. ~Lexeme(src[last.i]) /\ Kind(src[last.i]) \in LineEnds /\ Kind(src[last.i]) # "sp"
        BY <3>2 DEF Lexeme, LineEnds
      <3>4. CursorInv(src, d) /\ d.i = last.i + 1 /\ d.raw = c.raw /\ ~Joined(d) /\ LineStart(src, d.i)
        BY <2>4, <3>1, <3>2, <3>3, ConsumeQuiet
      <3>5. last.i \notin Lines(src)
        BY <3>3, NoLineAt
      <3>6. d.i = c.i + 3 /\ last.i = c.i + 2 /\ d.i - 1 = last.i
        BY <1>1, <2>4, <3>4
      <3>7. \A h \in c.i .. d.i - 1 : h = c.i \/ h = c.i + 1 \/ h = last.i
        BY <1>1, <3>6
      <3>8. NoLines(src, c, d)
        BY <1>1, <2>5, <2>6, <3>5, <3>6, <3>7 DEF NoLines
      <3>9. ~Lexeme(src[d.i - 1])
        BY <3>3, <3>6
      <3>10. Quiet(src, c, d)
        BY <1>2, <3>4, <3>8, <3>9 DEF Quiet
      <3> QED BY <3>4, <3>10 DEF d
    <2>9. CASE Kind(Peek(last)) # "nl"
      <3>1. d = last
        BY <1>3, <1>7, <2>1, <2>9
      <3>2. d.i - 1 = c.i + 1 /\ c.i < d.i /\ \A h \in c.i .. d.i - 1 : h = c.i \/ h = c.i + 1
        BY <1>1, <2>4, <3>1
      <3>3. NoLines(src, c, d)
        BY <2>5, <2>6, <3>2 DEF NoLines
      <3>4. Quiet(src, c, d)
        BY <2>2, <2>3, <2>4, <3>1, <3>2, <3>3 DEF Quiet
      <3> QED BY <2>4, <3>1, <3>4 DEF d
    <2> QED BY <2>8, <2>9
  <1>8. CASE ~comment /\ Kind(Peek(after)) = "nl"
    <2>1. d = Consume(after)
      BY <1>3, <1>8
    <2>2. ~AtEnd(after) /\ Kind(src[c.i + 1]) = "nl"
      <3>1. Kind(Peek(after)) # "end"
        BY <1>8
      <3> QED BY <1>6, <1>8, <3>1
    <2>3. ~Lexeme(src[c.i + 1]) /\ Kind(src[c.i + 1]) \in LineEnds /\ Kind(src[c.i + 1]) # "sp"
      BY <2>2 DEF Lexeme, LineEnds
    <2>4. CursorInv(src, d) /\ d.i = c.i + 1 + 1 /\ d.raw = c.raw /\ ~Joined(d) /\ LineStart(src, d.i)
      BY <1>4, <2>1, <2>2, <2>3, ConsumeQuiet
    <2>5. c.i \notin Lines(src)
      <3>1. c.i # Len(src) /\ Kind(src[c.i + 1]) # "crnl"
        BY <1>6, <2>2
      <3> QED BY <2>3, <3>1 DEF Lines, Filled
    <2>6. c.i + 1 \notin Lines(src)
      BY <2>3, NoLineAt
    <2>7. d.i - 1 = c.i + 1 /\ c.i < d.i /\ \A h \in c.i .. d.i - 1 : h = c.i \/ h = c.i + 1
      BY <1>1, <2>4
    <2>8. NoLines(src, c, d)
      BY <2>5, <2>6, <2>7 DEF NoLines
    <2>9. Quiet(src, c, d)
      BY <1>2, <2>3, <2>4, <2>7, <2>8 DEF Quiet
    <2> QED BY <2>4, <2>9 DEF d
  <1>9. CASE ~comment /\ Kind(Peek(after)) # "nl"
    <2>1. d = Push(after, "sp", Text(src[c.i]), c.line)
      BY <1>3, <1>9
    <2>2. /\ "sp" \in KindsOf(src) /\ "sp" \notin ContinuationOps /\ Text(src[c.i]) \in WordsOf(src)
          /\ ~after.continuation
      <3>1. "sp" \in KindsOf(src) /\ Text(src[c.i]) \in WordsOf(src)
        BY <1>1 DEF KindsOf, WordsOf
      <3>2. "sp" \notin ContinuationOps
        BY DEF ContinuationOps
      <3> QED BY <1>4, <3>1, <3>2 DEF Joined
    <2>3. /\ CursorInv(src, d) /\ d.i = after.i
          /\ d.raw = Append(after.raw, <<"sp", Text(src[c.i]), c.line>>)
      <3>1. CursorInv(src, after) /\ c.line \in Nat
        BY <1>1, <1>4
      <3>2. LET e == Push(after, "sp", Text(src[c.i]), c.line)
            IN  /\ CursorInv(src, e) /\ (Joined(e) <=> Joined(after)) /\ e.i = after.i
                /\ e.raw = Append(after.raw, <<"sp", Text(src[c.i]), c.line>>)
        BY ONLY <2>2, <3>1, PushQuiet
      <3> QED BY <2>1, <3>2
    <2>4. Filled(src, c.i)
      <3>1. CASE AtEnd(after)
        BY <1>6, <3>1 DEF Filled
      <3>2. CASE ~AtEnd(after)
        <4>1. c.i + 1 \in DOMAIN src /\ Kind(src[c.i + 1]) \notin {"nl", "//"}
          BY <1>6, <1>9, <3>2 DEF IsText
        <4>2. Kind(src[c.i + 1]) # "tab"
          BY <4>1 DEF IsText, Legible, Refused
        <4>3. Kind(src[c.i + 1]) # "sp"
          <5>1. Kind(src[c.i + 1]) = "sp" => LineStart(src, c.i + 1)
            BY <4>1 DEF IsText, WellFormed
          <5> QED BY <1>4, <5>1
        <4> QED BY <4>1, <4>2, <4>3 DEF Filled, Lexeme, LineEnds
      <3> QED BY <3>1, <3>2
    <2>5. c.i \in Lines(src)
      <3>1. ~Nested(src, c.i) /\ ~GoesOn(src, c.i)
        BY JoinedIs
      <3> QED BY <1>1, <1>2, <2>4, <3>1 DEF Lines, IsText
    <2>6. Indented(src, c, d)
      BY <1>2, <1>4, <2>3, <2>5 DEF Indented, Column
    <2> QED BY <2>3, <2>6 DEF d
  <1> QED BY <1>7, <1>8, <1>9

\* Every turn of the cursor is one of the four.
LEMMA TurnMoves ==
  ASSUME NEW src, IsText(src), NEW c, CursorInv(src, c), ~AtEnd(c)
  PROVE  /\ CursorInv(src, Turn(c))
         /\ \/ Quiet(src, c, Turn(c)) \/ LineEnded(src, c, Turn(c))
            \/ Indented(src, c, Turn(c)) \/ LexemeRead(src, c, Turn(c))
  <1>1. c \in Cursors(src) /\ Len(src) \in Nat /\ Peek(c) = src[c.i] /\ c.i \in 1 .. Len(src) /\ c.ok = TRUE
    <2>1. c \in Cursors(src) /\ Len(src) \in Nat
      BY DEF CursorInv, IsText
    <2> QED BY <2>1, PeekIs DEF Cursors
  <1> DEFINE kind == Kind(src[c.i])
  <1>2. kind \notin Refused /\ kind # "tab"
    BY <1>1 DEF IsText, Legible, Refused
  <1>3. kind = "sp" => LineStart(src, c.i) /\ c.start
    BY <1>1 DEF IsText, WellFormed, CursorInv
  <1>4. Turn(c) = IF Skipped(c) THEN Consume(c) ELSE NextToken(c)
    BY <1>1 DEF Turn
  <1>5. Skipped(c) <=> (kind = "sp" /\ Joined(c)) \/ kind = "//"
    BY <1>1, <1>2, <1>3 DEF Skipped
  <1>6. CASE Skipped(c)
    <2> DEFINE d == Consume(c)
    <2>1. ~Lexeme(src[c.i]) /\ kind \notin LineEnds
      BY <1>5, <1>6 DEF Lexeme, LineEnds
    <2>2. CursorInv(src, d) /\ d.i = c.i + 1 /\ d.raw = c.raw /\ (Joined(d) <=> Joined(c))
      BY <2>1, ConsumeQuiet
    <2> HIDE DEF d
    <2>3. c.i \notin Lines(src)
      <3>1. CASE kind = "//"
        BY <2>1, <3>1, NoLineAt
      <3>2. CASE Joined(c)
        BY <3>2, JoinedIs DEF Lines
      <3> QED BY <1>5, <1>6, <3>1, <3>2
    <2>4. d.i - 1 = c.i /\ c.i < d.i /\ \A h \in c.i .. d.i - 1 : h = c.i
      BY <1>1, <2>2
    <2>5. NoLines(src, c, d)
      BY <2>3, <2>4 DEF NoLines
    <2>6. Quiet(src, c, d)
      BY <1>5, <1>6, <2>1, <2>2, <2>4, <2>5 DEF Quiet
    <2> QED BY <1>4, <1>6, <2>2, <2>6 DEF d
  <1>7. CASE ~Skipped(c) /\ kind = "sp"
    <2>1. ~Joined(c) /\ Turn(c) = NextToken(c)
      BY <1>4, <1>5, <1>7
    <2>2. NextToken(c) = Measure(c)
      <3>1. Kind(Peek(c)) = "sp"
        BY <1>1, <1>7
      <3> HIDE DEF kind
      <3> QED BY <3>1 DEF NextToken, Refused, LineEnds, Openers, Closers
    <2> QED BY <1>7, <2>1, <2>2, MeasureTurn
  <1>8. CASE ~Skipped(c) /\ kind \in LineEnds
    <2>1. kind # "sp" /\ kind \notin Refused
      BY <1>8 DEF LineEnds, Refused
    <2>2. NextToken(c) = EndOfLine(c)
      <3>1. Kind(Peek(c)) \in LineEnds /\ Kind(Peek(c)) # "sp" /\ Kind(Peek(c)) \notin Refused
        BY <1>1, <1>8, <2>1
      <3> HIDE DEF kind
      <3> QED BY <3>1 DEF NextToken, LineEnds, Openers, Closers
    <2> QED BY <1>4, <1>8, <2>2, LineEndTurn
  <1>9. CASE ~Skipped(c) /\ kind # "sp" /\ kind \notin LineEnds
    <2>1. Lexeme(src[c.i])
      BY <1>2, <1>5, <1>9 DEF Lexeme
    <2> QED BY <1>4, <1>9, <2>1, LexemeTurn
  <1> QED BY <1>6, <1>7, <1>8, <1>9

-----------------------------------------------------------------------------
(* The stack of columns.                                                   *)

\* Columns from 0 up, those open before piece i.
Stacked(columns) ==
    /\ columns \in Seq(Nat) /\ Len(columns) > 0 /\ columns[1] = 0
    /\ \A j, k \in 1 .. Len(columns) : j < k => columns[j] < columns[k]
StackOf(src, i, columns) ==
    /\ Stacked(columns)
    /\ {columns[k] : k \in 1 .. Len(columns)} = OpenBefore(src, i) \cup {0}

\* How many columns stay when a line starts at column x.
Left(columns, x) == Max({n \in DOMAIN columns : columns[n] <= x})

\* The columns up to x stay, and the others go.
LEMMA LeftIs ==
  ASSUME NEW columns, Stacked(columns), NEW x \in Nat
  PROVE  /\ Left(columns, x) \in 1 .. Len(columns)
         /\ \A k \in 1 .. Len(columns) : columns[k] <= x <=> k <= Left(columns, x)
  <1> DEFINE low == {n \in DOMAIN columns : columns[n] <= x}
             m == Left(columns, x)
  <1>1. /\ DOMAIN columns = 1 .. Len(columns) /\ Len(columns) \in Nat /\ Len(columns) > 0
        /\ \A k \in 1 .. Len(columns) : columns[k] \in Nat
        /\ columns[1] = 0
    BY DEF Stacked
  <1>2. low \in SUBSET (0 .. Len(columns)) /\ 1 \in low
    BY <1>1
  <1>3. \E n \in low : \A y \in low : n >= y
    BY <1>1, <1>2, GreatestNatural
  <1>4. m = CHOOSE n \in low : \A y \in low : n >= y
    BY DEF Left, Max
  <1>5. m \in low /\ \A y \in low : m >= y
    <2> HIDE DEF low, m
    <2> QED BY <1>3, <1>4
  <1>6. m \in 1 .. Len(columns) /\ columns[m] <= x
    BY <1>1, <1>5
  <1>7. ASSUME NEW k \in 1 .. Len(columns)
        PROVE  columns[k] <= x <=> k <= m
    <2>1. CASE k <= m
      <3>1. k = m \/ columns[k] < columns[m]
        BY <1>6, <2>1 DEF Stacked
      <3>2. columns[k] \in Nat /\ columns[m] \in Nat
        BY <1>1, <1>6
      <3> HIDE DEF m
      <3> QED BY <1>6, <2>1, <3>1, <3>2
    <2>2. CASE ~(k <= m)
      <3>1. k \notin low
        BY <1>5, <1>6, <2>2
      <3> QED BY <1>1, <2>2, <3>1
    <2> QED BY <2>1, <2>2
  <1> HIDE DEF m
  <1> QED BY <1>6, <1>7 DEF m

\* What stays is a stack.
LEMMA LeftStack ==
  ASSUME NEW columns, Stacked(columns), NEW x \in Nat
  PROVE  LET m == Left(columns, x)
             rest == SubSeq(columns, 1, m)
         IN  /\ Stacked(rest) /\ Len(rest) = m
             /\ \A k \in 1 .. m : rest[k] = columns[k]
             /\ Last(rest) <= x
             /\ {rest[k] : k \in 1 .. Len(rest)} = {y \in {columns[k] : k \in 1 .. Len(columns)} : y <= x}
  <1> DEFINE m == Left(columns, x)
             rest == SubSeq(columns, 1, m)
  <1>1. /\ m \in 1 .. Len(columns) /\ \A k \in 1 .. Len(columns) : columns[k] <= x <=> k <= m
    BY LeftIs
  <1>2. columns \in Seq(Nat) /\ Len(columns) \in Nat /\ \A k \in 1 .. m : columns[k] \in Nat /\ k \in 1 .. Len(columns)
    BY <1>1 DEF Stacked
  <1> HIDE DEF m
  <1>3. rest \in Seq(Nat) /\ Len(rest) = m /\ \A k \in 1 .. m : rest[k] = columns[k]
    <2>1. m \in Int /\ 1 \in Int /\ 1 <= m /\ m - 1 + 1 = m
      BY <1>1
    <2>2. /\ SubSeq(columns, 1, m) \in Seq(Nat)
          /\ Len(SubSeq(columns, 1, m)) = IF 1 <= m THEN m - 1 + 1 ELSE 0
          /\ \A k \in 1 .. m - 1 + 1 : SubSeq(columns, 1, m)[k] = columns[1 + k - 1]
      BY <1>2, <2>1, SubSeqProperties
    <2>3. \A k \in 1 .. m : 1 + k - 1 = k
      OBVIOUS
    <2> QED BY <2>1, <2>2, <2>3
  <1> HIDE DEF rest
  <1>4. Stacked(rest)
    BY <1>1, <1>2, <1>3 DEF Stacked
  <1>5. Last(rest) <= x
    BY <1>1, <1>3 DEF Last
  <1>6. {rest[k] : k \in 1 .. Len(rest)} = {y \in {columns[k] : k \in 1 .. Len(columns)} : y <= x}
    BY <1>1, <1>2, <1>3
  <1> QED BY <1>3, <1>4, <1>5, <1>6 DEF m, rest

\* The last column is the greatest.
LEMMA LastColumn ==
  ASSUME NEW columns, Stacked(columns)
  PROVE  /\ Last(columns) \in Nat /\ Last(columns) \in {columns[k] : k \in 1 .. Len(columns)}
         /\ \A k \in 1 .. Len(columns) : columns[k] <= Last(columns)
  <1>1. Len(columns) \in 1 .. Len(columns) /\ \A k \in 1 .. Len(columns) : columns[k] \in Nat
    BY DEF Stacked
  <1>2. ASSUME NEW k \in 1 .. Len(columns)
        PROVE  columns[k] <= columns[Len(columns)]
    <2>1. k = Len(columns) \/ k < Len(columns)
      OBVIOUS
    <2> QED BY <1>1, <2>1 DEF Stacked
  <1> QED BY <1>1, <1>2 DEF Last

\* The blocks are as many as the open columns but for 0.
LEMMA StackSize ==
  ASSUME NEW src, NEW i, NEW columns, StackOf(src, i, columns)
  PROVE  Cardinality(OpenBefore(src, i) \ {0}) = Len(columns) - 1
  <1> DEFINE R == {columns[k] : k \in 1 .. Len(columns)}
             T == OpenBefore(src, i) \ {0}
             f == [k \in 2 .. Len(columns) |-> columns[k]]
  <1>1. /\ Len(columns) \in Nat /\ Len(columns) > 0 /\ columns[1] = 0
        /\ \A k \in 1 .. Len(columns) : columns[k] \in Nat
        /\ \A j, k \in 1 .. Len(columns) : j < k => columns[j] < columns[k]
    BY DEF StackOf, Stacked
  <1>2. T = R \ {0}
    BY DEF StackOf
  <1>3. T = {columns[k] : k \in 2 .. Len(columns)}
    <2>1. \A k \in 2 .. Len(columns) : columns[k] # 0 /\ k \in 1 .. Len(columns)
      BY <1>1
    <2>2. \A k \in 1 .. Len(columns) : k = 1 \/ k \in 2 .. Len(columns)
      BY <1>1
    <2> QED BY <1>1, <1>2, <2>1, <2>2
  <1> HIDE DEF T
  <1>4. f \in [2 .. Len(columns) -> T]
    BY <1>3
  <1>5. \A j, k \in 2 .. Len(columns) : j # k => columns[j] # columns[k]
    BY <1>1
  <1>6. f \in Bijection(2 .. Len(columns), T)
    BY <1>3, <1>4, <1>5 DEF Bijection, Injection, Surjection, IsInjective
  <1>7. IsFiniteSet(2 .. Len(columns)) /\ Cardinality(2 .. Len(columns)) = Len(columns) - 1
    <2>1. 2 \in Int /\ Len(columns) \in Int
      BY <1>1
    <2>2. /\ IsFiniteSet(2 .. Len(columns))
          /\ Cardinality(2 .. Len(columns)) = IF 2 > Len(columns) THEN 0 ELSE Len(columns) - 2 + 1
      BY <2>1, FS_Interval
    <2> QED BY <1>1, <2>2
  <1>8. Cardinality(T) = Cardinality(2 .. Len(columns))
    <2>1. ExistsBijection(2 .. Len(columns), T)
      BY <1>6 DEF ExistsBijection
    <2> QED BY <1>7, <2>1, FS_Bijection
  <1> QED BY <1>7, <1>8 DEF T

\* A line right of the last column opens its own; no line can be misplaced so.
LEMMA StackPush ==
  ASSUME NEW src, IsText(src), NEW l \in Lines(src), NEW columns, StackOf(src, l, columns),
         Column(src, l) > Last(columns)
  PROVE  StackOf(src, l + 1, Append(columns, Column(src, l))) /\ Aligned(src, l)
  <1> DEFINE x == Column(src, l)
             more == Append(columns, x)
             R == {columns[k] : k \in 1 .. Len(columns)}
  <1>1. x \in Nat /\ columns \in Seq(Nat) /\ Len(columns) \in Nat /\ Len(columns) > 0
    BY LinesAre DEF StackOf, Stacked
  <1>2. Last(columns) \in Nat /\ \A k \in 1 .. Len(columns) : columns[k] \in Nat /\ columns[k] < x
    <2>1. \A k \in 1 .. Len(columns) : columns[k] \in Nat
      BY <1>1
    <2> QED BY <1>1, <2>1, LastColumn DEF StackOf
  <1>3. /\ more \in Seq(Nat) /\ Len(more) = Len(columns) + 1 /\ more[Len(columns) + 1] = x
        /\ \A k \in 1 .. Len(columns) : more[k] = columns[k]
    <2> HIDE DEF x
    <2> QED BY <1>1, AppendSeq
  <1> HIDE DEF more, x
  <1>4. Stacked(more)
    <2>1. \A k \in 1 .. Len(more) : k \in 1 .. Len(columns) \/ k = Len(columns) + 1
      BY <1>1, <1>3
    <2>2. more[1] = 0 /\ Len(more) > 0
      BY <1>1, <1>3 DEF StackOf, Stacked
    <2>3. \A j, k \in 1 .. Len(columns) : j < k => columns[j] < columns[k]
      BY DEF StackOf, Stacked
    <2>4. ASSUME NEW j \in 1 .. Len(more), NEW k \in 1 .. Len(more), j < k
          PROVE  more[j] < more[k]
      <3>1. j \in 1 .. Len(columns)
        BY <1>1, <1>3, <2>4
      <3>2. CASE k \in 1 .. Len(columns)
        BY <1>3, <2>3, <2>4, <3>1, <3>2
      <3>3. CASE k = Len(columns) + 1
        BY <1>2, <1>3, <3>1, <3>3
      <3> QED BY <2>1, <3>2, <3>3
    <2> QED BY <1>3, <2>2, <2>4 DEF Stacked
  <1>5. R = OpenBefore(src, l) \cup {0} /\ \A y \in R : y < x /\ y \in Nat
    BY <1>2 DEF StackOf
  <1>6. {more[k] : k \in 1 .. Len(more)} = R \cup {x}
    <2>1. \A k \in 1 .. Len(more) : k \in 1 .. Len(columns) \/ k = Len(columns) + 1
      BY <1>1, <1>3
    <2>2. Len(columns) + 1 \in 1 .. Len(more) /\ \A k \in 1 .. Len(columns) : k \in 1 .. Len(more)
      BY <1>1, <1>3
    <2> QED BY <1>3, <2>1, <2>2
  <1> HIDE DEF R
  <1>7. OpenBefore(src, l + 1) = {y \in OpenBefore(src, l) : y <= x} \cup {x}
    BY OpenLine DEF x
  <1>8. {y \in OpenBefore(src, l) : y <= x} = OpenBefore(src, l)
    BY <1>1, <1>5
  <1>9. StackOf(src, l + 1, more)
    BY <1>4, <1>5, <1>6, <1>7, <1>8 DEF StackOf
  <1>10. Aligned(src, l)
    <2>1. \A y \in OpenBefore(src, l) : ~(y > x)
      BY <1>1, <1>5
    <2> QED BY <2>1 DEF Aligned, x
  <1> QED BY <1>9, <1>10 DEF more, x

\* A line that is not right of the last column closes the blocks right of it,
\* and is misplaced if its column is not among those that stay.
LEMMA StackPop ==
  ASSUME NEW src, IsText(src), NEW l \in Lines(src), NEW columns, StackOf(src, l, columns),
         ~(Column(src, l) > Last(columns))
  PROVE  LET rest == SubSeq(columns, 1, Left(columns, Column(src, l)))
         IN  IF Last(rest) = Column(src, l) THEN StackOf(src, l + 1, rest) /\ Aligned(src, l)
             ELSE ~Aligned(src, l)
  <1> DEFINE x == Column(src, l)
             rest == SubSeq(columns, 1, Left(columns, x))
             R == {columns[k] : k \in 1 .. Len(columns)}
             S == {rest[k] : k \in 1 .. Len(rest)}
  <1>1. x \in Nat /\ Stacked(columns)
    BY LinesAre DEF StackOf
  <1>2. Last(columns) \in R /\ Last(columns) \in Nat /\ x <= Last(columns)
    BY <1>1, LastColumn
  <1>3. Stacked(rest) /\ S = {y \in R : y <= x} /\ Last(rest) <= x
    <2> HIDE DEF x
    <2> QED BY <1>1, LeftStack
  <1>4. Last(rest) \in S /\ \A y \in S : y <= Last(rest) /\ y \in Nat
    <2>1. \A k \in 1 .. Len(rest) : rest[k] \in Nat
      BY <1>3 DEF Stacked
    <2> HIDE DEF rest
    <2> QED BY <1>3, <2>1, LastColumn
  <1>5. R = OpenBefore(src, l) \cup {0}
    BY DEF StackOf
  <1>6. OpenBefore(src, l + 1) = {y \in OpenBefore(src, l) : y <= x} \cup {x}
    BY OpenLine
  <1>7. CASE Last(rest) = x
    <2>1. x \in R
      BY <1>3, <1>4, <1>7
    <2>2. S = OpenBefore(src, l + 1) \cup {0}
      <3> HIDE DEF S, R, rest, x
      <3> QED BY <1>1, <1>3, <1>5, <1>6, <2>1
    <2>3. StackOf(src, l + 1, rest)
      BY <1>3, <2>2 DEF StackOf
    <2>4. Aligned(src, l)
      BY <1>5, <2>1 DEF Aligned
    <2> QED BY <1>7, <2>3, <2>4
  <1>8. CASE Last(rest) # x
    <2>1. x \notin R
      <3> SUFFICES ASSUME x \in R
                   PROVE  FALSE
        OBVIOUS
      <3> HIDE DEF S, R, rest, x
      <3>1. x \in S
        BY <1>1, <1>3
      <3>2. x <= Last(rest) /\ Last(rest) \in Nat
        BY <1>4, <3>1
      <3> QED BY <1>1, <1>3, <1>8, <3>2
    <2>2. Last(columns) > x /\ Last(columns) # 0
      <3>1. Last(columns) # x
        BY <1>2, <2>1
      <3> HIDE DEF x, R
      <3> QED BY <1>1, <1>2, <3>1
    <2>3. Last(columns) \in OpenBefore(src, l)
      BY <1>2, <1>5, <2>2
    <2>4. ~Aligned(src, l)
      BY <1>5, <2>1, <2>2, <2>3 DEF Aligned
    <2> QED BY <1>8, <2>4
  <1> QED BY <1>7, <1>8

-----------------------------------------------------------------------------
(* The tokens written.                                                     *)

\* The depth is never negative, and n at the end.
Balanced(out, n) ==
    /\ \A k \in 0 .. Len(out) : DepthAt(out, k) \in Nat
    /\ DepthAt(out, Len(out)) = n

\* The tokens of more after those of out are structural.
Extension(S, out, more) ==
    /\ out \in Seq(S) /\ more \in Seq(S) /\ Len(out) <= Len(more)
    /\ \A k \in 1 .. Len(out) : more[k] = out[k]
    /\ \A k \in Len(out) + 1 .. Len(more) : ~Plain(more[k])

\* The first token of a line is as deep as columns are open after its start.
DeepAt(src, out, k, l) == DepthAt(out, k) = Cardinality(OpenBefore(src, l + 1) \ {0})
Deep(src, out) ==
    \A l \in Lines(src) : \A k \in FirstPlain(out, LineOfPiece(src, l)) : DeepAt(src, out, k, l)

\* The depth changes by one token at a time.
LEMMA DepthNext ==
  ASSUME NEW tokens, NEW k \in Nat
  PROVE  /\ DepthAt(tokens, k) \in Int
         /\ DepthAt(tokens, k + 1) = DepthAt(tokens, k) + (IF Kind(tokens[k + 1]) = "indent" THEN 1
                                        ELSE IF Kind(tokens[k + 1]) = "dedent" THEN -1 ELSE 0)
  <1> DEFINE up == Kind(tokens[k + 1]) \in {"indent"}
             down == Kind(tokens[k + 1]) \in {"dedent"}
             a == Count({"indent"}, tokens, 1, k)
             b == Count({"dedent"}, tokens, 1, k)
  <1>1. 1 \in Int /\ k \in Int /\ 1 <= k + 1
    OBVIOUS
  <1>2. a \in Nat /\ b \in Nat
    BY <1>1, CountFinite
  <1>3. /\ Count({"indent"}, tokens, 1, k + 1) = a + (IF up THEN 1 ELSE 0)
        /\ Count({"dedent"}, tokens, 1, k + 1) = b + (IF down THEN 1 ELSE 0)
    BY <1>1, CountNext
  <1>4. DepthAt(tokens, k) = a - b
    BY DEF DepthAt
  <1>5. DepthAt(tokens, k + 1) = (a + (IF up THEN 1 ELSE 0)) - (b + (IF down THEN 1 ELSE 0))
    BY <1>3 DEF DepthAt
  <1>6. up => ~down
    OBVIOUS
  <1> HIDE DEF a, b, up, down
  <1>7. DepthAt(tokens, k + 1) = DepthAt(tokens, k) + (IF up THEN 1 ELSE IF down THEN -1 ELSE 0)
    BY <1>2, <1>4, <1>5, <1>6
  <1> QED BY <1>2, <1>4, <1>7 DEF up, down

\* It depends on the tokens up to there alone, and starts at 0.
LEMMA DepthSame ==
  ASSUME NEW tokens, NEW other, NEW k \in Nat, \A h \in 1 .. k : other[h] = tokens[h]
  PROVE  DepthAt(other, k) = DepthAt(tokens, k)
  <1>1. 1 \in Int /\ k \in Int
    OBVIOUS
  <1>2. \A h \in 1 .. k : Kind(tokens[h]) \in {"indent"} <=> Kind(other[h]) \in {"indent"}
    OBVIOUS
  <1>3. \A h \in 1 .. k : Kind(tokens[h]) \in {"dedent"} <=> Kind(other[h]) \in {"dedent"}
    OBVIOUS
  <1>4. Count({"indent"}, tokens, 1, k) = Count({"indent"}, other, 1, k)
    BY <1>1, <1>2, CountSame
  <1>5. Count({"dedent"}, tokens, 1, k) = Count({"dedent"}, other, 1, k)
    BY <1>1, <1>3, CountSame
  <1> QED BY <1>4, <1>5 DEF DepthAt

LEMMA BalancedEmpty == Balanced(<<>>, 0)
  <1>1. 1 \in Int /\ 0 \in Int /\ \A h \in 1 .. 0 : FALSE
    OBVIOUS
  <1>2. Count({"indent"}, <<>>, 1, 0) = 0 /\ Count({"dedent"}, <<>>, 1, 0) = 0
    BY <1>1, CountNone
  <1>3. DepthAt(<<>>, 0) = 0
    BY <1>2 DEF DepthAt
  <1>4. Len(<<>>) = 0 /\ \A k \in 0 .. 0 : k = 0
    OBVIOUS
  <1> QED BY <1>3, <1>4 DEF Balanced

\* One token more.
LEMMA BalancedAppend ==
  ASSUME NEW S, NEW out \in Seq(S), NEW t \in S, NEW n, Balanced(out, n), NEW m \in Nat,
         m = n + (IF Kind(t) = "indent" THEN 1 ELSE IF Kind(t) = "dedent" THEN -1 ELSE 0)
  PROVE  Balanced(Append(out, t), m)
  <1> DEFINE more == Append(out, t)
  <1>1. /\ Len(out) \in Nat /\ Len(more) = Len(out) + 1 /\ more[Len(out) + 1] = t
        /\ \A k \in 1 .. Len(out) : more[k] = out[k]
    BY AppendSeq
  <1> HIDE DEF more
  <1>2. ASSUME NEW k \in 0 .. Len(out)
        PROVE  DepthAt(more, k) = DepthAt(out, k) /\ DepthAt(out, k) \in Nat
    <2>1. k \in Nat /\ \A h \in 1 .. k : more[h] = out[h]
      BY <1>1
    <2>2. DepthAt(more, k) = DepthAt(out, k)
      BY <2>1, DepthSame
    <2> QED BY <2>2 DEF Balanced
  <1>3. DepthAt(more, Len(out)) = n
    <2>1. Len(out) \in 0 .. Len(out)
      BY <1>1
    <2> QED BY <1>2, <2>1 DEF Balanced
  <1>4. DepthAt(more, Len(out) + 1) = m
    <2>1. DepthAt(more, Len(out) + 1) = DepthAt(more, Len(out))
            + (IF Kind(more[Len(out) + 1]) = "indent" THEN 1
               ELSE IF Kind(more[Len(out) + 1]) = "dedent" THEN -1 ELSE 0)
      BY <1>1, DepthNext
    <2> QED BY <1>1, <1>3, <2>1
  <1>5. \A k \in 0 .. Len(more) : k \in 0 .. Len(out) \/ k = Len(out) + 1
    BY <1>1
  <1>6. Balanced(more, m)
    BY <1>1, <1>2, <1>4, <1>5 DEF Balanced
  <1> QED BY <1>6 DEF more

\* Repeating a token.
Grown(S, out, t, m, more) ==
    /\ more \in Seq(S) /\ Len(more) = Len(out) + m /\ Len(out) \in Nat
    /\ \A k \in 1 .. Len(out) : more[k] = out[k]
    /\ \A k \in Len(out) + 1 .. Len(out) + m : more[k] = t

LEMMA RepeatedIs ==
  ASSUME NEW S, NEW out \in Seq(S), NEW t \in S, NEW m \in Nat
  PROVE  Grown(S, out, t, m, out \o Repeated(t, m))
  <1> DEFINE r == Repeated(t, m)
             more == out \o r
  <1>1. r \in Seq(S) /\ Len(r) = m /\ \A k \in 1 .. m : r[k] = t
    BY DEF Repeated
  <1> HIDE DEF r
  <1>2. /\ more \in Seq(S) /\ Len(more) = Len(out) + Len(r) /\ Len(out) \in Nat
        /\ \A i \in 1 .. Len(more) : more[i] = IF i <= Len(out) THEN out[i] ELSE r[i - Len(out)]
    BY <1>1
  <1> HIDE DEF more
  <1>3. \A k \in 1 .. Len(out) : more[k] = out[k]
    BY <1>1, <1>2
  <1>4. ASSUME NEW k \in Len(out) + 1 .. Len(out) + m
        PROVE  more[k] = t
    <2>1. k \in 1 .. Len(more) /\ ~(k <= Len(out)) /\ k - Len(out) \in 1 .. m
      BY <1>1, <1>2
    <2> QED BY <1>1, <1>2, <2>1
  <1>5. Grown(S, out, t, m, more)
    BY <1>1, <1>2, <1>3, <1>4 DEF Grown
  <1> QED BY <1>5 DEF more, r

\* Closing blocks that are open.
LEMMA BalancedClose ==
  ASSUME NEW S, NEW out \in Seq(S), NEW t \in S, Kind(t) = "dedent",
         NEW n \in Nat, Balanced(out, n), NEW m \in 0 .. n
  PROVE  Balanced(out \o Repeated(t, m), n - m)
  <1> DEFINE more == out \o Repeated(t, m)
  <1>1. /\ Len(more) = Len(out) + m /\ Len(out) \in Nat /\ m \in Nat
        /\ \A k \in 1 .. Len(out) : more[k] = out[k]
        /\ \A k \in Len(out) + 1 .. Len(out) + m : more[k] = t
    <2>1. m \in Nat /\ t \in S /\ out \in Seq(S)
      OBVIOUS
    <2>2. Grown(S, out, t, m, more)
      BY ONLY <2>1, RepeatedIs
    <2> HIDE DEF more
    <2> QED BY <2>1, <2>2 DEF Grown
  <1> HIDE DEF more
  <1>2. ASSUME NEW k \in 0 .. Len(out)
        PROVE  DepthAt(more, k) = DepthAt(out, k) /\ DepthAt(out, k) \in Nat
    <2>1. k \in Nat /\ \A h \in 1 .. k : more[h] = out[h]
      BY <1>1
    <2>2. DepthAt(more, k) = DepthAt(out, k)
      BY <2>1, DepthSame
    <2> QED BY <2>2 DEF Balanced
  <1> DEFINE P == {d \in Nat : d <= m => DepthAt(more, Len(out) + d) = n - d}
  <1>3. 0 \in P
    <2>1. Len(out) \in 0 .. Len(out) /\ Len(out) + 0 = Len(out)
      BY <1>1
    <2>2. DepthAt(more, Len(out)) = n
      BY <1>2, <2>1 DEF Balanced
    <2> QED BY <2>1, <2>2
  <1>4. ASSUME NEW d \in Nat, d \in P
        PROVE  d + 1 \in P
    <2> SUFFICES ASSUME d + 1 <= m
                 PROVE  DepthAt(more, Len(out) + (d + 1)) = n - (d + 1)
      OBVIOUS
    <2> DEFINE k == Len(out) + d
    <2>1. k \in Nat /\ k + 1 = Len(out) + (d + 1) /\ k + 1 \in Len(out) + 1 .. Len(out) + m /\ d <= m
      BY <1>1
    <2>2. DepthAt(more, k) = n - d
      BY <1>4, <2>1
    <2> HIDE DEF k
    <2>3. DepthAt(more, k + 1) = DepthAt(more, k) + (IF Kind(more[k + 1]) = "indent" THEN 1
                                   ELSE IF Kind(more[k + 1]) = "dedent" THEN -1 ELSE 0)
      BY <2>1, DepthNext
    <2>4. Kind(more[k + 1]) = "dedent"
      BY <1>1, <2>1
    <2>5. DepthAt(more, k + 1) = n - d - 1
      BY <2>2, <2>3, <2>4
    <2> QED BY <2>1, <2>5
  <1> HIDE DEF P
  <1>5. Nat \subseteq P
    BY <1>3, <1>4, SetInduction
  <1>6. ASSUME NEW d \in 0 .. m
        PROVE  DepthAt(more, Len(out) + d) = n - d
    BY <1>5 DEF P
  <1>7. ASSUME NEW k \in 0 .. Len(more)
        PROVE  DepthAt(more, k) \in Nat
    <2>1. CASE k <= Len(out)
      BY <1>1, <1>2, <2>1
    <2>2. CASE ~(k <= Len(out))
      <3>1. k - Len(out) \in 0 .. m /\ Len(out) + (k - Len(out)) = k
        BY <1>1, <2>2
      <3>2. DepthAt(more, k) = n - (k - Len(out))
        BY <1>6, <3>1
      <3> QED BY <1>1, <3>1, <3>2
    <2> QED BY <2>1, <2>2
  <1>8. DepthAt(more, Len(more)) = n - m
    <2>1. m \in 0 .. m
      BY <1>1
    <2> QED BY <1>1, <1>6, <2>1
  <1>9. Balanced(more, n - m)
    BY <1>7, <1>8 DEF Balanced
  <1> QED BY <1>9 DEF more

\* Structural tokens leave the first tokens of the lines and their depths.
LEMMA Extended ==
  ASSUME NEW src, NEW S, NEW out, NEW more, Extension(S, out, more), Deep(src, out)
  PROVE  Deep(src, more)
  <1>1. /\ Len(out) \in Nat /\ Len(more) \in Nat /\ Len(out) <= Len(more)
        /\ DOMAIN out = 1 .. Len(out) /\ DOMAIN more = 1 .. Len(more)
        /\ \A k \in 1 .. Len(out) : more[k] = out[k]
        /\ \A k \in Len(out) + 1 .. Len(more) : ~Plain(more[k])
    BY DEF Extension
  <1>2. ASSUME NEW line, NEW k \in FirstPlain(more, line)
        PROVE  k \in FirstPlain(out, line) /\ k \in 1 .. Len(out)
    <2>1. /\ k \in 1 .. Len(more) /\ Plain(more[k]) /\ Line(more[k]) = line
          /\ \A j \in 1 .. k - 1 : Plain(more[j]) => Line(more[j]) < line
      BY <1>1 DEF FirstPlain
    <2>2. k \in 1 .. Len(out)
      BY <1>1, <2>1
    <2>3. \A j \in 1 .. k - 1 : j \in 1 .. Len(out)
      BY <1>1, <2>2
    <2> QED BY <1>1, <2>1, <2>2, <2>3 DEF FirstPlain
  <1>3. ASSUME NEW l \in Lines(src), NEW k \in FirstPlain(more, LineOfPiece(src, l))
        PROVE  DeepAt(src, more, k, l)
    <2>1. k \in FirstPlain(out, LineOfPiece(src, l)) /\ k \in 1 .. Len(out)
      BY <1>2
    <2>2. DeepAt(src, out, k, l)
      BY <2>1 DEF Deep
    <2>3. k \in Nat /\ \A h \in 1 .. k : more[h] = out[h]
      BY <1>1, <2>1
    <2>4. DepthAt(more, k) = DepthAt(out, k)
      BY <2>3, DepthSame
    <2> QED BY <2>2, <2>4 DEF DeepAt
  <1> QED BY <1>3 DEF Deep

\* A further token of a line, or the first one where the depth is right.
LEMMA DeepPlain ==
  ASSUME NEW src, NEW S, NEW out \in Seq(S), NEW t \in S, Deep(src, out),
         Kind(t) \notin {"indent", "dedent"},
         \A l \in Lines(src) : LineOfPiece(src, l) = Line(t)
            => \/ \E j \in 1 .. Len(out) : Plain(out[j]) /\ ~(Line(out[j]) < Line(t))
               \/ DeepAt(src, out, Len(out), l)
  PROVE  Deep(src, Append(out, t))
  <1> DEFINE more == Append(out, t)
  <1>1. /\ Len(out) \in Nat /\ Len(more) = Len(out) + 1 /\ more[Len(out) + 1] = t
        /\ DOMAIN more = 1 .. Len(out) + 1 /\ DOMAIN out = 1 .. Len(out)
        /\ \A k \in 1 .. Len(out) : more[k] = out[k]
    BY AppendSeq
  <1> HIDE DEF more
  <1>2. ASSUME NEW k \in 0 .. Len(out)
        PROVE  DepthAt(more, k) = DepthAt(out, k)
    <2>1. k \in Nat /\ \A h \in 1 .. k : more[h] = out[h]
      BY <1>1
    <2> QED BY <2>1, DepthSame
  <1>3. DepthAt(more, Len(out) + 1) = DepthAt(out, Len(out))
    <2>1. DepthAt(more, Len(out) + 1) = DepthAt(more, Len(out))
            + (IF Kind(more[Len(out) + 1]) = "indent" THEN 1
               ELSE IF Kind(more[Len(out) + 1]) = "dedent" THEN -1 ELSE 0)
      BY <1>1, DepthNext
    <2>2. DepthAt(more, Len(out)) \in Int
      BY <1>1, DepthNext
    <2>3. DepthAt(more, Len(out)) = DepthAt(out, Len(out))
      BY <1>1, <1>2
    <2> QED BY <1>1, <2>1, <2>2, <2>3
  <1>4. ASSUME NEW l \in Lines(src), NEW k \in FirstPlain(more, LineOfPiece(src, l))
        PROVE  DeepAt(src, more, k, l)
    <2>1. /\ k \in 1 .. Len(out) + 1 /\ Plain(more[k]) /\ Line(more[k]) = LineOfPiece(src, l)
          /\ \A j \in 1 .. k - 1 : Plain(more[j]) => Line(more[j]) < LineOfPiece(src, l)
      BY <1>1 DEF FirstPlain
    <2>2. CASE k \in 1 .. Len(out)
      <3>1. \A j \in 1 .. k - 1 : j \in 1 .. Len(out)
        BY <1>1, <2>2
      <3>2. k \in FirstPlain(out, LineOfPiece(src, l))
        BY <1>1, <2>1, <2>2, <3>1 DEF FirstPlain
      <3>3. DeepAt(src, out, k, l)
        BY <3>2 DEF Deep
      <3> QED BY <1>2, <2>2, <3>3 DEF DeepAt
    <2>3. CASE k = Len(out) + 1
      <3>1. Line(t) = LineOfPiece(src, l) /\ k - 1 = Len(out)
        BY <1>1, <2>1, <2>3
      <3>2. \A j \in 1 .. Len(out) : Plain(out[j]) => Line(out[j]) < Line(t)
        BY <1>1, <2>1, <3>1
      <3>3. DeepAt(src, out, Len(out), l)
        BY <3>1, <3>2
      <3> QED BY <1>3, <2>3, <3>3 DEF DeepAt
    <2> QED BY <1>1, <2>1, <2>2, <2>3
  <1>5. Deep(src, more)
    BY <1>4 DEF Deep
  <1> QED BY <1>5 DEF more

-----------------------------------------------------------------------------
(* The indent processor.                                                   *)

Processors(src) ==
    [columns : Seq(Nat), start : BOOLEAN, out : Seq(TokensOf(src)), ok : BOOLEAN]

\* Its stack and its tokens are right for the lines before piece i.
Written(src, i, s) ==
    /\ StackOf(src, i, s.columns)
    /\ \A l \in Lines(src) : l < i => Aligned(src, l)
    /\ Balanced(s.out, Len(s.columns) - 1)
    /\ Deep(src, s.out)

\* The token of a lexeme right before piece i is the last one.
JustWritten(src, i, out) ==
    i > 1 /\ Lexeme(src[i - 1])
        => out # <<>> /\ Plain(Last(out)) /\ Line(Last(out)) = LineOfPiece(src, i)

\* It waits for the first token of a line where a line starts, and nowhere
\* else but after a comment.
Waiting(src, c, s) ==
    /\ s.start => ~Joined(c) /\ (LineStart(src, c.i) \/ Kind(src[c.i - 1]) = "//")
    /\ LineStart(src, c.i) /\ ~Joined(c) => s.start

BlockInv(src, c, s) ==
    /\ s \in Processors(src)
    /\ ~s.ok => ~Consistent(src)
    /\ s.ok => Written(src, c.i, s) /\ JustWritten(src, c.i, s.out) /\ Waiting(src, c, s)

\* Blocks right of column x are closed.
Popped(src, s, x, p) ==
    /\ p \in Processors(src)
    /\ p.columns = SubSeq(s.columns, 1, Left(s.columns, x)) /\ p.start = s.start /\ p.ok = s.ok
    /\ Extension(TokensOf(src), s.out, p.out)
    /\ Balanced(s.out, Len(s.columns) - 1) => Balanced(p.out, Len(p.columns) - 1)

LEMMA StructuralIs ==
  ASSUME NEW src, NEW line \in Nat, NEW kind \in Made
  PROVE  Structural(kind, line) \in TokensOf(src) /\ Kind(Structural(kind, line)) = kind
         /\ ~Plain(Structural(kind, line)) /\ Line(Structural(kind, line)) = line
  BY DEF Structural, TokensOf, KindsOf, WordsOf, Kind, Line, Plain

LEMMA PopIs ==
  ASSUME NEW src, NEW s \in Processors(src), Stacked(s.columns), NEW x \in Nat, NEW line \in Nat
  PROVE  Popped(src, s, x, PopTo(s, x, line))
  <1> DEFINE m == Left(s.columns, x)
             t == Structural("dedent", line)
             S == TokensOf(src)
             out == s.out \o Repeated(t, Len(s.columns) - m)
             rest == SubSeq(s.columns, 1, m)
             p == PopTo(s, x, line)
  <1>1. t \in S /\ Kind(t) = "dedent" /\ ~Plain(t)
    <2>1. "dedent" \in Made
      BY DEF Made
    <2> QED BY <2>1, StructuralIs
  <1>2. m \in 1 .. Len(s.columns) /\ Len(s.columns) \in Nat
    <2>1. Len(s.columns) \in Nat
      BY DEF Stacked
    <2> QED BY <2>1, LeftIs
  <1>3. Stacked(rest) /\ Len(rest) = m
    BY LeftStack
  <1>4. p = [s EXCEPT !.columns = rest, !.out = out]
    BY DEF PopTo, Left
  <1> HIDE DEF t, S, m
  <1> DEFINE d == Len(s.columns) - m
  <1>5. Grown(S, s.out, t, d, out)
    <2>1. d \in Nat /\ t \in S /\ s.out \in Seq(S)
      BY <1>1, <1>2 DEF Processors, S
    <2> HIDE DEF d
    <2>2. Grown(S, s.out, t, d, s.out \o Repeated(t, d))
      BY ONLY <2>1, RepeatedIs
    <2> QED BY <2>2 DEF d
  <1> HIDE DEF out, rest
  <1>6. rest \in Seq(Nat) /\ out \in Seq(S)
    BY <1>3, <1>5 DEF Stacked, Grown
  <1>7. p \in Processors(src) /\ p.columns = rest /\ p.out = out /\ p.start = s.start /\ p.ok = s.ok
    <2> HIDE DEF p
    <2> QED BY <1>4, <1>6 DEF Processors, S
  <1>8. Extension(S, s.out, out)
    <2>1. \A k \in Len(s.out) + 1 .. Len(out) : out[k] = t
      BY <1>5 DEF Grown
    <2>2. s.out \in Seq(S) /\ Len(s.out) <= Len(out)
      BY <1>2, <1>5 DEF Grown, Processors, S
    <2> QED BY <1>1, <1>5, <2>1, <2>2 DEF Extension, Grown
  <1>9. ASSUME Balanced(s.out, Len(s.columns) - 1)
        PROVE  Balanced(out, m - 1)
    <2> DEFINE n == Len(s.columns) - 1
    <2>1. n \in Nat /\ d \in 0 .. n /\ n - d = m - 1
      BY <1>2
    <2>2. t \in S /\ s.out \in Seq(S)
      BY <1>1 DEF Processors, S
    <2>3. Balanced(s.out, n)
      BY <1>9
    <2> HIDE DEF n, d
    <2>4. Balanced(s.out \o Repeated(t, d), n - d)
      BY <1>1, <2>1, <2>2, <2>3, BalancedClose
    <2> QED BY <2>1, <2>4 DEF out, d
  <1> HIDE DEF p
  <1>10. Popped(src, s, x, p)
    BY <1>3, <1>7, <1>8, <1>9 DEF Popped, S, rest, m
  <1> QED BY <1>10 DEF p

\* Pieces at which no line starts change nothing.
LEMMA NoLinesWritten ==
  ASSUME NEW src, IsText(src), NEW c, NEW d, c.i \in Nat, d.i \in Nat, NoLines(src, c, d),
         NEW s, NEW p, Written(src, c.i, s), p.columns = s.columns,
         Balanced(p.out, Len(s.columns) - 1), Deep(src, p.out)
  PROVE  Written(src, d.i, p)
  <1>1. OpenBefore(src, d.i) = OpenBefore(src, c.i)
    BY OpenQuiet DEF NoLines
  <1>2. ASSUME NEW l \in Lines(src), l < d.i
        PROVE  l < c.i
    <2>1. l \in Nat
      BY LinesAre DEF IsText
    <2> QED BY <1>2, <2>1 DEF NoLines
  <1> QED BY <1>1, <1>2 DEF Written, StackOf

\* The four moves.
LEMMA QuietBlocks ==
  ASSUME NEW src, IsText(src), NEW c, CursorInv(src, c), NEW d, CursorInv(src, d),
         Quiet(src, c, d), NEW s, BlockInv(src, c, s)
  PROVE  BlockInv(src, d, s)
  <1>1. c.i \in Nat \ {0} /\ d.i \in Nat \ {0} /\ c.i < d.i
    BY DEF CursorInv, Cursors, Quiet, NoLines
  <1> SUFFICES ASSUME s.ok
               PROVE  Written(src, d.i, s) /\ JustWritten(src, d.i, s.out) /\ Waiting(src, d, s)
    BY DEF BlockInv
  <1>2. Written(src, c.i, s) /\ Waiting(src, c, s)
    BY DEF BlockInv
  <1>3. Written(src, d.i, s)
    <2>1. Balanced(s.out, Len(s.columns) - 1) /\ Deep(src, s.out)
      BY <1>2 DEF Written
    <2> QED BY <1>1, <1>2, <2>1, NoLinesWritten DEF Quiet
  <1>4. JustWritten(src, d.i, s.out)
    BY DEF JustWritten, Quiet
  <1>5. Waiting(src, d, s)
    <2>1. Kind(src[d.i - 1]) = "//" => ~LineStart(src, d.i)
      BY <1>1 DEF LineStart, LineEnds
    <2> QED BY <1>2, <2>1 DEF Waiting, Quiet
  <1> QED BY <1>3, <1>4, <1>5

\* A structural token more.
LEMMA AppendExtends ==
  ASSUME NEW S, NEW out \in Seq(S), NEW t \in S, ~Plain(t)
  PROVE  Extension(S, out, Append(out, t))
  <1> DEFINE more == Append(out, t)
  <1>1. /\ more \in Seq(S) /\ Len(more) = Len(out) + 1 /\ Len(out) \in Nat /\ more[Len(out) + 1] = t
        /\ \A k \in 1 .. Len(out) : more[k] = out[k]
    BY AppendSeq
  <1> HIDE DEF more
  <1>2. \A k \in Len(out) + 1 .. Len(more) : k = Len(out) + 1
    BY <1>1
  <1>3. Extension(S, out, more)
    BY <1>1, <1>2 DEF Extension
  <1> QED BY <1>3 DEF more

\* Once there is an error nothing is written.
LEMMA FailedBlocks ==
  ASSUME NEW src, NEW c, NEW d, NEW s, BlockInv(src, c, s), ~s.ok, NEW t
  PROVE  BlockInv(src, d, IndentNext(s, t))
  BY DEF BlockInv, IndentNext

LEMMA LineEndedBlocks ==
  ASSUME NEW src, IsText(src), NEW c, CursorInv(src, c), NEW d, CursorInv(src, d),
         LineEnded(src, c, d), NEW s, BlockInv(src, c, s), s.ok
  PROVE  BlockInv(src, d, IndentNext(s, <<"newline", "", c.line>>))
  <1> DEFINE t == <<"newline", "", c.line>>
             S == TokensOf(src)
             p == IndentNext(s, t)
             out == IF s.out = <<>> \/ Kind(Last(s.out)) \in {"newline", "indent"}
                    THEN s.out ELSE Append(s.out, t)
  <1>1. c.i \in Nat \ {0} /\ d.i \in Nat \ {0} /\ c.i < d.i /\ c.line \in Nat
    <2>1. c.i < d.i
      BY DEF LineEnded, NoLines
    <2> QED BY <2>1 DEF CursorInv, Cursors
  <1>2. s \in Processors(src) /\ s.out \in Seq(S) /\ Written(src, c.i, s)
    BY DEF BlockInv, Processors
  <1>3. t \in S /\ Kind(t) = "newline" /\ ~Plain(t)
    <2>1. "newline" \in Made /\ t = Structural("newline", c.line)
      BY DEF Made, Structural
    <2> HIDE DEF t
    <2> QED BY <1>1, <2>1, StructuralIs
  <1>4. p = [s EXCEPT !.start = TRUE, !.out = out]
    <2> HIDE DEF t
    <2>1. p = NewlineStep(s, t)
      BY <1>3 DEF IndentNext, IndentStep
    <2> QED BY <2>1 DEF NewlineStep
  <1> HIDE DEF t, S
  <1>5. out \in Seq(S) /\ Deep(src, out) /\ Balanced(out, Len(s.columns) - 1)
    <2>1. Deep(src, s.out) /\ Balanced(s.out, Len(s.columns) - 1)
      BY <1>2 DEF Written
    <2>2. CASE s.out = <<>> \/ Kind(Last(s.out)) \in {"newline", "indent"}
      BY <1>2, <2>1, <2>2
    <2>3. CASE ~(s.out = <<>> \/ Kind(Last(s.out)) \in {"newline", "indent"})
      <3> DEFINE more == Append(s.out, t)
      <3>1. out = more
        BY <2>3
      <3>2. more \in Seq(S) /\ Extension(S, s.out, more)
        BY <1>2, <1>3, AppendExtends
      <3>3. Deep(src, more)
        <4> HIDE DEF more
        <4> QED BY <2>1, <3>2, Extended
      <3>4. Balanced(more, Len(s.columns) - 1)
        <4> DEFINE n == Len(s.columns) - 1
        <4>1. n \in Nat /\ n = n + (IF Kind(t) = "indent" THEN 1 ELSE IF Kind(t) = "dedent" THEN -1 ELSE 0)
          BY <1>2, <1>3 DEF Written, StackOf, Stacked
        <4>2. Balanced(s.out, n)
          BY <2>1
        <4> HIDE DEF n
        <4>3. Balanced(Append(s.out, t), n)
          BY <1>2, <1>3, <4>1, <4>2, BalancedAppend
        <4> QED BY <4>3 DEF n
      <3> HIDE DEF out, more
      <3> QED BY <3>1, <3>2, <3>3, <3>4
    <2> QED BY <2>2, <2>3
  <1> HIDE DEF out, p
  <1>6. p \in Processors(src) /\ p.columns = s.columns /\ p.start = TRUE /\ p.out = out /\ p.ok = s.ok
    BY <1>2, <1>4, <1>5 DEF Processors, S
  <1>7. Written(src, d.i, p)
    BY <1>1, <1>2, <1>5, <1>6, NoLinesWritten DEF LineEnded
  <1>8. JustWritten(src, d.i, p.out) /\ Waiting(src, d, p)
    BY <1>6 DEF JustWritten, Waiting, LineEnded
  <1>9. BlockInv(src, d, p)
    BY <1>6, <1>7, <1>8 DEF BlockInv
  <1> QED BY <1>9 DEF p, t

\* A line opens a block, or closes those right of it; a misplaced one is an error.
LEMMA IndentedBlocks ==
  ASSUME NEW src, IsText(src), NEW c, CursorInv(src, c), NEW d, CursorInv(src, d),
         Indented(src, c, d), NEW s, BlockInv(src, c, s), s.ok
  PROVE  BlockInv(src, d, IndentNext(s, <<"sp", Column(src, c.i), c.line>>))
  <1> DEFINE l == c.i
             x == Column(src, l)
             t == <<"sp", x, c.line>>
             S == TokensOf(src)
             p == IndentNext(s, t)
             u == [s EXCEPT !.start = FALSE]
             q == PopTo(u, x, c.line)
             up == Structural("indent", c.line)
  <1>1. l \in Lines(src) /\ l \in Nat \ {0} /\ d.i = l + 1 /\ c.line \in Nat /\ x \in Nat /\ Kind(src[l]) = "sp"
    BY LinesAre DEF CursorInv, Cursors, Indented
  <1>2. s \in Processors(src) /\ Written(src, l, s) /\ s.start
    BY DEF BlockInv, Waiting, Indented
  <1>3. /\ StackOf(src, l, s.columns) /\ Stacked(s.columns) /\ Deep(src, s.out)
        /\ Balanced(s.out, Len(s.columns) - 1) /\ \A m \in Lines(src) : m < l => Aligned(src, m)
        /\ s.columns \in Seq(Nat) /\ Len(s.columns) \in Nat /\ Len(s.columns) > 0
    BY <1>2 DEF Written, StackOf, Stacked
  <1>4. p = ColumnStep(s, t)
    <2>1. Kind(t) = "sp"
      BY DEF Kind
    <2> HIDE DEF t
    <2> QED BY <1>2, <2>1 DEF IndentNext, IndentStep
  <1>5. Text(t) = x /\ Line(t) = c.line
    BY DEF Text, Line
  <1>6. p = IF x > Last(s.columns)
            THEN [q EXCEPT !.columns = Append(q.columns, x), !.out = Append(q.out, up)]
            ELSE [q EXCEPT !.ok = q.ok /\ Last(q.columns) = x]
    <2> HIDE DEF t, x
    <2> QED BY <1>4, <1>5 DEF ColumnStep
  <1>7. u \in Processors(src) /\ u.columns = s.columns /\ u.out = s.out /\ u.start = FALSE /\ u.ok = TRUE
    BY <1>2 DEF Processors
  <1> HIDE DEF u, x, p, q, t, l
  <1>8. Popped(src, u, x, q)
    BY <1>1, <1>3, <1>7, PopIs DEF q
  <1>9. /\ q \in Processors(src) /\ q.start = FALSE /\ q.ok = TRUE
        /\ q.columns = SubSeq(s.columns, 1, Left(s.columns, x))
        /\ Extension(S, s.out, q.out) /\ Balanced(q.out, Len(q.columns) - 1)
    BY <1>3, <1>7, <1>8 DEF Popped
  <1> HIDE DEF S
  <1>10. Deep(src, q.out)
    BY <1>3, <1>9, Extended
  <1>11. q.out \in Seq(S) /\ q.columns \in Seq(Nat)
    BY <1>9 DEF Processors, S
  <1>12. JustWritten(src, d.i, p.out) /\ ~LineStart(src, d.i)
    <2>1. src[d.i - 1] = src[l] /\ d.i # 1
      BY <1>1
    <2> QED BY <1>1, <2>1 DEF JustWritten, Lexeme, LineStart, LineEnds
  <1>13. ASSUME Aligned(src, l)
         PROVE  \A m \in Lines(src) : m < d.i => Aligned(src, m)
    <2>1. \A m \in Lines(src) : m < d.i => m < l \/ m = l
      BY <1>1, LinesAre DEF IsText
    <2> QED BY <1>3, <1>13, <2>1
  <1>14. ASSUME x > Last(s.columns)
         PROVE  BlockInv(src, d, p)
    <2> DEFINE more == Append(s.columns, x)
               out == Append(q.out, up)
    <2>1. q.columns = s.columns
      <3>1. Left(s.columns, x) = Len(s.columns)
        <4>1. /\ Left(s.columns, x) \in 1 .. Len(s.columns)
              /\ \A k \in 1 .. Len(s.columns) : s.columns[k] <= x <=> k <= Left(s.columns, x)
          BY <1>1, <1>3, LeftIs
        <4>2. Len(s.columns) \in 1 .. Len(s.columns) /\ s.columns[Len(s.columns)] \in Nat
          BY <1>3
        <4>3. s.columns[Len(s.columns)] <= x
          BY <1>1, <1>14, <4>2 DEF Last
        <4> QED BY <1>3, <4>1, <4>2, <4>3
      <3> QED BY <1>3, <1>9, <3>1, SubSeqFull
    <2>2. StackOf(src, l + 1, more) /\ Aligned(src, l)
      BY <1>1, <1>3, <1>14, StackPush DEF x
    <2>3. more \in Seq(Nat) /\ Len(more) = Len(s.columns) + 1
      BY <1>1, <1>3, AppendSeq
    <2>4. up \in S /\ Kind(up) = "indent" /\ ~Plain(up)
      <3>1. "indent" \in Made
        BY DEF Made
      <3> QED BY <1>1, <3>1, StructuralIs DEF S
    <2> HIDE DEF up
    <2>5. out \in Seq(S) /\ Extension(S, q.out, out)
      BY <1>11, <2>4, AppendExtends
    <2>6. Deep(src, out)
      <3> HIDE DEF out
      <3> QED BY <1>10, <2>5, Extended
    <2>7. Balanced(out, Len(more) - 1)
      <3> DEFINE n == Len(s.columns) - 1
                 m == Len(s.columns)
      <3>1. m \in Nat /\ m = n + (IF Kind(up) = "indent" THEN 1 ELSE IF Kind(up) = "dedent" THEN -1 ELSE 0)
        BY <1>3, <2>4
      <3>2. Balanced(q.out, n)
        BY <1>9, <2>1
      <3>3. Len(more) - 1 = m
        BY <1>3, <2>3
      <3> HIDE DEF n, m
      <3>4. Balanced(Append(q.out, up), m)
        BY <1>11, <2>4, <3>1, <3>2, BalancedAppend
      <3> QED BY <3>3, <3>4
    <2>8. p = [q EXCEPT !.columns = more, !.out = out]
      BY <1>6, <1>14, <2>1
    <2> HIDE DEF more, out
    <2>9. p \in Processors(src) /\ p.columns = more /\ p.out = out /\ p.start = FALSE /\ p.ok = TRUE
      BY <1>9, <2>3, <2>5, <2>8 DEF Processors, S
    <2>10. Written(src, d.i, p)
      BY <1>1, <1>13, <2>2, <2>6, <2>7, <2>9 DEF Written
    <2> QED BY <1>12, <2>9, <2>10 DEF BlockInv, Waiting
  <1>15. ASSUME ~(x > Last(s.columns))
         PROVE  BlockInv(src, d, p)
    <2> DEFINE good == Last(q.columns) = x
    <2>1. IF good THEN StackOf(src, l + 1, q.columns) /\ Aligned(src, l) ELSE ~Aligned(src, l)
      <3> DEFINE rest == SubSeq(s.columns, 1, Left(s.columns, x))
      <3>1. IF Last(rest) = x THEN StackOf(src, l + 1, rest) /\ Aligned(src, l) ELSE ~Aligned(src, l)
        BY <1>1, <1>3, <1>15, StackPop DEF x
      <3> QED BY <1>9, <3>1
    <2>2. p = [q EXCEPT !.ok = good]
      <3>1. q.ok /\ Last(q.columns) = x <=> good
        BY <1>9
      <3>2. p = [q EXCEPT !.ok = q.ok /\ good]
        BY <1>6, <1>15
      <3>3. (q.ok /\ good) = good
        BY <1>9
      <3> HIDE DEF good
      <3> QED BY <3>2, <3>3
    <2>3. good \in BOOLEAN
      OBVIOUS
    <2> HIDE DEF good
    <2>4. p \in Processors(src) /\ p.columns = q.columns /\ p.out = q.out /\ p.start = FALSE /\ p.ok = good
      BY <1>9, <2>2, <2>3 DEF Processors
    <2>5. CASE good
      <3>1. Written(src, d.i, p)
        BY <1>1, <1>9, <1>10, <1>13, <2>1, <2>4, <2>5 DEF Written
      <3> QED BY <1>12, <2>4, <2>5, <3>1 DEF BlockInv, Waiting
    <2>6. CASE ~good
      <3>1. ~Consistent(src)
        BY <1>1, <2>1, <2>6 DEF Consistent
      <3> QED BY <2>4, <2>6, <3>1 DEF BlockInv
    <2> QED BY <2>5, <2>6
  <1>16. BlockInv(src, d, p)
    BY <1>14, <1>15
  <1> QED BY <1>16 DEF p, t, x, l

\* A lexeme is first on its line, or comes right after another one, or after
\* the spaces of its line.
LEMMA LexemeOnLine ==
  ASSUME NEW src, IsText(src), NEW i \in 1 .. Len(src), Lexeme(src[i]),
         NEW l \in Lines(src), LineOfPiece(src, l) = LineOfPiece(src, i)
  PROVE  \/ l = i
         \/ i > 1 /\ Lexeme(src[i - 1])
         \/ l = i - 1 /\ ~LineStart(src, i)
  <1>1. l \in 1 .. Len(src) /\ LineStart(src, l) /\ Len(src) \in Nat
    BY LinesAre DEF Lines, IsText
  <1>2. ASSUME NEW k \in 1 .. Len(src), LineStart(src, k), k <= i
        PROVE  l >= k
    <2> SUFFICES ASSUME l < k
                 PROVE  FALSE
      BY <1>1
    <2>1. l \in Nat \ {0} /\ k \in Nat \ {0} /\ i \in Nat \ {0}
      BY <1>1
    <2>2. LineOfPiece(src, l) < LineOfPiece(src, k)
      BY <1>2, <2>1, LineNumbers
    <2>3. LineOfPiece(src, i) = LineOfPiece(src, k) + Count(LineEnds, src, k, i - 1)
      BY <1>2, <2>1, LineLater
    <2>4. Count(LineEnds, src, k, i - 1) \in Nat
      <3>1. k \in Int /\ i - 1 \in Int
        BY <2>1
      <3> QED BY <3>1, CountFinite
    <2>5. LineOfPiece(src, k) \in Nat /\ LineOfPiece(src, l) \in Nat
      BY <2>1, LineLater
    <2> QED BY <2>2, <2>3, <2>4, <2>5
  <1>3. l <= i
    <2> SUFFICES ASSUME i < l
                 PROVE  FALSE
      BY <1>1
    <2>1. l \in Nat \ {0} /\ i \in Nat \ {0}
      BY <1>1
    <2>2. LineOfPiece(src, i) < LineOfPiece(src, l)
      BY <1>1, <2>1, LineNumbers
    <2>3. LineOfPiece(src, i) \in Nat
      BY <2>1, LineLater
    <2> QED BY <2>2, <2>3
  <1>4. CASE LineStart(src, i)
    BY <1>1, <1>2, <1>3, <1>4
  <1>5. CASE ~LineStart(src, i)
    <2>1. i > 1 /\ i - 1 \in 1 .. Len(src) /\ Kind(src[i - 1]) \notin LineEnds
      BY <1>1, <1>5 DEF LineStart
    <2>2. Kind(src[i - 1]) # "tab"
      BY <1>1, <2>1 DEF IsText, Legible, Refused
    <2>3. Kind(src[i - 1]) # "//"
      <3>1. i - 1 + 1 = i /\ i - 1 \in DOMAIN src /\ i - 1 < Len(src)
        BY <1>1, <2>1 DEF IsText
      <3>2. Kind(src[i - 1]) = "//" => Kind(src[i]) = "nl"
        BY <3>1 DEF IsText, WellFormed
      <3>3. Kind(src[i]) # "nl"
        BY DEF Lexeme, LineEnds
      <3> QED BY <3>2, <3>3
    <2>4. CASE Kind(src[i - 1]) = "sp"
      <3>1. LineStart(src, i - 1)
        BY <1>1, <2>1, <2>4 DEF IsText, WellFormed
      <3>2. l >= i - 1
        <4> DEFINE k == i - 1
        <4>1. k \in 1 .. Len(src) /\ LineStart(src, k) /\ k <= i
          BY <1>1, <2>1, <3>1
        <4> HIDE DEF k
        <4>2. l >= k
          BY <1>2, <4>1
        <4> QED BY <4>2 DEF k
      <3>3. l = i - 1 \/ l = i
        BY <1>1, <1>3, <2>1, <3>2
      <3> QED BY <1>5, <3>3
    <2>5. CASE Kind(src[i - 1]) # "sp"
      BY <2>1, <2>2, <2>3, <2>5 DEF Lexeme
    <2> QED BY <2>4, <2>5
  <1> QED BY <1>4, <1>5

\* A lexeme at column 0 closes every block; any lexeme is written.
LEMMA LexemeBlocks ==
  ASSUME NEW src, IsText(src), NEW c, CursorInv(src, c), ~AtEnd(c), NEW d, CursorInv(src, d),
         LexemeRead(src, c, d), NEW s, BlockInv(src, c, s), s.ok, NEW text \in WordsOf(src)
  PROVE  BlockInv(src, d, IndentNext(s, <<Kind(src[c.i]), text, c.line>>))
  <1> DEFINE l == c.i
             t == <<Kind(src[l]), text, c.line>>
             S == TokensOf(src)
             p == IndentNext(s, t)
             q == IF s.start THEN PopTo(s, 0, c.line) ELSE s
  <1>1. /\ l \in 1 .. Len(src) /\ Len(src) \in Nat /\ l \in Nat \ {0} /\ d.i = l + 1
        /\ c.line \in Nat /\ c.line = LineOfPiece(src, l) /\ Lexeme(src[l])
    <2>1. Len(src) \in Nat /\ c \in Cursors(src)
      BY DEF IsText, CursorInv
    <2>2. l \in 1 .. Len(src)
      BY <2>1, PeekIs
    <2> QED BY <2>1, <2>2 DEF CursorInv, Cursors, LexemeRead
  <1>2. Kind(src[l]) \notin Made /\ Kind(src[l]) # "sp"
    BY <1>1 DEF IsText, WellFormed, Lexeme
  <1>3. t \in S /\ Kind(t) = Kind(src[l]) /\ Line(t) = c.line /\ Plain(t)
    BY <1>1, <1>2 DEF TokensOf, KindsOf, Kind, Line, Plain
  <1>4. s \in Processors(src) /\ Written(src, l, s) /\ Waiting(src, c, s) /\ JustWritten(src, l, s.out)
    BY DEF BlockInv
  <1>5. /\ StackOf(src, l, s.columns) /\ Stacked(s.columns) /\ Deep(src, s.out)
        /\ Balanced(s.out, Len(s.columns) - 1) /\ \A m \in Lines(src) : m < l => Aligned(src, m)
        /\ s.columns \in Seq(Nat) /\ Len(s.columns) \in Nat /\ Len(s.columns) > 0
    BY <1>4 DEF Written, StackOf, Stacked
  <1>6. s.start <=> l \in Lines(src)
    <2>1. l \in Lines(src) <=> LineStart(src, l) /\ ~Joined(c)
      BY DEF LexemeRead
    <2>2. l > 1 /\ Kind(src[l - 1]) = "//" => Kind(src[l]) = "nl"
      <3> SUFFICES ASSUME l > 1, Kind(src[l - 1]) = "//"
                   PROVE  Kind(src[l]) = "nl"
        OBVIOUS
      <3>1. l - 1 \in DOMAIN src /\ l - 1 < Len(src) /\ l - 1 + 1 = l
        BY <1>1 DEF IsText
      <3> QED BY <3>1 DEF IsText, WellFormed
    <2>3. Kind(src[l]) # "nl"
      BY <1>1 DEF Lexeme, LineEnds
    <2>4. l = 1 => LineStart(src, l)
      BY DEF LineStart
    <2>5. l = 1 \/ l > 1
      BY <1>1
    <2> QED BY <1>4, <2>1, <2>2, <2>3, <2>4, <2>5 DEF Waiting
  <1>7. p = [q EXCEPT !.start = FALSE, !.out = Append(q.out, t)]
    <2>1. Kind(t) \notin {"newline", "sp", "eof"}
      BY <1>2, <1>3 DEF Made
    <2> HIDE DEF t
    <2>2. p = PlainStep(s, t)
      BY <2>1 DEF IndentNext, IndentStep
    <2> QED BY <1>3, <2>1, <2>2 DEF PlainStep
  <1> HIDE DEF l, t, S, p
  <1>8. /\ q \in Processors(src) /\ q.ok = TRUE
        /\ StackOf(src, l + 1, q.columns) /\ \A m \in Lines(src) : m < l + 1 => Aligned(src, m)
        /\ Balanced(q.out, Len(q.columns) - 1) /\ Deep(src, q.out)
        /\ l \notin Lines(src) => q = s
    <2>1. CASE l \in Lines(src)
      <3>1. Column(src, l) = 0
        BY <1>2 DEF Column
      <3>2. q = PopTo(s, 0, c.line)
        BY <1>6, <2>1
      <3> HIDE DEF q
      <3>3. 0 \in Nat /\ Popped(src, s, 0, q)
        BY <1>1, <1>4, <1>5, <3>2, PopIs
      <3>4. q \in Processors(src) /\ q.ok = TRUE /\ Balanced(q.out, Len(q.columns) - 1)
            /\ Extension(S, s.out, q.out) /\ q.columns = SubSeq(s.columns, 1, Left(s.columns, 0))
        <4>1. s.ok = TRUE
          BY <1>4 DEF Processors
        <4> QED BY <1>5, <3>3, <4>1 DEF Popped, S
      <3> HIDE DEF S
      <3>5. Deep(src, q.out)
        BY <1>5, <3>4, Extended
      <3>6. ~(Column(src, l) > Last(s.columns)) /\ Last(q.columns) = 0
        <4>1. Stacked(q.columns) /\ Last(q.columns) <= 0
          <5> DEFINE rest == SubSeq(s.columns, 1, Left(s.columns, 0))
          <5>1. Stacked(rest) /\ Last(rest) <= 0
            BY <1>5, LeftStack
          <5> QED BY <3>4, <5>1
        <4>2. Last(s.columns) \in Nat /\ Last(q.columns) \in Nat
          BY <1>5, <4>1, LastColumn
        <4> QED BY <3>1, <4>1, <4>2
      <3>7. StackOf(src, l + 1, q.columns) /\ Aligned(src, l)
        <4> DEFINE rest == SubSeq(s.columns, 1, Left(s.columns, Column(src, l)))
        <4>1. IF Last(rest) = Column(src, l) THEN StackOf(src, l + 1, rest) /\ Aligned(src, l)
              ELSE ~Aligned(src, l)
          BY <1>5, <2>1, <3>6, StackPop
        <4>2. rest = q.columns
          BY <3>1, <3>4
        <4> QED BY <3>1, <3>6, <4>1, <4>2
      <3>8. \A m \in Lines(src) : m < l + 1 => Aligned(src, m)
        <4>1. \A m \in Lines(src) : m < l + 1 => m < l \/ m = l
          BY <1>1, LinesAre DEF IsText
        <4> QED BY <1>5, <3>7, <4>1
      <3> QED BY <2>1, <3>4, <3>5, <3>7, <3>8
    <2>2. CASE l \notin Lines(src)
      <3>1. q = s /\ s.ok = TRUE
        BY <1>4, <1>6, <2>2 DEF Processors
      <3> HIDE DEF q
      <3>2. \A m \in Lines(src) : m < l + 1 => m < l
        BY <1>1, <2>2, LinesAre DEF IsText
      <3>3. OpenBefore(src, l + 1) = OpenBefore(src, l)
        <4>1. l \in Nat /\ l + 1 \in Nat /\ l <= l + 1 /\ \A h \in l .. l + 1 - 1 : h = l
          BY <1>1
        <4> DEFINE k == l + 1
        <4>2. k \in Nat /\ l <= k /\ \A h \in l .. k - 1 : h \notin Lines(src)
          BY <2>2, <4>1
        <4> HIDE DEF k
        <4>3. OpenBefore(src, k) = OpenBefore(src, l)
          BY <4>1, <4>2, OpenQuiet
        <4> QED BY <4>3 DEF k
      <3> QED BY <1>4, <1>5, <3>1, <3>2, <3>3 DEF StackOf
    <2> QED BY <2>1, <2>2
  <1> HIDE DEF q
  <1> DEFINE out == Append(q.out, t)
             n == Len(q.columns) - 1
  <1>9. q.out \in Seq(S) /\ Len(q.out) \in Nat /\ n \in Nat
    BY <1>8 DEF Processors, S, StackOf, Stacked
  <1>10. /\ out \in Seq(S) /\ Len(out) = Len(q.out) + 1 /\ Last(out) = t /\ out # <<>>
    <2>1. out \in Seq(S) /\ Len(out) = Len(q.out) + 1 /\ Last(out) = t
      BY <1>3, <1>9, AppendSeq
    <2> HIDE DEF out
    <2> QED BY <1>9, <2>1
  <1>11. Kind(t) \notin {"indent", "dedent"}
    BY <1>3 DEF Plain, Made
  <1>12. Balanced(out, n)
    <2>1. Balanced(q.out, n)
      BY <1>8
    <2> HIDE DEF n
    <2>2. n = n + (IF Kind(t) = "indent" THEN 1 ELSE IF Kind(t) = "dedent" THEN -1 ELSE 0)
      BY <1>9, <1>11
    <2> QED BY <1>3, <1>9, <2>1, <2>2, BalancedAppend
  <1>13. Deep(src, out)
    <2>1. ASSUME NEW m \in Lines(src), LineOfPiece(src, m) = Line(t)
          PROVE  \/ \E j \in 1 .. Len(q.out) : Plain(q.out[j]) /\ ~(Line(q.out[j]) < Line(t))
                 \/ DeepAt(src, q.out, Len(q.out), m)
      <3>1. LineOfPiece(src, m) = LineOfPiece(src, l)
        BY <1>1, <1>3, <2>1
      <3>2. \/ m = l
            \/ l > 1 /\ Lexeme(src[l - 1])
            \/ m = l - 1 /\ ~LineStart(src, l)
        <4>1. IsText(src) /\ l \in 1 .. Len(src) /\ Lexeme(src[l]) /\ m \in Lines(src)
          BY <1>1
        <4> QED BY <3>1, <4>1, LexemeOnLine
      <3>3. DepthAt(q.out, Len(q.out)) = Len(q.columns) - 1
        BY <1>8 DEF Balanced
      <3>4. Cardinality(OpenBefore(src, l + 1) \ {0}) = Len(q.columns) - 1
        BY <1>8, StackSize
      <3>5. CASE m = l
        BY <3>3, <3>4, <3>5 DEF DeepAt
      <3>6. CASE l \notin Lines(src) /\ m = l - 1
        <4>1. Cardinality(OpenBefore(src, l) \ {0}) = Len(q.columns) - 1
          BY <1>5, <1>8, <3>6, StackSize
        <4>2. m + 1 = l
          BY <1>1, <3>6
        <4> QED BY <3>3, <4>1, <4>2 DEF DeepAt
      <3>7. CASE l \notin Lines(src) /\ l > 1 /\ Lexeme(src[l - 1])
        <4>1. q.out # <<>> /\ Plain(Last(q.out)) /\ Line(Last(q.out)) = Line(t)
          BY <1>1, <1>3, <1>4, <1>8, <3>7 DEF JustWritten
        <4>2. Len(q.out) \in 1 .. Len(q.out) /\ Last(q.out) = q.out[Len(q.out)]
          BY <1>9, <4>1 DEF Last
        <4>3. ~(Line(t) < Line(t))
          BY <1>1, <1>3
        <4> QED BY <4>1, <4>2, <4>3
      <3>8. l \in Lines(src) => LineStart(src, l)
        BY DEF Lines
      <3>9. CASE l \in Lines(src) /\ m # l
        <4>1. l \in Nat \ {0} /\ m \in Nat \ {0}
          BY <1>1, LinesAre DEF IsText
        <4>2. LineOfPiece(src, l) \in Nat
          BY <4>1, LineLater
        <4>3. m < l => LineOfPiece(src, m) < LineOfPiece(src, l)
          BY <3>8, <3>9, <4>1, LineNumbers
        <4>4. l < m => LineOfPiece(src, l) < LineOfPiece(src, m)
          <5>1. LineStart(src, m)
            BY DEF Lines
          <5> QED BY <4>1, <5>1, LineNumbers
        <4> QED BY <3>1, <3>9, <4>1, <4>2, <4>3, <4>4
      <3> QED BY <3>2, <3>5, <3>6, <3>7, <3>8, <3>9
    <2>2. Deep(src, q.out)
      BY <1>8
    <2> QED BY <1>3, <1>9, <1>11, <2>1, <2>2, DeepPlain
  <1> HIDE DEF out
  <1>14. p \in Processors(src) /\ p.columns = q.columns /\ p.start = FALSE /\ p.out = out /\ p.ok = TRUE
    <2>1. p = [q EXCEPT !.start = FALSE, !.out = out]
      BY <1>7 DEF out
    <2> QED BY <1>8, <1>10, <2>1 DEF Processors, S
  <1>15. Written(src, d.i, p)
    BY <1>1, <1>8, <1>12, <1>13, <1>14 DEF Written
  <1>16. JustWritten(src, d.i, p.out)
    <2>1. LineOfPiece(src, l + 1) = LineOfPiece(src, l)
      <3>1. l \in Nat \ {0} /\ l + 1 \in Nat \ {0} /\ l <= l + 1 /\ l + 1 - 1 = l
        BY <1>1
      <3>2. \A h \in l .. l : Kind(src[h]) \notin LineEnds
        BY <1>1 DEF Lexeme
      <3>3. Count(LineEnds, src, l, l) = 0
        BY <1>1, <3>2, CountNone
      <3> DEFINE k == l + 1
      <3>4. k \in Nat \ {0} /\ l <= k /\ k - 1 = l
        BY <3>1
      <3> HIDE DEF k
      <3>5. LineOfPiece(src, k) = LineOfPiece(src, l) + Count(LineEnds, src, l, k - 1) /\ LineOfPiece(src, l) \in Nat
        BY <3>1, <3>4, LineLater
      <3>6. LineOfPiece(src, k) = LineOfPiece(src, l)
        BY <3>3, <3>4, <3>5
      <3> QED BY <3>6 DEF k
    <2> QED BY <1>1, <1>3, <1>10, <1>14, <2>1 DEF JustWritten
  <1>17. Waiting(src, d, p)
    <2>1. ~LineStart(src, d.i)
      <3>1. src[d.i - 1] = src[l] /\ d.i # 1
        BY <1>1
      <3> QED BY <1>1, <3>1 DEF LineStart, Lexeme
    <2> QED BY <1>14, <2>1 DEF Waiting
  <1>18. BlockInv(src, d, p)
    BY <1>14, <1>15, <1>16, <1>17 DEF BlockInv
  <1> QED BY <1>18 DEF p, t, l

-----------------------------------------------------------------------------
(* The whole text.                                                         *)

\* A turn keeps both invariants.
LEMMA TurnBlocks ==
  ASSUME NEW src, IsText(src), NEW c, CursorInv(src, c), ~AtEnd(c),
         BlockInv(src, c, IndentAll(c.raw))
  PROVE  /\ CursorInv(src, Turn(c)) /\ c.i < Turn(c).i
         /\ BlockInv(src, Turn(c), IndentAll(Turn(c).raw))
  <1> DEFINE d == Turn(c)
             s == IndentAll(c.raw)
             S == TokensOf(src)
  <1>1. c.raw \in Seq(S) /\ c.line \in Nat /\ c.i \in 1 .. Len(src)
    <2>1. c \in Cursors(src) /\ Len(src) \in Nat
      BY DEF CursorInv, IsText
    <2> QED BY <2>1, PeekIs DEF Cursors
  <1>2. /\ CursorInv(src, d)
        /\ Quiet(src, c, d) \/ LineEnded(src, c, d) \/ Indented(src, c, d) \/ LexemeRead(src, c, d)
    BY TurnMoves
  <1>3. c.i < d.i
    <2>1. Quiet(src, c, d) \/ LineEnded(src, c, d) => c.i < d.i
      BY DEF Quiet, LineEnded, NoLines
    <2>2. Indented(src, c, d) \/ LexemeRead(src, c, d) => d.i = c.i + 1
      BY DEF Indented, LexemeRead
    <2> HIDE DEF d
    <2> QED BY <1>1, <1>2, <2>1, <2>2
  <1> HIDE DEF d, s
  <1>4. ASSUME NEW t \in S, d.raw = Append(c.raw, t)
        PROVE  IndentAll(d.raw) = IndentNext(s, t)
    BY <1>1, <1>4, IndentAppend DEF s
  <1>5. BlockInv(src, c, s)
    BY DEF s
  <1>6. CASE Quiet(src, c, d)
    <2>1. IndentAll(d.raw) = s
      BY <1>6 DEF Quiet, s
    <2> QED BY <1>2, <1>3, <1>5, <1>6, <2>1, QuietBlocks DEF d
  <1>7. CASE LineEnded(src, c, d)
    <2> DEFINE t == <<"newline", "", c.line>>
    <2>1. t \in S
      BY <1>1 DEF TokensOf, KindsOf, WordsOf, Made
    <2>2. d.raw = Append(c.raw, t)
      BY <1>7 DEF LineEnded
    <2>3. IndentAll(d.raw) = IndentNext(s, t)
      BY <1>4, <2>1, <2>2
    <2>4. BlockInv(src, d, IndentNext(s, t))
      <3>1. CASE s.ok
        BY <1>2, <1>5, <1>7, <3>1, LineEndedBlocks
      <3>2. CASE ~s.ok
        BY <1>5, <3>2, FailedBlocks
      <3> QED BY <3>1, <3>2
    <2> QED BY <1>2, <1>3, <2>3, <2>4 DEF d
  <1>8. CASE Indented(src, c, d)
    <2> DEFINE t == <<"sp", Column(src, c.i), c.line>>
    <2>1. t \in S
      <3>1. Column(src, c.i) \in WordsOf(src)
        BY <1>1, <1>8 DEF Indented, Column, WordsOf
      <3> QED BY <1>1, <3>1 DEF TokensOf, KindsOf
    <2>2. d.raw = Append(c.raw, t)
      BY <1>8 DEF Indented
    <2>3. IndentAll(d.raw) = IndentNext(s, t)
      BY <1>4, <2>1, <2>2
    <2>4. BlockInv(src, d, IndentNext(s, t))
      <3>1. CASE s.ok
        BY <1>2, <1>5, <1>8, <3>1, IndentedBlocks
      <3>2. CASE ~s.ok
        BY <1>5, <3>2, FailedBlocks
      <3> QED BY <3>1, <3>2
    <2> QED BY <1>2, <1>3, <2>3, <2>4 DEF d
  <1>9. CASE LexemeRead(src, c, d)
    <2>0. PICK text \in WordsOf(src) : d.raw = Append(c.raw, <<Kind(src[c.i]), text, c.line>>)
      BY <1>9 DEF LexemeRead
    <2> DEFINE t == <<Kind(src[c.i]), text, c.line>>
    <2>1. t \in S
      BY <1>1 DEF TokensOf, KindsOf
    <2>2. d.raw = Append(c.raw, t)
      BY <2>0
    <2>3. IndentAll(d.raw) = IndentNext(s, t)
      BY <1>4, <2>1, <2>2
    <2>4. BlockInv(src, d, IndentNext(s, t))
      <3>1. CASE s.ok
        BY <1>2, <1>5, <1>9, <3>1, LexemeBlocks
      <3>2. CASE ~s.ok
        BY <1>5, <3>2, FailedBlocks
      <3> QED BY <3>1, <3>2
    <2> QED BY <1>2, <1>3, <2>3, <2>4 DEF d
  <1> QED BY <1>2, <1>6, <1>7, <1>8, <1>9

\* Both hold before the first turn.
LEMMA FirstTurn ==
  ASSUME NEW src, IsText(src)
  PROVE  LET c == NewCursor(src) IN CursorInv(src, c) /\ BlockInv(src, c, IndentAll(c.raw))
  <1> DEFINE c == NewCursor(src)
             s == NewIndents
  <1>1. Len(src) \in Nat
    BY DEF IsText
  <1>2. /\ c.src = src /\ c.i = 1 /\ c.line = 1 /\ c.start = TRUE /\ c.depth = 0
        /\ c.continuation = FALSE /\ c.raw = <<>> /\ c.ok = TRUE /\ c \in Cursors(src)
    <2>1. <<>> \in Seq(TokensOf(src)) /\ 1 \in 1 .. Len(src) + 1
      BY <1>1
    <2>2. Len(src) <= MaxSource
      BY DEF IsText, Legible
    <2> QED BY <2>1, <2>2 DEF NewCursor, Cursors
  <1> HIDE DEF c
  <1>3. LineOfPiece(src, 1) = 1
    <2>1. 1 \in Int /\ 0 \in Int /\ \A h \in 1 .. 0 : FALSE
      OBVIOUS
    <2>2. Count(LineEnds, src, 1, 0) = 0
      BY <2>1, CountNone
    <2> QED BY <2>2 DEF LineOfPiece
  <1>4. LineStart(src, 1) /\ ~GoesOn(src, 1)
    BY DEF LineStart, GoesOn
  <1>5. CursorInv(src, c)
    BY <1>2, <1>3, <1>4, DepthFirst DEF CursorInv
  <1>6. IndentAll(c.raw) = s
    BY <1>2, IndentEmpty
  <1>7. /\ s.columns = <<0>> /\ s.start = TRUE /\ s.out = <<>> /\ s.ok = TRUE
        /\ s \in Processors(src)
    <2>1. <<>> \in Seq(TokensOf(src)) /\ <<0>> \in Seq(Nat)
      OBVIOUS
    <2> QED BY <2>1 DEF NewIndents, Processors
  <1> HIDE DEF s
  <1>8. Written(src, 1, s)
    <2>1. \A l \in Lines(src) : ~(l < 1)
      BY LinesAre, <1>1
    <2>2. OpenBefore(src, 1) = {}
      BY <2>1 DEF OpenBefore
    <2>3. StackOf(src, 1, <<0>>)
      <3>1. Len(<<0>>) = 1 /\ <<0>>[1] = 0 /\ <<0>> \in Seq(Nat)
        OBVIOUS
      <3>2. \A k \in 1 .. 1 : k = 1
        OBVIOUS
      <3>3. Stacked(<<0>>)
        BY <3>1, <3>2 DEF Stacked
      <3>4. {<<0>>[k] : k \in 1 .. Len(<<0>>)} = {0}
        BY <3>1, <3>2
      <3> QED BY <2>2, <3>3, <3>4 DEF StackOf
    <2>4. Deep(src, <<>>)
      BY DEF Deep, FirstPlain
    <2>5. Balanced(<<>>, Len(<<0>>) - 1)
      <3>1. Len(<<0>>) - 1 = 0
        OBVIOUS
      <3> QED BY <3>1, BalancedEmpty
    <2> QED BY <1>7, <2>1, <2>3, <2>4, <2>5 DEF Written
  <1>9. ~Joined(c)
    BY <1>2 DEF Joined
  <1>10. BlockInv(src, c, s)
    <2>1. JustWritten(src, 1, s.out)
      BY DEF JustWritten
    <2>2. Waiting(src, c, s)
      BY <1>2, <1>4, <1>7, <1>9 DEF Waiting
    <2> QED BY <1>2, <1>7, <1>8, <2>1, <2>2 DEF BlockInv
  <1> QED BY <1>5, <1>6, <1>10 DEF c

\* And after the last one, which is at the end of the text.
LEMMA LastTurn ==
  ASSUME NEW src, IsText(src)
  PROVE  LET c == ScanAll(NewCursor(src))
         IN  CursorInv(src, c) /\ AtEnd(c) /\ BlockInv(src, c, IndentAll(c.raw))
  <1> DEFINE a == NewCursor(src)
             Inv(c) == CursorInv(src, c) /\ BlockInv(src, c, IndentAll(c.raw))
  <1>1. a.src = src /\ Inv(a) /\ Len(src) \in Nat
    BY FirstTurn DEF NewCursor, IsText
  <1> HIDE DEF a
  <1>2. PICK f : /\ f[0] = a
                 /\ \A n \in Nat : n < Len(src) => f[n + 1] = Turn(f[n])
                 /\ ScanAll(a) = f[Len(src)]
    BY <1>1, ScanTurns
  <1> DEFINE P == {n \in Nat : n <= Len(src) => Inv(f[n]) /\ (AtEnd(f[n]) \/ n < f[n].i)}
  <1>3. 0 \in P
    <2>1. a.i \in Nat /\ 0 < a.i
      BY <1>1 DEF CursorInv, Cursors
    <2> HIDE DEF Inv
    <2> QED BY <1>1, <1>2, <2>1
  <1>4. ASSUME NEW n \in Nat, n \in P
        PROVE  n + 1 \in P
    <2> SUFFICES ASSUME n + 1 <= Len(src)
                 PROVE  Inv(f[n + 1]) /\ (AtEnd(f[n + 1]) \/ n + 1 < f[n + 1].i)
      OBVIOUS
    <2> DEFINE c == f[n]
    <2>1. n < Len(src) /\ n <= Len(src)
      BY <1>1
    <2>2. Inv(c) /\ (AtEnd(c) \/ n < c.i) /\ f[n + 1] = Turn(c)
      BY <1>2, <1>4, <2>1
    <2> HIDE DEF c
    <2>3. CASE AtEnd(c)
      <3>1. Turn(c) = c
        BY <2>3 DEF Turn
      <3> HIDE DEF Inv
      <3> QED BY <2>2, <2>3, <3>1
    <2>4. CASE ~AtEnd(c)
      <3>1. Inv(Turn(c)) /\ c.i < Turn(c).i
        BY <2>2, <2>4, TurnBlocks
      <3>2. c.i \in Nat /\ Turn(c).i \in Nat
        BY <2>2, <3>1 DEF CursorInv, Cursors
      <3>3. n + 1 < Turn(c).i
        BY <2>2, <2>4, <3>1, <3>2
      <3> HIDE DEF Inv
      <3> QED BY <2>2, <3>1, <3>3
    <2> QED BY <2>3, <2>4
  <1> HIDE DEF P
  <1>5. Nat \subseteq P
    BY <1>3, <1>4, SetInduction
  <1> DEFINE e == f[Len(src)]
  <1>6. Inv(e) /\ (AtEnd(e) \/ Len(src) < e.i)
    BY <1>1, <1>5 DEF P
  <1>7. AtEnd(e)
    <2>1. e \in Cursors(src)
      BY <1>6 DEF CursorInv
    <2>2. e.src = src
      BY <2>1 DEF Cursors
    <2> QED BY <1>6, <2>2 DEF AtEnd
  <1> QED BY <1>2, <1>6, <1>7 DEF a

\* The front of a sequence is what was there before its last element.
LEMMA FrontAppend ==
  ASSUME NEW S, NEW s \in Seq(S), NEW e \in S
  PROVE  Front(Append(s, e)) = s /\ Last(Append(s, e)) = e
  <1> DEFINE more == Append(s, e)
             front == SubSeq(more, 1, Len(s))
  <1>1. /\ more \in Seq(S) /\ Len(more) = Len(s) + 1 /\ Len(s) \in Nat /\ Last(more) = e
        /\ \A k \in 1 .. Len(s) : more[k] = s[k]
    BY AppendSeq
  <1> HIDE DEF more
  <1>2. 1 \in Int /\ Len(s) \in Int /\ \A k \in 1 .. Len(s) : more[k] \in S
    BY <1>1
  <1>3. /\ front \in Seq(S) /\ Len(front) = IF 1 <= Len(s) THEN Len(s) - 1 + 1 ELSE 0
        /\ \A k \in 1 .. Len(s) - 1 + 1 : front[k] = more[1 + k - 1]
    BY <1>2, SubSeqProperties
  <1> HIDE DEF front
  <1>4. Len(s) = Len(front)
    BY <1>1, <1>3
  <1>5. \A k \in 1 .. Len(s) : s[k] = front[k]
    <2>1. \A k \in 1 .. Len(s) : k \in 1 .. Len(s) - 1 + 1 /\ 1 + k - 1 = k
      BY <1>1
    <2> QED BY <1>1, <1>3, <2>1
  <1>6. s = front
    BY <1>3, <1>4, <1>5, SeqEqual
  <1>7. Front(more) = front
    <2>1. Len(more) - 1 = Len(s)
      BY <1>1
    <2> QED BY <2>1 DEF Front, front
  <1> QED BY <1>1, <1>6, <1>7 DEF more

\* At the end of the file the blocks that are open are closed.
LEMMA CloseBlocks ==
  ASSUME NEW src, NEW p \in Processors(src), NEW out \in Seq(TokensOf(src)), NEW line \in Nat,
         p.out = Append(out, <<"eof", "", line>>), p.columns \in Seq(Nat), Len(p.columns) > 0,
         Balanced(out, Len(p.columns) - 1), Deep(src, out)
  PROVE  /\ CloseAll(p) \in Seq(TokensOf(src))
         /\ Balanced(CloseAll(p), 0) /\ Deep(src, CloseAll(p))
  <1> DEFINE S == TokensOf(src)
             eof == <<"eof", "", line>>
             down == Structural("dedent", line)
             ln == Structural("newline", line)
             n == Len(p.columns) - 1
             closed == out \o Repeated(down, n)
             ended == IF closed = <<>> \/ Kind(Last(closed)) \in {"newline", "dedent"}
                      THEN closed ELSE Append(closed, ln)
             all == Append(ended, eof)
  <1>1. /\ eof \in S /\ down \in S /\ ln \in S
        /\ Kind(eof) = "eof" /\ Kind(down) = "dedent" /\ Kind(ln) = "newline"
        /\ ~Plain(eof) /\ ~Plain(down) /\ ~Plain(ln)
    <2>1. "eof" \in Made /\ "dedent" \in Made /\ "newline" \in Made
      BY DEF Made
    <2>2. eof = Structural("eof", line)
      BY DEF Structural
    <2> HIDE DEF eof
    <2> QED BY <2>1, <2>2, StructuralIs
  <1>2. Last(p.out) = eof /\ Front(p.out) = out /\ Line(eof) = line
    <2>1. out \in Seq(S) /\ eof \in S
      BY <1>1
    <2>2. Line(eof) = line
      BY DEF Line
    <2> HIDE DEF eof, S
    <2>3. Last(Append(out, eof)) = eof /\ Front(Append(out, eof)) = out
      BY <2>1, FrontAppend
    <2>4. p.out = Append(out, eof)
      BY DEF eof
    <2> QED BY <2>2, <2>3, <2>4
  <1>3. n \in Nat
    <2>1. Len(p.columns) \in Nat /\ Len(p.columns) > 0
      BY LenProperties
    <2> DEFINE k == Len(p.columns)
    <2> HIDE DEF k
    <2>2. k - 1 \in Nat
      BY ONLY <2>1 DEF k
    <2> QED BY <2>2 DEF k
  <1>4. CloseAll(p) = all
    <2> HIDE DEF eof
    <2> QED BY <1>2 DEF CloseAll
  <1> HIDE DEF down, ln, eof, S
  <1>5. Grown(S, out, down, n, closed)
    <2>1. n \in Nat /\ down \in S /\ out \in Seq(S)
      BY <1>1, <1>3 DEF S
    <2> HIDE DEF n
    <2>2. Grown(S, out, down, n, out \o Repeated(down, n))
      BY ONLY <2>1, RepeatedIs
    <2> QED BY <2>2 DEF n
  <1>6. closed \in Seq(S) /\ Extension(S, out, closed)
    <2>1. out \in Seq(S) /\ closed \in Seq(S) /\ Len(out) <= Len(closed)
          /\ \A k \in 1 .. Len(out) : closed[k] = out[k]
      <3> HIDE DEF closed, n
      <3>1. out \in Seq(S)
        BY DEF S
      <3> QED BY ONLY <1>3, <1>5, <3>1 DEF Grown
    <2>2. \A k \in Len(out) + 1 .. Len(closed) : ~Plain(closed[k])
      <3> HIDE DEF closed
      <3> QED BY <1>1, <1>5 DEF Grown
    <2> HIDE DEF closed
    <2> QED BY <2>1, <2>2 DEF Extension
  <1>7. Balanced(closed, 0)
    <2>0. out \in Seq(S) /\ Balanced(out, n)
      BY DEF S
    <2> HIDE DEF n
    <2>1. n \in 0 .. n /\ n - n = 0 /\ out \in Seq(S) /\ Balanced(out, n)
      BY ONLY <1>3, <2>0
    <2>2. Balanced(out \o Repeated(down, n), n - n)
      BY <1>1, <1>3, <2>1, BalancedClose
    <2> QED BY <2>1, <2>2
  <1> HIDE DEF closed, n
  <1>8. Deep(src, closed)
    BY <1>6, Extended
  <1>9. ASSUME NEW tokens \in Seq(S), Balanced(tokens, 0), Deep(src, tokens), NEW t \in S,
               ~Plain(t), Kind(t) \notin {"indent", "dedent"}
        PROVE  LET more == Append(tokens, t)
               IN  more \in Seq(S) /\ Balanced(more, 0) /\ Deep(src, more)
    <2> DEFINE more == Append(tokens, t)
    <2>0. tokens \in Seq(S) /\ t \in S /\ ~Plain(t) /\ Balanced(tokens, 0) /\ Kind(t) # "indent" /\ Kind(t) # "dedent"
      BY <1>9
    <2>1. Extension(S, tokens, more) /\ more \in Seq(S)
      <3>1. Extension(S, tokens, Append(tokens, t))
        BY ONLY <2>0, AppendExtends
      <3> QED BY ONLY <2>0, <3>1
    <2>2. Balanced(more, 0)
      <3>1. 0 \in Nat /\ 0 = 0 + (IF Kind(t) = "indent" THEN 1 ELSE IF Kind(t) = "dedent" THEN -1 ELSE 0)
        BY ONLY <2>0
      <3>2. Balanced(Append(tokens, t), 0)
        BY ONLY <2>0, <3>1, BalancedAppend
      <3> QED BY <3>2
    <2> HIDE DEF more
    <2>3. Deep(src, more)
      BY <1>9, <2>1, Extended
    <2> QED BY <2>1, <2>2, <2>3 DEF more
  <1>10. ended \in Seq(S) /\ Balanced(ended, 0) /\ Deep(src, ended)
    <2>1. CASE closed = <<>> \/ Kind(Last(closed)) \in {"newline", "dedent"}
      BY <1>6, <1>7, <1>8, <2>1
    <2>2. CASE ~(closed = <<>> \/ Kind(Last(closed)) \in {"newline", "dedent"})
      <3>1. ended = Append(closed, ln)
        BY <2>2
      <3> HIDE DEF ended
      <3> QED BY <1>1, <1>6, <1>7, <1>8, <1>9, <3>1
    <2> QED BY <2>1, <2>2
  <1> HIDE DEF ended
  <1>11. all \in Seq(S) /\ Balanced(all, 0) /\ Deep(src, all)
    BY <1>1, <1>9, <1>10
  <1> QED BY <1>4, <1>11 DEF S

\* A text that is too large has no tokens: no turn of the cursor makes a refused
\* text one that is read (Cursor::new).
THEOREM LexRefuses ==
  ASSUME NEW Pieces, NEW src \in Seq(Pieces), Len(src) > MaxSource
  PROVE  ~Lex(src).ok
  <1> DEFINE a == NewCursor(src)
  <1>1. a.src = src /\ ~a.ok /\ Len(src) \in Nat
    <2>1. Len(src) \in Nat /\ ~(Len(src) <= MaxSource)
      BY SourceAssumption
    <2>2. a.src = src /\ (a.ok <=> Len(src) <= MaxSource)
      BY DEF NewCursor
    <2> QED BY <2>1, <2>2
  <1>2. Turn(a) = a
    BY <1>1 DEF Turn
  <1> HIDE DEF a
  <1>3. PICK f : /\ f[0] = a
                 /\ \A n \in Nat : n < Len(src) => f[n + 1] = Turn(f[n])
                 /\ ScanAll(a) = f[Len(src)]
    BY <1>1, ScanTurns
  <1> DEFINE P == {n \in Nat : n <= Len(src) => f[n] = a}
  <1>4. 0 \in P
    BY <1>3
  <1>5. \A n \in Nat : n \in P => n + 1 \in P
    BY <1>1, <1>2, <1>3
  <1> HIDE DEF P
  <1>6. Nat \subseteq P
    BY <1>4, <1>5, SetInduction
  <1>7. ScanAll(a) = a
    BY <1>1, <1>3, <1>6 DEF P
  <1>8. ~Tokens(a).ok
    BY <1>1 DEF Tokens
  <1> QED BY <1>7, <1>8 DEF Lex, a

\* Whatever the text, within the limit and without a tab or an unclosed string,
\* its Indent and Dedent tokens are those of the columns of its lines: lexing
\* fails exactly when a line is misplaced, no block is closed that was not
\* opened, all are closed at the end, and the first token of a line is as deep
\* as columns are open (crates/ni_lexer).
THEOREM LexNests ==
  ASSUME NEW Pieces, NEW src \in Seq(Pieces), WellFormed(src), Legible(src)
  PROVE  WellNested(src, Lex(src))
  <1> DEFINE c == ScanAll(NewCursor(src))
             s == IndentAll(c.raw)
             eof == <<"eof", "", c.line>>
             p == IndentNext(s, eof)
             S == TokensOf(src)
  <1>1. IsText(src)
    BY DEF IsText
  <1>2. CursorInv(src, c) /\ AtEnd(c) /\ BlockInv(src, c, s)
    BY <1>1, LastTurn
  <1> HIDE DEF c
  <1>3. c.raw \in Seq(S) /\ c.line \in Nat /\ c.ok = TRUE /\ c.i = Len(src) + 1 /\ Len(src) \in Nat
    <2>1. c \in Cursors(src) /\ Len(src) \in Nat
      BY <1>1, <1>2 DEF CursorInv, IsText
    <2> QED BY <1>2, <2>1, PeekIs DEF Cursors
  <1>4. eof \in S /\ Kind(eof) = "eof"
    <2>1. "eof" \in Made /\ eof = Structural("eof", c.line)
      BY DEF Made, Structural
    <2> HIDE DEF eof
    <2> QED BY <1>3, <2>1, StructuralIs
  <1>5. IndentAll(Append(c.raw, eof)) = p
    <2> HIDE DEF eof, S
    <2> QED BY <1>3, <1>4, IndentAppend
  <1>6. Lex(src) = [ok |-> p.ok, tokens |-> IF p.ok THEN CloseAll(p) ELSE <<>>]
    BY <1>3, <1>5 DEF Lex, Tokens, Process, Closed, c
  <1>7. s \in Processors(src)
    BY <1>2 DEF BlockInv
  <1> HIDE DEF s, S, p
  <1>8. CASE ~s.ok
    <2>1. p = s /\ ~Consistent(src)
      BY <1>2, <1>8 DEF p, IndentNext, BlockInv
    <2>2. Lex(src).ok <=> Consistent(src)
      BY <1>6, <1>8, <2>1
    <2>3. Lex(src).tokens = <<>> /\ ~Lex(src).ok
      BY <1>6, <1>8, <2>1
    <2> QED BY <2>2, <2>3 DEF WellNested, FirstPlain
  <1>9. CASE s.ok
    <2> DEFINE out == Append(s.out, eof)
    <2>1. Written(src, Len(src) + 1, s)
      BY <1>2, <1>3, <1>9 DEF BlockInv
    <2>2. p = [s EXCEPT !.start = FALSE, !.out = out]
      <3> HIDE DEF eof
      <3>1. p = PlainStep(s, eof)
        BY <1>4, <1>9 DEF p, IndentNext, IndentStep
      <3> QED BY <1>4, <3>1 DEF PlainStep
    <2>3. s.out \in Seq(S) /\ out \in Seq(S)
      <3>1. s.out \in Seq(S)
        BY <1>7 DEF Processors, S
      <3> HIDE DEF eof
      <3> QED BY <1>4, <3>1
    <2> HIDE DEF out
    <2>4. p \in Processors(src) /\ p.columns = s.columns /\ p.out = out /\ p.ok = TRUE
      BY <1>7, <1>9, <2>2, <2>3 DEF Processors, S
    <2>5. /\ p.columns \in Seq(Nat) /\ Len(p.columns) > 0
          /\ Balanced(s.out, Len(p.columns) - 1) /\ Deep(src, s.out)
      BY <2>1, <2>4 DEF Written, StackOf, Stacked
    <2>6. /\ CloseAll(p) \in Seq(TokensOf(src))
          /\ Balanced(CloseAll(p), 0) /\ Deep(src, CloseAll(p))
      <3>1. p.out = Append(s.out, <<"eof", "", c.line>>) /\ s.out \in Seq(TokensOf(src))
        BY <2>3, <2>4 DEF out, S
      <3> HIDE DEF eof
      <3> QED BY <1>3, <2>4, <2>5, <3>1, CloseBlocks
    <2>7. Consistent(src)
      <3>1. \A l \in Lines(src) : l < Len(src) + 1
        BY <1>1, <1>3, LinesAre
      <3> QED BY <2>1, <3>1 DEF Written, Consistent
    <2> DEFINE all == CloseAll(p)
    <2>8. Lex(src).ok /\ Lex(src).tokens = all
      BY <1>6, <2>4
    <2> HIDE DEF all
    <2>9. \A k \in DOMAIN all : DepthAt(all, k) >= 0
      <3>1. all \in Seq(TokensOf(src))
        BY <2>6 DEF all
      <3>2. \A k \in DOMAIN all : k \in 0 .. Len(all)
        BY <3>1
      <3> QED BY <2>6, <3>2 DEF Balanced, all
    <2>10. DepthAt(all, Len(all)) = 0
      BY <2>6 DEF Balanced, all
    <2>11. \A l \in Lines(src) : \A k \in FirstPlain(all, LineOfPiece(src, l)) :
              DepthAt(all, k) = Cardinality(OpenBefore(src, l + 1) \ {0})
      BY <2>6 DEF Deep, DeepAt, all
    <2> QED BY <2>7, <2>8, <2>9, <2>10, <2>11 DEF WellNested
  <1> QED BY <1>8, <1>9

-----------------------------------------------------------------------------
(* The texts an editor shows.                                              *)

Sources(Pieces) == {text \in Seq(Pieces) : WellFormed(text)}
Editors(Pieces) == UNION {[us -> Sources(Pieces)] : us \in SUBSET Uris}

\* The editor and the store hold such texts.
Holds(d, Pieces) ==
    d = [source |-> d.source, programs |-> d.programs] /\ d.source \in Sources(Pieces)
SourcesInv(Pieces) ==
    /\ shown \in Editors(Pieces)
    /\ \A u \in Held : Holds(documents[u], Pieces)

LEMMA SourcesBlocks ==
  ASSUME NEW Pieces, SourcesInv(Pieces)
  PROVE  BlocksMatchColumns
  <1>1. ASSUME NEW u \in Open
        PROVE  shown[u] \in Seq(Pieces) /\ WellFormed(shown[u])
    BY DEF SourcesInv, Editors, Sources, Open
  <1>2. ASSUME NEW u \in Open, Legible(shown[u])
        PROVE  WellNested(shown[u], Lex(shown[u]))
    BY <1>1, <1>2, LexNests
  <1>3. ASSUME NEW u \in Open, Len(shown[u]) > MaxSource
        PROVE  ~Lex(shown[u]).ok
    BY <1>1, <1>3, LexRefuses
  <1> QED BY <1>1, <1>2, <1>3 DEF BlocksMatchColumns

\* What is published is about texts of the store.
LEMMA PublishHolds ==
  ASSUME NEW Pieces, NEW store, NEW u, NEW analysis, Publish(store, u, analysis),
         \A v \in DOMAIN store : Holds(store[v], Pieces)
  PROVE  \A v \in Held' : Holds(documents'[v], Pieces)
  <1>1. CASE u \in DOMAIN store /\ analysis.programs # {}
    <2>1. documents' = [store EXCEPT ![u].programs = analysis.programs]
      BY <1>1 DEF Publish
    <2>2. Held' = DOMAIN store /\ \A v \in DOMAIN store \ {u} : documents'[v] = store[v]
      BY <2>1 DEF Held
    <2>3. documents'[u] = [store[u] EXCEPT !.programs = analysis.programs]
      BY <1>1, <2>1
    <2>4. store[u] = [source |-> store[u].source, programs |-> store[u].programs] /\ store[u].source \in Sources(Pieces)
      BY <1>1 DEF Holds
    <2>5. documents'[u] = [source |-> store[u].source, programs |-> analysis.programs]
      BY <2>3, <2>4
    <2>6. Holds(documents'[u], Pieces)
      BY <2>4, <2>5 DEF Holds
    <2> QED BY <2>2, <2>6
  <1>2. CASE ~(u \in DOMAIN store /\ analysis.programs # {})
    BY <1>2 DEF Publish, Held
  <1> QED BY <1>1, <1>2

\* A change keeps the invariant, whoever makes it.
LEMMA ChangeHolds ==
  ASSUME NEW Pieces, SourcesInv(Pieces), NEW u, NEW text \in Sources(Pieces), DidChange(u, text)
  PROVE  SourcesInv(Pieces)'
  <1>1. shown' \in Editors(Pieces)
    <2>1. u \in Open /\ shown' = [shown EXCEPT ![u] = text]
      BY DEF DidChange
    <2> QED BY <2>1 DEF SourcesInv, Editors
  <1>2. \A v \in DOMAIN Updated(u, text) : Holds(Updated(u, text)[v], Pieces)
    <2> DEFINE d == [source |-> text, programs |-> {}]
    <2>1. Holds(d, Pieces)
      BY DEF Holds
    <2> HIDE DEF d
    <2>2. Updated(u, text) = documents \/ Updated(u, text) = [documents EXCEPT ![u] = d]
      BY DEF Updated, d
    <2> QED BY <2>1, <2>2 DEF SourcesInv, Held
  <1>3. Publish(Updated(u, text), u, Analyze(text))
    BY DEF DidChange
  <1>4. \A v \in Held' : Holds(documents'[v], Pieces)
    BY <1>2, <1>3, PublishHolds
  <1> QED BY <1>1, <1>4 DEF SourcesInv

LEMMA OpenHolds ==
  ASSUME NEW Pieces, SourcesInv(Pieces), NEW u, NEW text \in Sources(Pieces), DidOpen(u, text)
  PROVE  SourcesInv(Pieces)'
  <1>1. shown' \in Editors(Pieces)
    <2>1. u \in Uris /\ shown' = [v \in DOMAIN shown \cup {u} |-> IF v = u THEN text ELSE shown[v]]
      BY DEF DidOpen, With
    <2>2. PICK us \in SUBSET Uris : shown \in [us -> Sources(Pieces)]
      BY DEF SourcesInv, Editors
    <2>3. shown' \in [us \cup {u} -> Sources(Pieces)] /\ us \cup {u} \in SUBSET Uris
      BY <2>1, <2>2
    <2> QED BY <2>3 DEF Editors
  <1>2. \A v \in DOMAIN Opened(u, text) : Holds(Opened(u, text)[v], Pieces)
    <2> DEFINE d == [source |-> text, programs |-> {}]
    <2>1. Holds(d, Pieces)
      BY DEF Holds
    <2> HIDE DEF d
    <2>2. \/ Opened(u, text) = documents
          \/ Opened(u, text) = [v \in DOMAIN documents \cup {u} |-> IF v = u THEN d ELSE documents[v]]
      BY DEF Opened, With, d
    <2> QED BY <2>1, <2>2 DEF SourcesInv, Held
  <1>3. Publish(Opened(u, text), u, Analyze(text))
    BY DEF DidOpen
  <1>4. \A v \in Held' : Holds(documents'[v], Pieces)
    BY <1>2, <1>3, PublishHolds
  <1> QED BY <1>1, <1>4 DEF SourcesInv

LEMMA CloseHolds ==
  ASSUME NEW Pieces, SourcesInv(Pieces), NEW u, DidClose(u)
  PROVE  SourcesInv(Pieces)'
  <1>1. /\ shown' = [v \in DOMAIN shown \ {u} |-> shown[v]]
        /\ documents' = [v \in DOMAIN documents \ {u} |-> documents[v]]
    BY DEF DidClose, Without
  <1>2. PICK us \in SUBSET Uris : shown \in [us -> Sources(Pieces)]
    BY DEF SourcesInv, Editors
  <1>3. shown' \in [us \ {u} -> Sources(Pieces)] /\ us \ {u} \in SUBSET Uris
    BY <1>1, <1>2
  <1>4. \A v \in Held' : Holds(documents'[v], Pieces)
    BY <1>1 DEF SourcesInv, Held
  <1> QED BY <1>3, <1>4 DEF SourcesInv, Editors

\* Whatever texts an editor opens, changes and has formatted, how their lines
\* nest is what their columns say, as long as they are texts and the formatter
\* writes texts (crates/ni_lsp, crates/ni_lexer).
THEOREM ShownTextsNest ==
  ASSUME NEW Pieces,
         \A u \in Uris : \A editor \in Editors(Pieces) :
            Texts(u, editor) \cup Edits(u, editor) \subseteq Sources(Pieces),
         \A text \in Sources(Pieces) : Formatted(text).ok => Formatted(text).text \in Sources(Pieces)
  PROVE  Spec => []BlocksMatchColumns
  <1>1. Init => SourcesInv(Pieces)
    <2> SUFFICES ASSUME Init
                 PROVE  SourcesInv(Pieces)
      OBVIOUS
    <2>1. Empty \in [{} -> Sources(Pieces)] /\ DOMAIN Empty = {}
      BY DEF Empty
    <2>2. Empty \in Editors(Pieces)
      BY <2>1 DEF Editors
    <2> QED BY <2>1, <2>2 DEF Init, SourcesInv, Held
  <1>2. SourcesInv(Pieces) /\ [Next]_vars => SourcesInv(Pieces)'
    <2> SUFFICES ASSUME SourcesInv(Pieces), [Next]_vars
                 PROVE  SourcesInv(Pieces)'
      OBVIOUS
    <2>1. ASSUME NEW u \in Uris, NEW text \in Texts(u, shown), DidOpen(u, text)
          PROVE  SourcesInv(Pieces)'
      <3>1. text \in Sources(Pieces)
        BY DEF SourcesInv
      <3> QED BY <2>1, <3>1, OpenHolds
    <2>2. ASSUME NEW u \in Uris, NEW text \in Edits(u, shown), DidChange(u, text)
          PROVE  SourcesInv(Pieces)'
      <3>1. text \in Sources(Pieces)
        BY DEF SourcesInv
      <3> QED BY <2>2, <3>1, ChangeHolds
    <2>3. ASSUME NEW u \in Uris, DidClose(u)
          PROVE  SourcesInv(Pieces)'
      BY <2>3, CloseHolds
    <2>4. ASSUME NEW u \in Uris, Formatting(u)
          PROVE  SourcesInv(Pieces)'
      <3>1. PICK text \in Answers(documents[u].source) : u \in Held /\ DidChange(u, text)
        BY <2>4 DEF Formatting
      <3>2. documents[u].source \in Sources(Pieces)
        BY <3>1 DEF SourcesInv, Holds
      <3>3. text \in Sources(Pieces)
        BY <3>1, <3>2 DEF Answers
      <3> QED BY <3>1, <3>3, ChangeHolds
    <2>5. CASE UNCHANGED vars
      BY <2>5 DEF vars, SourcesInv, Held
    <2> QED BY <2>1, <2>2, <2>3, <2>4, <2>5 DEF Next
  <1>3. SourcesInv(Pieces) => BlocksMatchColumns
    BY SourcesBlocks
  <1> QED BY <1>1, <1>2, <1>3, PTL DEF Spec

=============================================================================
