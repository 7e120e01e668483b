------------------------ MODULE LanguageServerProofs ------------------------
(***************************************************************************)
(* The language server of ni follows its editor whatever the parser, the   *)
(* linter and the formatter make of a text, whatever the texts are, for    *)
(* every number of documents and every limit: its store holds documents    *)
(* the editor shows, within its limits (TypeOK), and what the editor shows *)
(* beside a text is about that text (FollowsEditor), provided that a text  *)
(* the store refuses does not parse.                                       *)
(***************************************************************************)
EXTENDS LanguageServer, FiniteSetTheorems, TLAPS

-----------------------------------------------------------------------------
(* The inductive invariant of the store: the documents are finitely many
   records, of the type stated.                                            *)
Entry(source, programs) == [source |-> source, programs |-> programs]
IsEntry(d) == d = Entry(d.source, d.programs)
IsMap(f) == f = [u \in DOMAIN f |-> f[u]]
StoreShape == IsFiniteSet(Held) /\ IsMap(shown) /\ \A u \in Held : IsEntry(documents[u])
EditorInv == TypeOK /\ StoreShape

(* The lexer refuses what the store refuses: LexRefuses in module BlocksProofs
   shows it of all texts.                                                  *)
TooLargeRefused(text) == ~Fits(text) => Readings(text) = {}

(* What an editor may show when all texts are some of these. *)
Editors(All) == UNION {[us -> All] : us \in SUBSET Uris}

(* The texts there are, in the editor and in the store. *)
Sources == {shown[u] : u \in Open} \cup {documents[u].source : u \in Held}

(* What a step that takes a text in keeps: the store always, and what the
   editor shows if the text is refused when it is too large.               *)
Takes(text) ==
    /\ EditorInv'
    /\ TooLargeRefused(text) /\ FollowsEditor => FollowsEditor'
    /\ Sources' \subseteq Sources \cup {text}

\* A store ready to publish a text in: the documents, but for one, which has
\* the text without its program, or is the one from before.
Fresh(store, u, text) == store[u] = Entry(text, {}) /\ Fits(text)
Stale(store, u, text) == u \in Held /\ store[u] = documents[u] /\ ~Fits(text)
ReadyFor(store, u, text) ==
    /\ DOMAIN store \ {u} = Held \ {u}
    /\ \A v \in Held \ {u} : store[v] = documents[v]
    /\ IsFiniteSet(DOMAIN store) /\ Cardinality(DOMAIN store) <= MaxDocuments
    /\ u \in DOMAIN store => Fresh(store, u, text) \/ Stale(store, u, text)

\* A text has one program at most, since the parser answers once.
LEMMA OneReading ==
    ASSUME NEW text
    PROVE  IsFiniteSet(Readings(text)) /\ Cardinality(Readings(text)) <= 1
<1>1. IsFiniteSet({Parsed(text)}) /\ Cardinality({Parsed(text)}) = 1
  BY FS_Singleton
<1>2. Readings(text) \subseteq {Parsed(text)}
  BY DEF Readings
<1> QED
  BY <1>1, <1>2, FS_Subset

\* The program of a copy is that of the copy, whatever the editor shows.
LEMMA EarlierText ==
    ASSUME FollowsEditor, EditorInv, NEW u \in Held
    PROVE  documents[u].programs = Readings(documents[u].source)
<1>1. u \in Open /\ Follows(u, Analyze(shown[u]))
  BY DEF FollowsEditor, EditorInv, TypeOK
<1>2. CASE Fits(shown[u])
  <2>1. documents[u] = [source |-> shown[u], programs |-> Readings(shown[u])]
    BY <1>1, <1>2 DEF Follows, Analyze, Checked
  <2> QED
    BY <2>1
<1>3. CASE ~Fits(shown[u])
  BY <1>1, <1>3 DEF Follows
<1> QED
  BY <1>2, <1>3

\* Opening leaves the store ready: there is place, or the document stays out.
LEMMA OpenedReady ==
    ASSUME EditorInv, NEW u \in Uris \ Open, NEW text
    PROVE  ReadyFor(Opened(u, text), u, text)
<1> DEFINE store == Opened(u, text)
<1>1. u \notin Held /\ IsFiniteSet(Held) /\ Cardinality(Held) \in Nat /\ Cardinality(Held) <= MaxDocuments
  BY FS_CardinalityType DEF EditorInv, TypeOK, StoreShape
<1>2. CASE ~Fits(text) \/ Cardinality(Held) >= MaxDocuments
  BY <1>1, <1>2 DEF Opened, ReadyFor, Held
<1>3. CASE Fits(text) /\ ~(Cardinality(Held) >= MaxDocuments)
  <2>1. store = [v \in Held \cup {u} |-> IF v = u THEN Entry(text, {}) ELSE documents[v]]
    BY <1>3 DEF Opened, With, Entry, Held
  <2>2. IsFiniteSet(Held \cup {u}) /\ Cardinality(Held \cup {u}) = Cardinality(Held) + 1
    BY <1>1, FS_AddElement
  <2>3. Cardinality(DOMAIN store) <= MaxDocuments
    BY <1>1, <1>3, <2>1, <2>2, LimitsAssumption
  <2> QED
    BY <1>1, <1>3, <2>1, <2>2, <2>3 DEF ReadyFor, Fresh
<1> QED
  BY <1>2, <1>3

\* So does a change: the document is replaced unless its text is too large.
LEMMA UpdatedReady ==
    ASSUME EditorInv, NEW u \in Open, NEW text
    PROVE  ReadyFor(Updated(u, text), u, text)
<1>1. IsFiniteSet(Held) /\ Cardinality(Held) <= MaxDocuments
  BY DEF EditorInv, TypeOK, StoreShape
<1>2. CASE ~Fits(text) \/ u \notin Held
  BY <1>1, <1>2 DEF Updated, ReadyFor, Stale, Held
<1>3. CASE Fits(text) /\ u \in Held
  <2>1. Updated(u, text) = [documents EXCEPT ![u] = Entry(text, {})]
    BY <1>3 DEF Updated, Entry
  <2> QED
    BY <1>1, <1>3, <2>1 DEF ReadyFor, Fresh, Held
<1> QED
  BY <1>2, <1>3

-----------------------------------------------------------------------------
(* Publishing: what the store and the editor are afterwards.               *)

LEMMA PublishKeeps ==
    ASSUME EditorInv, NEW u \in Uris, NEW text, NEW store, IsMap(shown'),
           Open' = Open \cup {u}, shown'[u] = text, \A v \in Open \ {u} : shown'[v] = shown[v],
           ReadyFor(store, u, text), Publish(store, u, Analyze(text))
    PROVE  Takes(text)
<1> DEFINE programs == Readings(text)
<1>1. /\ Analyze(text).programs = programs
      /\ DOMAIN diagnostics = Uris
  BY DEF Analyze, Checked, EditorInv, TypeOK
<1>2. Held' = DOMAIN store /\ \A v \in Held' \ {u} : documents'[v] = documents[v] /\ v \in Held
  BY <1>1 DEF Publish, ReadyFor, Held
<1>3. /\ diagnostics' = [diagnostics EXCEPT ![u] = Analyze(text).diagnostics]
      /\ diagnostics'[u] = Analyze(text).diagnostics
      /\ DOMAIN diagnostics' = Uris
      /\ \A v \in Uris \ {u} : diagnostics'[v] = diagnostics[v]
  BY <1>1 DEF Publish
<1>4. ASSUME u \in Held'
      PROVE  \/ documents'[u] = Entry(text, programs) /\ Fits(text)
             \/ /\ ~Fits(text) /\ u \in Held
                /\ documents'[u] = Entry(documents[u].source, documents[u].programs) /\ programs = {}
             \/ /\ ~Fits(text) /\ u \in Held
                /\ documents'[u] = Entry(documents[u].source, programs) /\ programs # {}
  <2>1. u \in DOMAIN store
    BY <1>2, <1>4
  <2>2. documents'[u] = IF programs = {} THEN store[u] ELSE [store[u] EXCEPT !.programs = programs]
    BY <1>1, <2>1 DEF Publish
  <2>3. CASE Fresh(store, u, text)
    BY <2>2, <2>3 DEF Fresh, Entry
  <2>4. CASE Stale(store, u, text)
    <3>1. documents[u] = Entry(documents[u].source, documents[u].programs)
      BY <2>4 DEF Stale, EditorInv, StoreShape, IsEntry
    <3> QED
      BY <2>2, <2>4, <3>1 DEF Stale, Entry
  <2> QED
    BY <2>1, <2>3, <2>4 DEF ReadyFor
<1>5. TypeOK'
  <2>1. Open' \subseteq Uris /\ Held' \subseteq Open'
    BY <1>2 DEF EditorInv, TypeOK, ReadyFor
  <2>2. Cardinality(Held') <= MaxDocuments
    BY <1>2 DEF ReadyFor
  <2>3. ASSUME NEW v \in Held'
        PROVE  Fits(documents'[v].source) /\ Cardinality(documents'[v].programs) <= 1
    <3>1. CASE v = u
      BY <1>4, <3>1, OneReading DEF Entry, EditorInv, TypeOK
    <3>2. CASE v # u
      BY <1>2, <3>2 DEF EditorInv, TypeOK
    <3> QED
      BY <3>1, <3>2
  <2> QED
    BY <1>3, <2>1, <2>2, <2>3 DEF TypeOK, Open, Held
<1>6. StoreShape'
  <2>1. IsFiniteSet(Held')
    BY <1>2 DEF ReadyFor
  <2>2. ASSUME NEW v \in Held'  PROVE IsEntry(documents'[v])
    <3>1. CASE v = u
      BY <1>4, <3>1 DEF Entry, IsEntry
    <3>2. CASE v # u
      BY <1>2, <3>2 DEF EditorInv, StoreShape
    <3> QED
      BY <3>1, <3>2
  <2>3. IsMap(shown)'
    BY DEF IsMap
  <2> QED
    BY <2>1, <2>2, <2>3 DEF StoreShape, Held
<1>7. ASSUME TooLargeRefused(text), FollowsEditor  PROVE FollowsEditor'
  <2>1. ASSUME NEW v \in Open'  PROVE Follows(v, Analyze(shown[v]))'
    <3>1. CASE v = u
      <4>1. /\ diagnostics'[u] = Analyze(text).diagnostics
            /\ ~Fits(text) => programs = {}
        BY <1>3, <1>7 DEF TooLargeRefused
      <4>2. ASSUME u \in Held', ~Fits(text)
            PROVE  documents'[u] = documents[u] /\ u \in Held
        <5>1. documents[u] = Entry(documents[u].source, documents[u].programs) /\ u \in Held
          BY <1>4, <4>2 DEF EditorInv, StoreShape, IsEntry
        <5> QED
          BY <1>4, <4>1, <4>2, <5>1
      <4>3. ASSUME u \in Held', ~Fits(text)
            PROVE  documents[u].programs = Readings(documents[u].source)
        BY <1>7, <4>2, <4>3, EarlierText
      <4> QED
        BY <1>1, <1>4, <3>1, <4>1, <4>2, <4>3 DEF Follows, Entry
    <3>2. CASE v # u
      <4>1. Follows(v, Analyze(shown[v])) /\ shown'[v] = shown[v] /\ v \in Uris
        BY <1>7, <3>2 DEF EditorInv, FollowsEditor, TypeOK
      <4>2. diagnostics'[v] = diagnostics[v] /\ (v \in Held' => v \in Held /\ documents'[v] = documents[v])
        BY <1>2, <1>3, <3>2, <4>1
      <4> QED
        BY <4>1, <4>2 DEF Follows
    <3> QED
      BY <3>1, <3>2
  <2> QED
    BY <2>1 DEF FollowsEditor, Open
<1>8. Sources' \subseteq Sources \cup {text}
  <2>1. ASSUME NEW v \in Open'  PROVE shown'[v] \in Sources \cup {text}
    BY DEF Sources
  <2>2. ASSUME NEW v \in Held'  PROVE documents'[v].source \in Sources \cup {text}
    <3>1. CASE v = u
      BY <1>4, <3>1 DEF Entry, Sources
    <3>2. CASE v # u
      BY <1>2, <3>2 DEF Sources
    <3> QED
      BY <3>1, <3>2
  <2> QED
    BY <2>1, <2>2 DEF Sources, Open, Held
<1> QED
  BY <1>5, <1>6, <1>7, <1>8 DEF EditorInv, Takes

-----------------------------------------------------------------------------
(* One lemma per action.                                                   *)

LEMMA OpenKeeps ==
    ASSUME EditorInv, NEW u \in Uris, NEW text, DidOpen(u, text)
    PROVE  Takes(text)
<1>1. u \in Uris \ Open
  BY DEF DidOpen
<1>2. ReadyFor(Opened(u, text), u, text)
  BY <1>1, OpenedReady
<1>3. /\ Open' = Open \cup {u} /\ shown'[u] = text /\ \A v \in Open \ {u} : shown'[v] = shown[v]
      /\ IsMap(shown')
  BY DEF DidOpen, With, Open, IsMap
<1> QED
  BY <1>2, <1>3, PublishKeeps DEF DidOpen

LEMMA ChangeKeeps ==
    ASSUME EditorInv, NEW u \in Uris, NEW text, DidChange(u, text)
    PROVE  Takes(text)
<1>1. u \in Open
  BY DEF DidChange
<1>2. ReadyFor(Updated(u, text), u, text)
  BY <1>1, UpdatedReady
<1>3. /\ Open' = Open \cup {u} /\ shown'[u] = text /\ \A v \in Open \ {u} : shown'[v] = shown[v]
      /\ IsMap(shown')
  BY <1>1 DEF DidChange, Open, IsMap
<1> QED
  BY <1>2, <1>3, PublishKeeps DEF DidChange

LEMMA CloseKeeps ==
    ASSUME EditorInv, NEW u \in Uris, DidClose(u)
    PROVE  EditorInv' /\ (FollowsEditor => FollowsEditor') /\ Sources' \subseteq Sources
<1>1. /\ Open' = Open \ {u} /\ \A v \in Open' : shown'[v] = shown[v]
      /\ Held' = Held \ {u} /\ \A v \in Held' : documents'[v] = documents[v]
      /\ diagnostics' = diagnostics /\ IsMap(shown')
  BY DEF DidClose, Without, Open, Held, IsMap
<1>2. IsFiniteSet(Held') /\ Cardinality(Held') <= MaxDocuments
  <2>1. IsFiniteSet(Held) /\ Cardinality(Held) \in Nat /\ Cardinality(Held) <= MaxDocuments
    BY FS_CardinalityType DEF EditorInv, TypeOK, StoreShape
  <2>2. IsFiniteSet(Held') /\ Cardinality(Held') <= Cardinality(Held) /\ Cardinality(Held') \in Nat
    BY <1>1, <2>1, FS_Subset, FS_CardinalityType
  <2> QED
    BY <2>1, <2>2, LimitsAssumption
<1>3. TypeOK'
  BY <1>1, <1>2 DEF EditorInv, TypeOK, Open, Held
<1>4. StoreShape'
  BY <1>1, <1>2 DEF EditorInv, StoreShape, Held, IsMap
<1>5. FollowsEditor => FollowsEditor'
  BY <1>1 DEF FollowsEditor, Follows, Open, Held
<1>6. Sources' \subseteq Sources
  BY <1>1 DEF Sources, Open, Held
<1> QED
  BY <1>3, <1>4, <1>5, <1>6 DEF EditorInv

LEMMA EditorInit == Init => EditorInv /\ FollowsEditor
<1> SUFFICES ASSUME Init PROVE EditorInv /\ FollowsEditor
  OBVIOUS
<1>1. Open = {} /\ Held = {} /\ DOMAIN diagnostics = Uris
  BY DEF Init, Empty, Open, Held
<1>2. IsFiniteSet(Held) /\ Cardinality(Held) = 0
  BY <1>1, FS_EmptySet
<1> QED
  BY <1>1, <1>2, LimitsAssumption DEF EditorInv, TypeOK, StoreShape, IsMap, Init, Empty, FollowsEditor

\* Every step takes a text in, which the editor opens a document with, changes
\* it to, or gets back from the formatter, or changes nothing for the worse.
LEMMA EditorStep ==
    ASSUME EditorInv, [Next]_vars
    PROVE  \/ EditorInv' /\ (FollowsEditor => FollowsEditor') /\ Sources' \subseteq Sources
           \/ \E u \in Uris : \E text \in Texts(u, shown) \cup Edits(u, shown) : Takes(text)
           \/ \E source \in Sources : \E text \in Answers(source) : Takes(text)
<1>1. ASSUME NEW u \in Uris, NEW text \in Texts(u, shown), DidOpen(u, text)
      PROVE  Takes(text)
  BY <1>1, OpenKeeps
<1>2. ASSUME NEW u \in Uris, NEW text \in Edits(u, shown), DidChange(u, text)
      PROVE  Takes(text)
  BY <1>2, ChangeKeeps
<1>3. ASSUME NEW u \in Uris, DidClose(u)
      PROVE  EditorInv' /\ (FollowsEditor => FollowsEditor') /\ Sources' \subseteq Sources
  BY <1>3, CloseKeeps
<1>4. ASSUME NEW u \in Uris, Formatting(u)
      PROVE  \E source \in Sources : \E text \in Answers(source) : Takes(text)
  BY <1>4, ChangeKeeps DEF Formatting, Sources
<1>5. CASE UNCHANGED vars
  BY <1>5 DEF vars, Sources, EditorInv, TypeOK, StoreShape, IsMap, FollowsEditor, Follows, Open, Held
<1> QED
  BY <1>1, <1>2, <1>3, <1>4, <1>5 DEF Next

-----------------------------------------------------------------------------
(* The store of the language server (document.rs) holds only documents that
   are open in the editor, no more than MAX_DOCUMENT_COUNT of them and none
   beyond MAX_DOCUMENT_SIZE, with one program at most.                     *)
THEOREM StoreWithinLimits == Spec => []TypeOK
<1>1. Init => EditorInv
  BY EditorInit
<1>2. EditorInv /\ [Next]_vars => EditorInv'
  BY EditorStep DEF Takes
<1>3. EditorInv => TypeOK
  BY DEF EditorInv
<1> QED
  BY <1>1, <1>2, <1>3, PTL DEF Spec

(* If no text that is too large for the store has a program, which is what the
   lexer's own limit sees to, then after every handler of the language server
   (backend.rs) the diagnostics, the copy and its program are those of the
   text the editor shows; when that one is too large its diagnostic is an
   error, and the copy and its program are both of one earlier text.       *)
THEOREM ServerFollowsEditor ==
    ASSUME NEW All,
           \A u \in Uris : \A editor \in Editors(All) :
              Texts(u, editor) \cup Edits(u, editor) \subseteq All,
           \A text \in All : Answers(text) \subseteq All,
           \A text \in All : TooLargeRefused(text)
    PROVE  Spec => []FollowsEditor
<1> DEFINE Inv == EditorInv /\ FollowsEditor /\ Sources \subseteq All
<1>1. Init => Inv
  <2>1. Init => Sources = {}
    BY DEF Init, Sources, Open, Held, Empty
  <2> QED
    BY <2>1, EditorInit
<1>2. Inv /\ [Next]_vars => Inv'
  <2> SUFFICES ASSUME Inv, [Next]_vars  PROVE Inv'
    OBVIOUS
  <2>1. ASSUME NEW text \in All, Takes(text)  PROVE Inv'
    BY <2>1 DEF Takes
  <2>2. shown \in Editors(All)
    <3>1. shown \in [Open -> All] /\ Open \subseteq Uris
      BY DEF EditorInv, TypeOK, StoreShape, IsMap, Sources, Open
    <3> QED
      BY <3>1 DEF Editors
  <2> QED
    BY <2>1, <2>2, EditorStep
<1>3. Inv => FollowsEditor
  OBVIOUS
<1> QED
  BY <1>1, <1>2, <1>3, PTL DEF Spec

=============================================================================
