--------------------------- MODULE LanguageServer ---------------------------
(***************************************************************************)
(* The language server of ni (src/crates/ni_lsp) and the editor it serves. *)
(* The editor shows texts and tells the server when it opens, changes or   *)
(* closes one; the server keeps a copy of each with the program it parsed  *)
(* from it, publishes diagnostics, and answers requests from its copy.     *)
(*                                                                         *)
(* The server calls the parser, the linter and the formatter and looks     *)
(* into none of their results but for whether there is one: they are       *)
(* parameters here, and module FrontEnd has the texts and the programs     *)
(* they work on.                                                           *)
(*                                                                         *)
(* The server runs one handler at a time up to its first await, which is   *)
(* the publication of the diagnostics, and the editor drops the answer to  *)
(* a request made for a text it no longer shows: a handler and the answer  *)
(* to a request are one step.                                              *)
(***************************************************************************)
EXTENDS Integers, Sequences, FiniteSets

CONSTANTS Uris,             \* the documents
          Texts(_, _),      \* what the editor opens a document with, and
          Edits(_, _),      \* changes it to, from what it shows
          Parsed(_),        \* the program of a text, when it is ok
          Linted(_),        \* the warnings about a program
          Formatted(_),     \* the text that replaces a text, when it is ok
          MaxText,          \* MAX_DOCUMENT_SIZE
          MaxDocuments      \* MAX_DOCUMENT_COUNT

ASSUME LimitsAssumption == MaxText \in Nat \ {0} /\ MaxDocuments \in Nat \ {0}

VARIABLES shown,            \* the documents open in the editor and their texts
          documents,        \* DocumentStore
          diagnostics       \* what was last published for each document

vars == <<shown, documents, diagnostics>>

Empty == [u \in {} |-> <<>>]
Held == DOMAIN documents
Open == DOMAIN shown
Without(f, u) == [v \in DOMAIN f \ {u} |-> f[v]]
With(f, u, value) == [v \in DOMAIN f \cup {u} |-> IF v = u THEN value ELSE f[v]]
Fits(text) == Len(text) <= MaxText

(* analyze: the program, if the text has one, and the diagnostics: the error
   that stopped the lexer or the parser, or the warnings of the linter.     *)
Readings(text) == {program \in {Parsed(text)} : program.ok}
Checked(programs) ==
    [programs |-> programs,
     diagnostics |-> IF programs = {} THEN {<<"syntax", "", 0>>}
                     ELSE UNION {Linted(program) : program \in programs}]
Analyze(text) == Checked(Readings(text))

Init ==
    /\ shown = Empty
    /\ documents = Empty
    /\ diagnostics = [u \in Uris |-> {}]

(* set_program, then the publication; a text that does not parse leaves the
   program of the document as it is.                                       *)
Publish(store, u, analysis) ==
    /\ documents' = IF u \in DOMAIN store /\ analysis.programs # {}
                    THEN [store EXCEPT ![u].programs = analysis.programs]
                    ELSE store
    /\ diagnostics' = [diagnostics EXCEPT ![u] = analysis.diagnostics]

(* The store refuses a text beyond the limit, and a document when it is full. *)
Opened(u, text) ==
    IF ~Fits(text) \/ Cardinality(Held) >= MaxDocuments THEN documents
    ELSE With(documents, u, [source |-> text, programs |-> {}])

\* mutant: an update leaves the program of the text before.
UpdatedSource(u, text) ==
    IF ~Fits(text) \/ u \notin Held THEN documents
    ELSE [documents EXCEPT ![u].source = text]

Updated(u, text) ==
    IF ~Fits(text) \/ u \notin Held THEN documents
    ELSE [documents EXCEPT ![u] = [source |-> text, programs |-> {}]]

DidOpen(u, text) ==
    /\ u \in Uris \ Open
    /\ shown' = With(shown, u, text)
    /\ Publish(Opened(u, text), u, Analyze(text))

DidChange(u, text) ==
    /\ u \in Open /\ shown[u] # text
    /\ shown' = [shown EXCEPT ![u] = text]
    /\ Publish(Updated(u, text), u, Analyze(text))

DidClose(u) ==
    /\ u \in Open
    /\ shown' = Without(shown, u)
    /\ documents' = Without(documents, u)
    /\ UNCHANGED diagnostics

(* The request to format: the whole text is replaced by what the server
   makes of its copy, of which the editor tells the server.  There is no
   answer for what the lexer refuses.                                      *)
Answers(source) == {answer.text : answer \in {a \in {Formatted(source)} : a.ok}}
Formatting(u) ==
    u \in Open \cap Held /\ \E text \in Answers(documents[u].source) : DidChange(u, text)

Next ==
    \E u \in Uris :
        \/ \E text \in Texts(u, shown) : DidOpen(u, text)
        \/ \E text \in Edits(u, shown) : DidChange(u, text)
        \/ DidClose(u)
        \/ Formatting(u)

Spec == Init /\ [][Next]_vars

-----------------------------------------------------------------------------
(* Types: the server holds only documents the editor shows, within its
   limits.                                                                 *)
TypeOK ==
    /\ Open \subseteq Uris
    /\ Held \subseteq Open
    /\ Cardinality(Held) <= MaxDocuments
    /\ \A u \in Held : Fits(documents[u].source) /\ Cardinality(documents[u].programs) <= 1
    /\ DOMAIN diagnostics = Uris

(* What the editor shows beside a text is about that text: the diagnostics
   always, whether or not the server holds the document; the copy of the text
   and the program that names are looked up in, unless the text is too large.
   Of such a text there is a diagnostic and no program, since the lexer
   refuses what the store refuses, and what the server answers from is an
   earlier text (store.update returns early) with the program of that text. *)
Follows(u, analysis) ==
    /\ diagnostics[u] = analysis.diagnostics
    /\ ~Fits(shown[u]) => analysis.programs = {}
    /\ u \in Held =>
         IF Fits(shown[u])
         THEN documents[u] = [source |-> shown[u], programs |-> analysis.programs]
         ELSE documents[u].programs = Readings(documents[u].source)

FollowsEditor == \A u \in Open : Follows(u, Analyze(shown[u]))
=============================================================================
