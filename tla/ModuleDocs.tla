----------------------------- MODULE ModuleDocs -----------------------------
(***************************************************************************)
(* The module documents of docs/, the scripts that rewrite their sections 4, *)
(* 6 and 7 in place (restructure_events.py, restructure_errors.py,           *)
(* restructure_endpoints.py) and the one that gathers them into docs/30 and  *)
(* docs/31 (aggregate_docs.py); with the people who edit documents and        *)
(* taxonomy between runs.  The scripts read what they wrote before.          *)
(*                                                                          *)
(* A document is a sequence of lines: a section heading, a subsection        *)
(* heading, the line that introduces a module's codes, a scope note, a row of *)
(* a table.  A row has its name, whether that is a legacy MODULE_TOKEN, and   *)
(* what it says: Own when an author wrote it, an edition of the V1 baseline   *)
(* otherwise.  The text of paragraphs, and docs/32, are left out.            *)
(***************************************************************************)
EXTENDS Naturals, Sequences, SequencesExt, FiniteSets, FiniteSetsExt

CONSTANTS
  MODULES,      \* the documents in the order of aggregate_docs
  ErrorCodes,
  SecDocs,      \* documents with a section of taxonomy.md (SEC_MAP)
  Home,         \* code -> the document of its taxonomy section
  AccountCodes, \* the account.* codes, which docs/07 repeats
  LccDoc,       \* docs/07
  Events,
  DOCS4,        \* document -> its baseline events and the rows to fold
  ApiDocs,      \* documents with an API contract (MAP)
  NoteDocs,     \* documents without one (NO_V1_NOTE)
  Paths,        \* endpoints
  RowNames,     \* what rows are about: codes, events, endpoints, legacy names
  Editions,     \* what a baseline row may say
  InitText,     \* the documents as their authors left them
  MaxDocEdits, MaxReruns

Own == "own"
NoRow == "NoRow"
Docs == Range(MODULES)

VARIABLES
  text,      \* docs/: the lines of each document
  v1codes,   \* taxonomy.md: code -> what its row says, or NoRow
  doc30,     \* docs/30: document -> rows of the registry
  doc31,     \* docs/31: event -> producer and tier
  done,      \* history: the scripts run since the last edit
  reruns, dedits

docVars == <<text, v1codes, doc30, doc31, done, reruns, dedits>>

Sec(n) == [k |-> "sec", n |-> n]
Sub(n) == [k |-> "sub", n |-> n]
Intro  == [k |-> "intro"]
Note   == [k |-> "note"]
Entry(name, legacy, says) == [k |-> "row", name |-> name, legacy |-> legacy, says |-> says]
IsSec(l) == l.k = "sec"
IsRow(l) == l.k = "row"
Line == [k : {"sec", "sub"}, n : Nat] \cup {Intro, Note}
        \cup [k : {"row"}, name : RowNames, legacy : BOOLEAN, says : Editions \cup {Own}]

BaseRows(S, says) == SetToSeq({Entry(c, FALSE, says[c]) : c \in S})

\* The lines of s at the places K, in their order.
Picked(s, K) == [n \in 1..Cardinality(K) |-> s[CHOOSE i \in K : Cardinality({j \in K : j < i}) = n - 1]]

\* The first place from i on that holds a line of S, or the place behind the end.
Find(t, i, S) ==
  CHOOSE j \in 1..(Len(t) + 1) : /\ j = Len(t) + 1 \/ (i <= j /\ t[j] \in S)
                                 /\ \A k \in i..(j - 1) : t[k] \notin S

\* What stands between the headings of sections n and m, and the document with a
\* new body there; one without the two is skipped.
Between(t, n, m) ==
  LET i == Find(t, 1, {Sec(n)}) IN SubSeq(t, i + 1, Find(t, i + 1, {Sec(m)}) - 1)
Replaced(t, n, m, body) ==
  LET i == Find(t, 1, {Sec(n)})
      j == Find(t, i + 1, {Sec(m)})
  IN  IF j > Len(t) THEN t ELSE SubSeq(t, 1, i) \o body \o SubSeq(t, j, Len(t))

\* The body of section n, up to the next section whichever it is (aggregate_docs).
section(t, n) ==
  LET i == Find(t, 1, {Sec(n)})
      j == Find(t, i + 1, {l \in Range(t) : IsSec(l)})
  IN  IF j > Len(t) THEN <<>> ELSE SubSeq(t, i + 1, j - 1)

-----------------------------------------------------------------------------
(* What is asked of the documents; the scripts check none of it. *)

\* Sections are numbered in order, in every part of a document.
Numbered(t) ==
  /\ \A i \in DOMAIN t : \A n \in {4, 6, 7} : t[i] = Sec(n) =>
       \A j \in i + 1..Len(t) : IsSec(t[j]) /\ (\A k \in i + 1..j - 1 : ~IsSec(t[k])) => t[j] = Sec(n + 1)
  /\ \A j \in DOMAIN t : t[j] = Sec(8) => \E i \in 1..j - 1 : t[i] = Sec(7)

\* There is at most one scope note, above section 8.
NotedOnce(t) ==
  \A i \in DOMAIN t : t[i] = Note =>
    \A j \in DOMAIN t : (t[j] = Note => j = i) /\ (j < i => t[j] # Sec(8))

\* In section 6, rows stand below the introduction or the heading of 6.2, if there
\* is one, and that below the heading of 6.1, if there is one.
Marks == {Intro, Sub(62)}
Introduced(sec) ==
  \A i, j \in DOMAIN sec : i < j =>
    /\ IsRow(sec[i]) /\ sec[i].says = Own /\ sec[j] \in Marks => \E h \in 1..i - 1 : sec[h] \in Marks
    /\ sec[i] \in Marks /\ sec[j] = Sub(61) => \E h \in 1..i - 1 : sec[h] = Sub(61)

Scripts ==
  /\ MODULES \in Seq(Docs) /\ DOMAIN DOCS4 \subseteq Docs
  /\ IsFiniteSet(ErrorCodes) /\ IsFiniteSet(Paths) /\ ErrorCodes \cup Events \cup Paths \subseteq RowNames
  /\ Home \in [ErrorCodes -> SecDocs] /\ LccDoc \notin SecDocs
  /\ \A d \in DOMAIN DOCS4 : /\ IsFiniteSet(DOCS4[d].rows) /\ DOCS4[d].rows \subseteq RowNames
                             /\ DOCS4[d].rows \cap DOCS4[d].drop = {}
  /\ ApiDocs \cap NoteDocs = {} /\ Editions # {} /\ Own \notin Editions /\ NoRow \notin Editions
  /\ MaxDocEdits \in Nat /\ MaxReruns \in Nat
  /\ InitText \in [Docs -> Seq(Line)]
  /\ \A d \in Docs : Numbered(InitText[d]) /\ NotedOnce(InitText[d]) /\ Introduced(section(InitText[d], 6))

ASSUME ScriptsAssumption == Scripts

-----------------------------------------------------------------------------
(* restructure_errors.py *)

parse_taxonomy(d) == {c \in ErrorCodes : v1codes[c] # NoRow /\ IF d = LccDoc THEN c \in AccountCodes ELSE Home[c] = d}
HasBlock(d) == d \in SecDocs \/ (d = LccDoc /\ parse_taxonomy(d) # {})

\* The legacy names turned into dotted ones, rows of the baseline folded; the
\* introduction becomes the heading of 6.2, when there is one.
Extended(old, v1_here) ==
  LET kept == Picked(old, {n \in DOMAIN old : ~(IsRow(old[n]) /\ old[n].legacy /\ old[n].name \in v1_here)})
      ext  == [i \in DOMAIN kept |-> IF IsRow(kept[i]) THEN [kept[i] EXCEPT !.legacy = FALSE] ELSE kept[i]]
      i    == Find(ext, 1, {Intro})
  IN  IF i > Len(ext) THEN ext ELSE [ext EXCEPT ![i] = Sub(62)]

\* Mutant: a row is folded when any document's baseline has its code.
ErrorsSectionAllV1(d, old) ==
  (IF HasBlock(d) THEN <<Sub(61)>> \o BaseRows(parse_taxonomy(d), v1codes) ELSE <<>>)
    \o Extended(old, {c \in ErrorCodes : v1codes[c] # NoRow})

\* Mutant: the baseline is put behind what was there.
ErrorsSectionBehind(d, old) ==
  Extended(old, parse_taxonomy(d))
    \o (IF HasBlock(d) THEN <<Sub(61)>> \o BaseRows(parse_taxonomy(d), v1codes) ELSE <<>>)

ErrorsSection(d, old) ==
  (IF HasBlock(d) THEN <<Sub(61)>> \o BaseRows(parse_taxonomy(d), v1codes) ELSE <<>>)
    \o Extended(old, parse_taxonomy(d))

(* restructure_events.py: the baseline is written in the script. *)

Written(S) == BaseRows(S, [x \in S |-> CHOOSE e \in Editions : TRUE])
Unfolded(d, old) == Picked(old, {n \in DOMAIN old : ~(IsRow(old[n]) /\ old[n].name \in DOCS4[d].drop)})

\* Mutant: the extended model gets no heading.
EventsSectionPlain(d, old) == <<Sub(41)>> \o Written(DOCS4[d].rows) \o Unfolded(d, old)

EventsSection(d, old) == <<Sub(41)>> \o Written(DOCS4[d].rows) \o <<Sub(42)>> \o Unfolded(d, old)

(* restructure_endpoints.py *)

parse_api(d) == Written(Paths)
EndpointsSection(d, old) == <<Sub(71)>> \o parse_api(d) \o <<Sub(72)>> \o old

\* The scope note goes on top of section 7, unless section 7 or an earlier one has it.
Noted(t) ==
  LET i == Find(t, 1, {Sec(7)}) IN
  IF i > Len(t) \/ Note \in Range(SubSeq(t, 1, Find(t, 1, {Sec(8)}) - 1)) THEN t
  ELSE SubSeq(t, 1, i) \o <<Note>> \o SubSeq(t, i + 1, Len(t))

-----------------------------------------------------------------------------
(* aggregate_docs.py *)

\* The rows of a section, the first of a name only; one is V1 when a line like it
\* stands between the first heading `base' and the next heading `ext', or the end.
Scan(sec, base, ext) ==
  LET i == Find(sec, 1, {Sub(base)})
      v1_zone == {sec[k] : k \in i + 1..Find(sec, i + 1, {Sub(ext)}) - 1}
      seen(l, k) == \E h \in 1..k - 1 : IsRow(sec[h]) /\ sec[h].name = l.name /\ sec[h].legacy = l.legacy
      rows == Picked(sec, {k \in DOMAIN sec : IsRow(sec[k]) /\ ~seen(sec[k], k)})
  IN  [x \in DOMAIN rows |-> [name |-> rows[x].name, legacy |-> rows[x].legacy, says |-> rows[x].says, v1 |-> rows[x] \in v1_zone]]

build_errors == [d \in Docs |-> Scan(section(text[d], 6), 61, 62)]

\* A later document's row of an event replaces an earlier one's.
build_events ==
  LET rows == [d \in Docs |-> Scan(section(text[d], 4), 41, 42)]
      named(d) == {rows[d][i].name : i \in DOMAIN rows[d]}
      last(e) == MODULES[Max({i \in DOMAIN MODULES : e \in named(MODULES[i])})]
  IN  [e \in UNION {named(d) : d \in Docs} |->
         [doc |-> last(e), v1 |-> \E i \in DOMAIN rows[last(e)] : rows[last(e)][i].name = e /\ rows[last(e)][i].v1]]

-----------------------------------------------------------------------------
(* Runs and edits *)

Script(name) == reruns < MaxReruns /\ reruns' = reruns + 1 /\ done' = (done \ {"aggregate"}) \cup {name}
                  /\ UNCHANGED <<v1codes, doc30, doc31, dedits>>

restructure_errors ==
  Script("errors") /\ text' = [d \in Docs |-> Replaced(text[d], 6, 7, ErrorsSection(d, Between(text[d], 6, 7)))]
restructure_events ==
  Script("events") /\ text' = [d \in Docs |-> IF d \in DOMAIN DOCS4
                                              THEN Replaced(text[d], 4, 5, EventsSection(d, Between(text[d], 4, 5))) ELSE text[d]]
restructure_endpoints ==
  Script("endpoints") /\ text' = [d \in Docs |-> IF d \in ApiDocs THEN Replaced(text[d], 7, 8, EndpointsSection(d, Between(text[d], 7, 8)))
                                                 ELSE IF d \in NoteDocs THEN Noted(text[d]) ELSE text[d]]
aggregate_docs ==
  /\ doc30' = build_errors /\ doc31' = build_events /\ done' = done \cup {"aggregate"}
  /\ UNCHANGED <<text, v1codes, reruns, dedits>>

DocsEdited == dedits < MaxDocEdits /\ dedits' = dedits + 1 /\ done' = {} /\ UNCHANGED <<doc30, doc31, reruns>>

\* The taxonomy gains, changes or loses a code.
EditV1Codes ==
  /\ DocsEdited /\ UNCHANGED text
  /\ \E c \in ErrorCodes, e \in Editions \cup {NoRow} : v1codes' = [v1codes EXCEPT ![c] = e]

\* An author adds a row at the end of section 4, 6 or 7.
Appended(t, n, row) == Replaced(t, n, n + 1, Append(Between(t, n, n + 1), row))
EditModuleDoc ==
  /\ DocsEdited /\ UNCHANGED v1codes
  /\ \E d \in Docs :
       \/ \E e \in Events : text' = [text EXCEPT ![d] = Appended(@, 4, Entry(e, FALSE, Own))]
       \/ \E c \in ErrorCodes, b \in BOOLEAN : text' = [text EXCEPT ![d] = Appended(@, 6, Entry(c, b, Own))]
       \/ \E p \in Paths : text' = [text EXCEPT ![d] = Appended(@, 7, Entry(p, FALSE, Own))]

DocsInit ==
  /\ text = InitText /\ v1codes \in [ErrorCodes -> Editions \cup {NoRow}]
  /\ doc30 = [d \in Docs |-> <<>>] /\ doc31 = [e \in {} |-> 0]
  /\ done = {} /\ reruns = 0 /\ dedits = 0

DocsNext == restructure_errors \/ restructure_events \/ restructure_endpoints \/ aggregate_docs \/ EditV1Codes \/ EditModuleDoc

DocsSpec == DocsInit /\ [][DocsNext]_docVars

-----------------------------------------------------------------------------
(* Properties *)

Named(lines) == {l.name : l \in {x \in Range(lines) : IsRow(x)}}

\* When docs/30 was gathered after restructure_errors, and nothing was edited since,
\* it lists every code of a document's section 6 once, each code of the taxonomy
\* as V1 and in the taxonomy's present words, however often the section was
\* restructured before; and, where the section has its 6.2, no author's row as V1
\* (restructure_errors, build_errors).
RegistryExact ==
  {"errors", "aggregate"} \subseteq done => \A d \in Docs :
    LET rows == doc30[d]  sec6 == section(text[d], 6) IN
    /\ \A i, j \in DOMAIN rows : rows[i].name = rows[j].name => i = j
    /\ {rows[i].name : i \in DOMAIN rows} = Named(sec6)
    /\ sec6 # <<>> => \A c \in parse_taxonomy(d) :
         \E i \in DOMAIN rows : rows[i] = [name |-> c, legacy |-> FALSE, says |-> v1codes[c], v1 |-> TRUE]
    /\ Sub(62) \in Range(sec6) => \A i \in DOMAIN rows : rows[i].v1 => rows[i].says # Own

\* When docs/31 was gathered after restructure_events, and nothing was edited since,
\* it lists every event of the sections 4; one that a single document lists has
\* that document as producer and is V1 iff it is in its baseline, reruns on top
\* of older baselines included (restructure_events, build_events).
CatalogExact ==
  {"events", "aggregate"} \subseteq done =>
    LET sec4(d) == Named(section(text[d], 4)) IN
    /\ DOMAIN doc31 = UNION {sec4(d) : d \in Docs}
    /\ \A d \in DOMAIN DOCS4 : \A e \in sec4(d) :
         (\A o \in Docs \ {d} : e \notin sec4(o)) => doc31[e] = [doc |-> d, v1 |-> e \in DOCS4[d].rows]

\* A restructuring loses no author's row: the row is still in its document, by its
\* dotted name, or the document's own baseline has it, or the script names it as
\* folded; and a document gets its scope note once (restructure_*: main).
RestructureKeeps ==
  [][dedits' = dedits => \A d \in Docs :
       /\ \A l \in {x \in Range(text[d]) : IsRow(x) /\ x.says = Own} :
            \/ l \in Range(text'[d]) \/ [l EXCEPT !.legacy = FALSE] \in Range(text'[d])
            \/ \E x \in Range(text'[d]) : IsRow(x) /\ x.name = l.name /\ x.says # Own
            \/ d \in DOMAIN DOCS4 /\ l.name \in DOCS4[d].drop
       /\ Cardinality({i \in DOMAIN text'[d] : text'[d][i] = Note}) <= 1]_docVars

\* docs/30 and docs/31 say what the module documents and the taxonomy say, after any
\* history of edits and reruns of the scripts on their own output (aggregate_docs).
AggregatesExact == RegistryExact /\ CatalogExact

=============================================================================
