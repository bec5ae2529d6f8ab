----------------------------- MODULE Registers -----------------------------
(***************************************************************************)
(* From the PRD workbook to the register documents: the files that          *)
(* parse_prd_workbook.py, build_triage_data.py and build_prd_registers.py   *)
(* read and write, and the people who edit what stands between them.        *)
(*                                                                          *)
(* A workbook is the fragments of its sheets (Sheet); a question's text is  *)
(* its words, so that the spacing _norm removes does not exist here.  The    *)
(* other tabular sheets are read as the backlog is: a book holds the rows.  *)
(***************************************************************************)
EXTENDS Sheet

CONSTANTS
  Books,      \* PDF exports: backlog page, question pages, out-of-scope pages, proposals, log
  Names,      \* header names of the backlog sheet
  ReqCol,     \* the name of its first column
  StoryCol,   \* the user-story column
  Buckets,    \* stakeholders
  Internal,   \* the bucket whose rows carry proposals, the default
  MaxEdits,   \* bound on what people do
  None

VARIABLES
  pdf,        \* uploads/Alpha One PRD.pdf
  wb,         \* scripts/prd-workbook.json
  legacy,     \* scripts/prd-backlog.json: requirement -> planning cells
  rows,       \* ROWS and the asserted number of build_triage_data.py
  tri,        \* scripts/prd-question-triage.json
  design,     \* scripts/design-questions.json: one entry per design-review question
  docs,       \* docs/36, 37, 37a, 38, 39
  edits,
  synced     \* history: the export the backlog was last merged from

vars == <<pdf, wb, legacy, rows, tri, design, docs, edits, synced>>

-----------------------------------------------------------------------------
(* parse_prd_workbook.py *)

\* A data dictionary lists every (section, value) once, where it first stands.
Once(list) == FoldLeft(LAMBDA acc, e : IF \E i \in DOMAIN acc : acc[i] = e THEN acc ELSE Append(acc, e), <<>>, list)

\* main: the sheets of one export.  Rows without their first cell are dropped, and
\* a proposal's "Promoted Req ID" is stored under promoted_req.
parse(book) ==
  [backlog   |-> LET r == anchor_rows(book.backlog, Names, ReqCol, StoryCol)
                     kept == SelectSeq(r, LAMBDA x : ReqCol \in DOMAIN x)
                 IN  [i \in DOMAIN kept |-> norm_row(kept[i])],
   open_questions |-> parse_open_questions(book.questions),
   out_of_scope   |-> parse_out_of_scope(book.scope),
   feature_proposals |-> [i \in DOMAIN book.proposals |-> [id |-> book.proposals[i].id, status |-> book.proposals[i].status,
                                                          promoted_req |-> book.proposals[i].req]],
   change_log        |-> SelectSeq(book.log, LAMBDA c : c.action # None),
   data_dictionary   |-> Once(book.vocab)]

\* The backlog as a dictionary: the last row of a requirement wins.
Reqs(out) == {out.backlog[i][ReqCol] : i \in DOMAIN out.backlog}
RowOf(out, req) == LET mine == {i \in DOMAIN out.backlog : out.backlog[i][ReqCol] = req}
                   IN  [n \in Names \ {ReqCol} |-> LET r == out.backlog[Max(mine)] IN IF n \in DOMAIN r THEN r[n] ELSE <<>>]

\* Mutant: requirements that are there already are not refreshed.
merge_legacyAddsOnly(out, old) ==
  [r \in Reqs(out) \cup DOMAIN old |-> IF r \in DOMAIN old THEN old[r] ELSE RowOf(out, r)]

\* Every parsed requirement is added or refreshed; none is removed.
merge_legacy(out, old) ==
  [r \in Reqs(out) \cup DOMAIN old |-> IF r \in Reqs(out) THEN RowOf(out, r) ELSE old[r]]

\* check: same number of requirements, the same cells for each.
check(out, old) ==
  /\ Cardinality(DOMAIN old) = Cardinality(Reqs(out))
  /\ \A r \in DOMAIN old : r \in Reqs(out) /\ old[r] = RowOf(out, r)

-----------------------------------------------------------------------------
(* build_prd_registers.py *)

\* An answer is missing, or it records that the question is open.
is_open(q) == \A i \in DOMAIN q.answer : i = 1 => q.answer[i].k = "open"

\* Rows of one section, in the order of the sheet: its table in docs/37.
SectionRows(data, sec) == SelectSeq(data.open_questions, LAMBDA q : q.section = sec)
Sections(data) == {data.open_questions[i].section : i \in DOMAIN data.open_questions}

\* Mutant: only open questions are counted.
RefNumberOpenOnly(data, i) ==
  LET qs == data.open_questions
  IN  Cardinality({j \in 1..i : qs[j].section = qs[i].section /\ is_open(qs[j])})

\* The number a question has in its section's table.
RefNumber(data, i) ==
  LET qs == data.open_questions
  IN  Cardinality({j \in 1..i : qs[j].section = qs[i].section})

\* Triage rows by (section, question).
_triage_map(triage) == {<<t.section, t.q>> : t \in triage}
BucketOf(triage, key) == (CHOOSE t \in triage : <<t.section, t.q>> = key).bucket

\* The open questions of the workbook that have a triage row.  The tables are
\* sorted by section and number: a set stands for them.
Matched(data, triage) ==
  LET qs == data.open_questions
      key(i) == <<qs[i].section, qs[i].question>>
  IN  {[sec |-> qs[i].section, q |-> qs[i].question, n |-> RefNumber(data, i), bucket |-> BucketOf(triage, key(i))] :
         i \in {i \in DOMAIN qs : is_open(qs[i]) /\ key(i) \in _triage_map(triage)}}

\* triage_section ends the script when the numbers differ.
TriageMismatch(data, triage) == Cardinality(Matched(data, triage)) # Cardinality(_triage_map(triage))

PerBucket(data, triage) == [b \in Buckets |-> {m \in Matched(data, triage) : m.bucket = b}]

\* docs/36 reads promoted_req_id, which no proposal has: the cell is a dash.
build_proposals(data) ==
  LET props == data.feature_proposals
      statuses == {props[i].status : i \in DOMAIN props}
  IN  [rows |-> [i \in DOMAIN props |-> [id |-> props[i].id, status |-> props[i].status, promoted |-> None]],
       by_status |-> [st \in statuses |-> Cardinality({i \in DOMAIN props : props[i].status = st})]]

\* docs/37: a table per section, the design-review questions, the triage.
triage_section(data, triage) == PerBucket(data, triage)
build_open_questions(data, triage, extra) ==
  [tables |-> [s \in Sections(data) |-> SectionRows(data, s)], design |-> extra,
   open_extra |-> Len(SelectSeq(extra, is_open)), triage |-> triage_section(data, triage)]

\* docs/37a: the triage without the comparison, and the totals.
build_stakeholder_handoff(data, triage) ==
  LET qs == data.open_questions
  IN  [parts |-> PerBucket(data, triage), total |-> Len(qs),
       answered |-> Cardinality({i \in DOMAIN qs : ~is_open(qs[i])})]

\* docs/38: the items of a module in sheet order.
build_out_of_scope(data) ==
  LET its == data.out_of_scope
  IN  [m \in {its[i].module : i \in DOMAIN its} |->
         LET mine == SelectSeq(its, LAMBDA x : x.module = m) IN [k \in DOMAIN mine |-> mine[k].item]]

\* docs/39: the log by time (stable), each action explained once, the vocabularies.
build_change_log(data) ==
  LET log == data.change_log
      rank(i) == Cardinality({j \in DOMAIN log : log[j].at < log[i].at \/ (log[j].at = log[i].at /\ j <= i)})
  IN  [entries |-> [k \in DOMAIN log |-> log[CHOOSE i \in DOMAIN log : rank(i) = k]],
       actions |-> Once([i \in DOMAIN log |-> log[i].action]), vocab |-> data.data_dictionary]

\* Mutant: the documents are written before the triage is compared.
WriteDocsUnchecked(old, data, triage, extra) ==
  [d36 |-> build_proposals(data), d37 |-> [build_open_questions(data, triage, extra) EXCEPT !.triage = old.d37.triage],
   d37a |-> build_stakeholder_handoff(data, triage), d38 |-> build_out_of_scope(data), d39 |-> build_change_log(data)]

\* Mutant: the files are opened for writing before the builders run.
WriteDocsTruncates(old, data, triage, extra) ==
  IF TriageMismatch(data, triage) THEN [old EXCEPT !.d36 = build_proposals(data), !.d38 = None]
  ELSE [d36 |-> build_proposals(data), d37 |-> build_open_questions(data, triage, extra),
        d37a |-> build_stakeholder_handoff(data, triage), d38 |-> build_out_of_scope(data), d39 |-> build_change_log(data)]

\* main: one document after the other; docs/36 is written before docs/37 may abort.
WriteDocs(old, data, triage, extra) ==
  IF TriageMismatch(data, triage)
  THEN [old EXCEPT !.d36 = build_proposals(data)]
  ELSE [d36 |-> build_proposals(data), d37 |-> build_open_questions(data, triage, extra),
        d37a |-> build_stakeholder_handoff(data, triage), d38 |-> build_out_of_scope(data), d39 |-> build_change_log(data)]

-----------------------------------------------------------------------------
(* Steps *)

\* A new export is uploaded.
Upload ==
  /\ edits < MaxEdits /\ edits' = edits + 1
  /\ \E b \in Books : b # pdf /\ pdf' = b
  /\ UNCHANGED <<wb, legacy, rows, tri, design, docs, synced>>

\* parse_prd_workbook.py, without and with --merge-legacy; --check writes nothing.
Parse ==
  /\ wb' = parse(pdf)
  /\ UNCHANGED <<pdf, legacy, rows, tri, design, docs, edits, synced>>

ParseMerge ==
  /\ wb' = parse(pdf)
  /\ legacy' = merge_legacy(wb', legacy)
  /\ synced' = pdf
  /\ UNCHANGED <<pdf, rows, tri, design, docs, edits>>

\* "The Tech Lead writes it into scripts/prd-workbook.json (PRD rows)": an owner's
\* decision, or the default that keeps the question open; "or
\* scripts/design-questions.json (new D-row)".
Decide ==
  /\ edits < MaxEdits /\ edits' = edits + 1
  /\ \/ \E i \in DOMAIN wb.open_questions, kind \in {"decision", "open"} :
          LET q == wb.open_questions[i] IN
          /\ is_open(q)
          /\ wb' = [wb EXCEPT !.open_questions[i].answer = <<[k |-> kind, id |-> <<1>>]>>]
          /\ UNCHANGED design
     \/ \E a \in {<<>>, <<[k |-> "decision", id |-> <<2>>]>>} : design' = Append(design, [answer |-> a]) /\ UNCHANGED wb
  /\ UNCHANGED <<pdf, legacy, rows, tri, docs, synced>>

\* ROWS is edited to follow the workbook: a row for an open question, or a row
\* less; the number in the assertion is adapted or forgotten.
EditRows ==
  /\ edits < MaxEdits /\ edits' = edits + 1
  /\ \/ \E i \in DOMAIN wb.open_questions, b \in Buckets :
          LET q == wb.open_questions[i] IN
          /\ is_open(q) /\ <<q.section, q.question>> \notin _triage_map(rows.list)
          /\ rows' \in {[rows EXCEPT !.list = @ \cup {[section |-> q.section, q |-> q.question, bucket |-> b]}, !.number = n] :
                          n \in {rows.number, Cardinality(rows.list) + 1}}
     \/ \E t \in rows.list :
          rows' \in {[rows EXCEPT !.list = @ \ {t}, !.number = n] : n \in {rows.number, Cardinality(rows.list) - 1}}
  /\ UNCHANGED <<pdf, wb, legacy, tri, design, docs, synced>>

\* build_triage_data.py: the assertion, then the file.
build_triage_data ==
  /\ Cardinality(rows.list) = rows.number
  /\ tri' = rows.list
  /\ UNCHANGED <<pdf, wb, legacy, rows, design, docs, edits, synced>>

\* build_prd_registers.py; --check writes nothing.
build_prd_registers ==
  /\ docs' = WriteDocs(docs, wb, tri, design)
  /\ UNCHANGED <<pdf, wb, legacy, rows, tri, design, edits, synced>>

\* ROWS as committed: every open question has a bucket.
ROWS(data) ==
  LET qs == data.open_questions
      who(i) == IF i % 2 = 0 THEN Internal ELSE CHOOSE b \in Buckets : b # Internal
  IN  {[section |-> qs[i].section, q |-> qs[i].question, bucket |-> who(i)] : i \in {j \in DOMAIN qs : is_open(qs[j])}}

\* The state of the repository: everything built from the first export.
InitFrom(book) ==
  LET out == parse(book)
      all == ROWS(out)
  IN
  /\ pdf = book /\ synced = book /\ wb = out /\ design = <<>>
  /\ legacy = merge_legacy(out, [r \in {} |-> None])
  /\ rows = [list |-> all, number |-> Cardinality(all)] /\ tri = all
  /\ docs = [d36 |-> build_proposals(out), d37 |-> build_open_questions(out, all, <<>>),
             d37a |-> build_stakeholder_handoff(out, all), d38 |-> build_out_of_scope(out), d39 |-> build_change_log(out)]
  /\ edits = 0

Init == \E b \in Books : InitFrom(b)

Next == Upload \/ Parse \/ ParseMerge \/ Decide \/ EditRows \/ build_triage_data \/ build_prd_registers

Spec == Init /\ [][Next]_vars

-----------------------------------------------------------------------------
(* Properties *)

SumPairs(S) == MapThenSumSet(LAMBDA p : p[2], S)

\* Every reference of the triage tables, "section #n", names the row of docs/37
\* that holds that question, and the row is open there, whatever was answered,
\* re-parsed or re-triaged between the builds (triage_section, build_open_questions).
RefsResolve ==
  \A b \in Buckets : \A m \in docs.d37.triage[b] :
    /\ m.sec \in DOMAIN docs.d37.tables /\ m.n <= Len(docs.d37.tables[m.sec])
    /\ docs.d37.tables[m.sec][m.n].question = m.q
    /\ is_open(docs.d37.tables[m.sec][m.n])

\* docs/37 and the stakeholders' hand-off always list the same questions under
\* the same bucket, and the hand-off's numbers add up to docs/37's tables, also
\* after a build that the triage comparison ended half-way (main, BUILDERS).
RegistersAgree ==
  /\ docs.d37.triage = docs.d37a.parts
  /\ docs.d37a.total = SumPairs({<<s, Len(docs.d37.tables[s])>> : s \in DOMAIN docs.d37.tables})
  /\ docs.d37a.answered = SumPairs({<<s, Len(SelectSeq(docs.d37.tables[s], LAMBDA q : ~is_open(q)))>> : s \in DOMAIN docs.d37.tables})

\* A merged backlog passes the check against the export it was merged from,
\* unless a requirement was withdrawn, which merging never removes (merge_legacy, check).
MergeSyncs ==
  LET out == parse(pdf) IN synced = pdf /\ DOMAIN legacy \subseteq Reqs(out) => check(out, legacy)

=============================================================================
