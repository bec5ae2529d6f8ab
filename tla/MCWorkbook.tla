----------------------------- MODULE MCWorkbook -----------------------------
(***************************************************************************)
(* Instances of Sheet and Registers for TLC.  The parser is checked against *)
(* what the author of the sheet wrote: a table is laid out with the         *)
(* distances the parser's comments give, and must be read back.             *)
(***************************************************************************)
EXTENDS Registers

VARIABLE input    \* what the parser is given; [kind |-> "files"] for the pipeline

W(k, a, b, c) == [k |-> k, id |-> <<a, b, c>>]
F(x, y, t) == [x |-> x, y |-> y, t |-> t]
Module(m) == [k |-> "module", id |-> <<m>>]
Repeat(n) == 1..n

\* n lines, `lead' apart, centred on y.
Stack(n, y, lead, x, t(_)) == {F(x, y + ((n - 1) * lead) \div 2 - (l - 1) * lead, t(l)) : l \in 1..n}

-----------------------------------------------------------------------------
(* A backlog page: header, then rows 30 pt apart; a cell is [lines, drift]. *)

MCReqCol   == W("req", 0, 0, 0)
FeatCol    == W("head", 2, 0, 0)
MCStoryCol == W("head", 3, 0, 0)
MCNames    == {MCReqCol, FeatCol, MCStoryCol}
ColX       == [n \in MCNames |-> IF n = MCReqCol THEN 100 ELSE IF n = FeatCol THEN 1000 ELSE 2500]
Pitch      == 300

RowY(i) == 5000 - Pitch * i
BacklogPage(t) ==
  {F(ColX[n], 5000, n) : n \in MCNames}
  \cup {F(100, RowY(i), W("req", t[i].id, 0, 0)) : i \in DOMAIN t}
  \cup UNION {Stack(t[i].feat.lines, RowY(i) + t[i].feat.drift, 30, 1000, LAMBDA l : W("feat", t[i].id, l, t[i].v)) : i \in DOMAIN t}
  \cup UNION {Stack(t[i].story.lines, RowY(i) + t[i].story.drift, 30, 1400, LAMBDA l : W("story", t[i].id, l, t[i].v)) : i \in DOMAIN t}

BacklogRows(t) ==
  [i \in DOMAIN t |->
     [n \in {MCReqCol} \cup (IF t[i].feat.lines > 0 THEN {FeatCol} ELSE {}) \cup (IF t[i].story.lines > 0 THEN {MCStoryCol} ELSE {}) |->
        IF n = MCReqCol THEN <<W("req", t[i].id, 0, 0)>>
        ELSE IF n = FeatCol THEN [l \in 1..t[i].feat.lines |-> W("feat", t[i].id, l, t[i].v)]
        ELSE [l \in 1..t[i].story.lines |-> W("story", t[i].id, l, t[i].v)]]]

Cells == {[lines |-> 0, drift |-> 0], [lines |-> 1, drift |-> -110], [lines |-> 1, drift |-> 0],
          [lines |-> 1, drift |-> 110], [lines |-> 2, drift |-> 0]}
NoCell == [lines |-> 0, drift |-> 0]
Rows2 == [1..2 -> [feat : Cells, story : {c \in Cells : c.drift = 0}, v : {1}]]
Rows3 == [1..3 -> [feat : Cells, story : {NoCell}, v : {1}]]
WithIds(t) == [i \in DOMAIN t |-> [id |-> i, feat |-> t[i].feat, story |-> t[i].story, v |-> t[i].v]]
BacklogInputs == {WithIds(t) : t \in Rows2 \cup Rows3}

-----------------------------------------------------------------------------
(* Question pages: items are banners and questions, rows centred, lines 5.6  *)
(* pt apart inside a cell and 7.6 pt between rows.                           *)

Lead == 56
Ban(m) == [banner |-> m, q |-> 0, a |-> 0]
Qn(q, a) == [banner |-> 0, q |-> q, a |-> a]
Height(it) == (Max({it.q, it.a, 1}) - 1) * Lead

RECURSIVE Place(_, _, _, _)
Place(items, i, top, pno) ==
  IF i > Len(items) THEN {}
  ELSE LET it == items[i]
           mid == top - Height(it) \div 2
           here == IF it.banner > 0 THEN {F(900, top, Module(it.banner))}
                   ELSE Stack(it.q, mid, Lead, 1000, LAMBDA l : W("q", pno, i, l))
                        \cup Stack(it.a, mid, Lead, 4800, LAMBDA l : W("a", pno, i, l))
                        \cup {F(3200, mid, W("owner", pno, i, 1))}
       IN  here \cup Place(items, i + 1, top - Height(it) - 76, pno)

QuestionPages(t) == [p \in DOMAIN t |-> Place(t[p], 1, 8000, p)]

Reading(t) == [k \in 1..(Len(t) * 10) |-> <<((k - 1) \div 10) + 1, ((k - 1) % 10) + 1>>]
Questions(t) == SelectSeq(Reading(t), LAMBDA p : p[2] <= Len(t[p[1]]) /\ t[p[1]][p[2]].banner = 0)
\* The last banner before it in reading order.
TrueSection(t, p) ==
  LET before == {r \in Range(Reading(t)) : r[2] <= Len(t[r[1]]) /\ t[r[1]][r[2]].banner > 0 /\ (r[1] < p[1] \/ (r[1] = p[1] /\ r[2] < p[2]))}
      last == CHOOSE r \in before : \A s \in before : s[1] < r[1] \/ (s[1] = r[1] /\ s[2] <= r[2])
  IN  IF before = {} THEN Unfiled ELSE Module(t[last[1]][last[2]].banner)
QuestionRows(t) ==
  LET qs == Questions(t) IN
  [k \in DOMAIN qs |-> LET p == qs[k]
                           it == t[p[1]][p[2]]
                       IN  [question |-> [l \in 1..it.q |-> W("q", p[1], p[2], l)], owner |-> <<W("owner", p[1], p[2], 1)>>,
                            answer |-> [l \in 1..it.a |-> W("a", p[1], p[2], l)], section |-> TrueSection(t, p)]]

SeqsUpTo(S, n) == UNION {[1..m -> S] : m \in 1..n}
HasQuestion(pg) == \E i \in DOMAIN pg : pg[i].banner = 0
OnePage == {<<pg>> : pg \in SeqsUpTo({Ban(1), Ban(2), Qn(1, 0), Qn(1, 3), Qn(2, 1)}, 3)}
TwoPages == [1..2 -> SeqsUpTo({Ban(1), Ban(2), Qn(1, 0), Qn(1, 1)}, 2)]
\* Every page that has a banner has a question too.
QuestionInputs == {t \in OnePage \cup TwoPages : \A p \in DOMAIN t : HasQuestion(t[p])}

-----------------------------------------------------------------------------
(* Out-of-scope pages: two columns of items of one or two lines, lines 4.2    *)
(* pt apart and items 5.6 pt; a header on the first page.                     *)

ItemLists == {<<>>, <<1>>, <<2>>, <<1, 1>>, <<1, 2>>, <<2, 1>>}
RECURSIVE Flow(_, _, _, _, _)
Flow(list, i, y, c, pno) ==
  IF i > Len(list) THEN {}
  ELSE {F(100 + 400 * c, y - 42 * (l - 1), W("item", pno * 10 + c, i, l)) : l \in 1..list[i]}
       \cup Flow(list, i + 1, y - 42 * (list[i] - 1) - 56, c, pno)
ScopePages(t) == [p \in DOMAIN t |-> (IF p = 1 THEN {F(500, 5000, Module(1)), F(900, 5000, Module(2))} ELSE {})
                                     \cup Flow(t[p].c1, 1, 4900, 1, p) \cup Flow(t[p].c2, 1, 4900, 2, p)]
ScopeInputs == {<<[c1 |-> a, c2 |-> b], [c1 |-> c, c2 |-> <<1>>]>> : a \in ItemLists, b \in ItemLists, c \in {<<>>, <<2>>}}

-----------------------------------------------------------------------------
(* The files: three exports *)

Cell(n) == [lines |-> n, drift |-> 0]
Backlog(reqs, v) == [i \in 1..Len(reqs) |-> [id |-> reqs[i], feat |-> Cell(2), story |-> Cell(1), v |-> v]]
Book(reqs, v, pages) == [backlog |-> BacklogPage(Backlog(reqs, v)), questions |-> QuestionPages(pages),
                         scope |-> ScopePages(<<[c1 |-> <<1>>, c2 |-> <<1>>]>>), proposals |-> <<[id |-> 1, status |-> "New", req |-> None], [id |-> 2, status |-> "New", req |-> v]>>,
                         log |-> <<[at |-> 2, action |-> v], [at |-> 1, action |-> v], [at |-> 1, action |-> 0], [at |-> 3, action |-> None]>>,
                         vocab |-> <<<<1, v>>, <<1, 1>>, <<1, v>>>>]
\* The second answers a question and asks another, the third withdraws a
\* requirement and changes another.
Book1 == Book(<<1, 2>>, 1, <<<<Ban(1), Qn(1, 0), Qn(1, 0)>>, <<Ban(2), Qn(1, 0)>>>>)
Book2 == Book(<<1, 2>>, 2, <<<<Ban(1), Qn(1, 1), Qn(1, 0)>>, <<Ban(2), Qn(1, 0), Qn(1, 0)>>>>)
Book3 == Book(<<2>>, 3, <<<<Ban(1), Qn(1, 0), Qn(1, 0)>>, <<Ban(2), Qn(1, 1)>>>>)
MCBooks == {Book1, Book2, Book3}

Spots == {0, 100, 160, 420, 900}
Desc(S) == [i \in 1..Cardinality(S) |-> CHOOSE y \in S : Cardinality({z \in S : z > y}) = i - 1]
Placed == {Desc(S) : S \in {T \in SUBSET Spots : Cardinality(T) <= 3}}
AlignInputs == Placed \X Placed
RunsAt(ys) == [i \in DOMAIN ys |-> [first |-> ys[i], last |-> ys[i], text |-> <<i>>]]

MCInit == input \in [kind : {"files", "align", "backlog", "questions", "scope"}, table : {<<>>}] /\ InitFrom(Book1)
Tables(kind) == CASE kind = "align" -> AlignInputs [] kind = "backlog" -> BacklogInputs
                  [] kind = "questions" -> QuestionInputs [] kind = "scope" -> ScopeInputs [] OTHER -> {}
Pick ==
  /\ input.table = <<>> /\ UNCHANGED vars
  /\ \E t \in Tables(input.kind) : input' = [input EXCEPT !.table = t]
Given(kind) == input.kind = kind /\ input.table # <<>>
MCNext == Pick \/ (input.kind = "files" /\ Next /\ UNCHANGED input)
MCSpec == MCInit /\ [][MCNext]_<<vars, input>>

\* Types of the files; the history variables hold what they record.
TypeOK ==
  /\ pdf \in MCBooks /\ synced \in MCBooks /\ edits \in 0..MaxEdits
  /\ rows.number \in Nat /\ tri \subseteq [section : {Unfiled, Module(1), Module(2)}, q : {t.q : t \in tri}, bucket : Buckets]
  /\ design \in Seq([answer : Seq([k : {"decision", "open"}, id : Seq(Nat)])])
  /\ DOMAIN docs.d36 = {"rows", "by_status"} /\ DOMAIN docs.d39 = {"entries", "actions", "vocab"}
  /\ docs.d38 # None

Pairings(n, m) == {P \in SUBSET ((1..n) \X (1..m)) : \A p, r \in P : p = r \/ (p[1] < r[1] /\ p[2] < r[2]) \/ (p[1] > r[1] /\ p[2] > r[2])}
CostOf(P, runs, anchors) ==
  MapThenSumSet(LAMBDA p : Abs(Centre(runs[p[1]]) - anchors[p[2]]), P)
  + SkipAnchor * (Len(anchors) - Cardinality(P)) + SkipRun * (Len(runs) - Cardinality(P))

\* The alignment keeps the reading order, gives a row at most one run, and no
\* order-preserving alignment is cheaper (_align_runs: table and backtracking).
AlignOptimal ==
  Given("align") =>
    LET runs == RunsAt(input.table[1])
        anchors == [i \in DOMAIN input.table[2] |-> 2 * input.table[2][i]]
        P == _align_runs(runs, anchors)
        all == Pairings(Len(runs), Len(anchors))
    IN  P \in all /\ \A Q \in all : CostOf(P, runs, anchors) <= CostOf(Q, runs, anchors)

\* A laid-out backlog is read back cell by cell: empty cells, wrapped cells, cells
\* that drift a third of a row and stories that start under another header
\* (page_lines, header_columns, column_index, anchor_rows).
BacklogReadBack ==
  Given("backlog") => anchor_rows(BacklogPage(input.table), Names, ReqCol, StoryCol) = BacklogRows(input.table)

\* Laid-out questions are read back with their own answers and owners, and with
\* the last banner before them as section, over page breaks too
\* (parse_open_questions, _group_runs).
QuestionsReadBack ==
  Given("questions") => parse_open_questions(QuestionPages(input.table)) = QuestionRows(input.table)

\* Every word of the out-of-scope sheet ends in exactly one item, under the
\* module its column is headed by, page breaks included (parse_out_of_scope).
ScopeWordsKept ==
  Given("scope") =>
    LET items == parse_out_of_scope(ScopePages(input.table))
        words(m) == {f.t : f \in {g \in UNION {ScopePages(input.table)[p] : p \in DOMAIN input.table} : g.t.k = "item" /\ g.t.id[1] % 10 = m}}
        got(m) == [i \in {i \in DOMAIN items : items[i].module = Module(m)} |-> items[i].item]
    IN  \A m \in {1, 2} : /\ UNION {Range(got(m)[i]) : i \in DOMAIN got(m)} = words(m)
                          /\ MapThenSumSet(LAMBDA i : Len(got(m)[i]), DOMAIN got(m)) = Cardinality(words(m))

\* Every sheet is read back as it was laid out (anchor_rows, parse_open_questions,
\* parse_out_of_scope).
SheetsReadBack == BacklogReadBack /\ QuestionsReadBack /\ ScopeWordsKept

\* The files derived from the workbook fit each other after any history of
\* uploads, parses, decisions, triage and builds that stop half-way
\* (build_prd_registers, merge_legacy).
RegistersFit == TypeOK /\ RefsResolve /\ RegistersAgree /\ MergeSyncs

=============================================================================
