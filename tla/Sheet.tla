------------------------------- MODULE Sheet -------------------------------
(***************************************************************************)
(* How scripts/parse_prd_workbook.py rebuilds the rows of a workbook sheet  *)
(* from the positioned text fragments of its PDF export.                    *)
(*                                                                          *)
(* A fragment is [x, y, t]; positions are tenths of a point, y grows        *)
(* upwards.  A text t is a word the reader of the sheet sees: a record      *)
(* [k, id] of its kind and its identity.  Centres of cells are kept doubled *)
(* so that they stay integers; the costs of the alignment are doubled too.  *)
(***************************************************************************)
EXTENDS Integers, Sequences, SequencesExt, FiniteSets, FiniteSetsExt

YTol       == 16     \* page_lines: fragments this close are one line
ColTol     == 450    \* column_index: farther than this is no column
AnchorTol  == 260    \* anchor_rows: distance of an anchor from its header
RowGap     == 37     \* anchor_rows: lines of one cell
QuestionGap == 66    \* parse_open_questions: lines of one question or answer
OwnerGap   == 45     \* the same for the other columns
ItemGap    == 49     \* parse_out_of_scope: lines of one item
SkipAnchor == 100    \* _align_runs, doubled tenths: an empty cell
SkipRun    == 600    \* _align_runs: a run that belongs to no row

Abs(n) == IF n < 0 THEN -n ELSE n

\* Fragments from left to right, and cells' fragments from the top.
RECURSIVE ByX(_), ByY(_)
ByX(S) == IF S = {} THEN <<>> ELSE LET f == CHOOSE f \in S : \A g \in S : f.x <= g.x IN <<f>> \o ByX(S \ {f})
ByY(S) == IF S = {} THEN <<>> ELSE LET f == CHOOSE f \in S : \A g \in S : f.y >= g.y IN <<f>> \o ByY(S \ {f})

\* Lines from the top; a fragment joins the line above if it is within the
\* tolerance of the line's first fragment; inside a line by x.
RECURSIVE LinesFrom(_)
LinesFrom(frags) ==
  IF frags = {} THEN <<>>
  ELSE LET top == Max({f.y : f \in frags})
           in_ == {f \in frags : top - f.y <= YTol}
       IN  <<[y |-> top, frags |-> ByX({[f EXCEPT !.y = top] : f \in in_})]>> \o LinesFrom(frags \ in_)
page_lines(frags) == LinesFrom(frags)

\* Columns by the header names found in the first four lines; the first
\* occurrence of a name counts.
header_columns(lines, names) ==
  LET heads == {<<i, j>> \in (1..Min({4, Len(lines)})) \X (1..10) : j <= Len(lines[i].frags) /\ lines[i].frags[j].t \in names}
      first(n) == CHOOSE p \in heads : /\ lines[p[1]].frags[p[2]].t = n
                                       /\ \A r \in heads : lines[r[1]].frags[r[2]].t = n => p[1] < r[1] \/ (p[1] = r[1] /\ p[2] <= r[2])
      found == {n \in names : \E p \in heads : lines[p[1]].frags[p[2]].t = n}
  IN  [n \in found |-> lines[first(n)[1]].frags[first(n)[2]].x]

\* The nearest column, leftmost on a tie; a user story goes to its column wherever it starts.
Nearest(x, cols) ==
  CHOOSE n \in DOMAIN cols : \A m \in DOMAIN cols :
    Abs(x - cols[n]) < Abs(x - cols[m]) \/ (Abs(x - cols[n]) = Abs(x - cols[m]) /\ cols[n] <= cols[m])
column_index(f, cols, story) ==
  IF story \in DOMAIN cols /\ f.t.k = "story" THEN {story}
  ELSE {n \in {Nearest(f.x, cols)} : Abs(f.x - cols[n]) <= ColTol}

\* Runs of lines of one cell: <<first y, last y, words>>, from the top.
_group_runs(frags, gap) ==
  FoldLeft(LAMBDA runs, f :
             IF runs # <<>> /\ runs[Len(runs)].last - f.y <= gap
             THEN [runs EXCEPT ![Len(runs)] = [@ EXCEPT !.last = f.y, !.text = Append(@, f.t)]]
             ELSE Append(runs, [first |-> f.y, last |-> f.y, text |-> <<f.t>>]),
           <<>>, ByY(frags))

Centre(run) == run.first + run.last

-----------------------------------------------------------------------------
(* _align_runs: order-preserving alignment of runs to anchors *)

\* Mutant: dropping a run is as cheap as an empty cell.
AlignCostCheapSkip(runs, anchors) ==
  LET D[p \in (0..Len(runs)) \X (0..Len(anchors))] ==
        LET i == p[1]
            j == p[2]
        IN  IF i = 0 /\ j = 0 THEN 0
            ELSE Min((IF i > 0 /\ j > 0 THEN {D[<<i - 1, j - 1>>] + Abs(Centre(runs[i]) - anchors[j])} ELSE {})
                     \cup (IF j > 0 THEN {D[<<i, j - 1>>] + SkipAnchor} ELSE {})
                     \cup (IF i > 0 THEN {D[<<i - 1, j>>] + SkipAnchor} ELSE {}))
  IN  D

\* The cheapest alignment of the first i runs to the first j anchors.
AlignCost(runs, anchors) ==
  LET D[p \in (0..Len(runs)) \X (0..Len(anchors))] ==
        LET i == p[1]
            j == p[2]
        IN  IF i = 0 /\ j = 0 THEN 0
            ELSE Min((IF i > 0 /\ j > 0 THEN {D[<<i - 1, j - 1>>] + Abs(Centre(runs[i]) - anchors[j])} ELSE {})
                     \cup (IF j > 0 THEN {D[<<i, j - 1>>] + SkipAnchor} ELSE {})
                     \cup (IF i > 0 THEN {D[<<i - 1, j>>] + SkipRun} ELSE {}))
  IN  D

\* Mutant: each run goes to its nearest anchor.
_align_runsNearest(runs, anchors) ==
  {<<i, j>> \in (1..Len(runs)) \X (1..Len(anchors)) :
     \A k \in 1..Len(anchors) : Abs(Centre(runs[i]) - anchors[j]) <= Abs(Centre(runs[i]) - anchors[k])}

\* Backtracking prefers a match, then an empty cell, then a dropped run.
_align_runs(runs, anchors) ==
  LET D == AlignCost(runs, anchors)
      B[p \in (0..Len(runs)) \X (0..Len(anchors))] ==
        LET i == p[1]
            j == p[2]
        IN  IF i = 0 /\ j = 0 THEN {}
            ELSE IF i > 0 /\ j > 0 /\ D[p] = D[<<i - 1, j - 1>>] + Abs(Centre(runs[i]) - anchors[j])
                 THEN B[<<i - 1, j - 1>>] \cup {<<i, j>>}
            ELSE IF j > 0 /\ D[p] = D[<<i, j - 1>>] + SkipAnchor THEN B[<<i, j - 1>>]
            ELSE IF i > 0 THEN B[<<i - 1, j>>]
            ELSE B[<<i, j - 1>>]
  IN  B[<<Len(runs), Len(anchors)>>]

\* The words of anchor j's cell.
CellText(runs, pairs, j) ==
  LET mine == {i \in 1..Len(runs) : <<i, j>> \in pairs}
  IN  IF mine = {} THEN <<>> ELSE runs[CHOOSE i \in mine : TRUE].text

-----------------------------------------------------------------------------
(* anchor_rows: one page of a tabular sheet *)

\* Header lines are those that hold nothing but column names.
Body(lines, names) == SelectSeq(lines, LAMBDA l : \E i \in DOMAIN l.frags : l.frags[i].t \notin names)

AnchorsOf(body, headerX, kind) ==
  LET at == SelectSeq(body, LAMBDA l : l.frags[1].t.k = kind /\ Abs(l.frags[1].x - headerX) <= AnchorTol)
  IN  [i \in DOMAIN at |-> 2 * at[i].y]

anchor_rows(frags, names, key, story) ==
  LET lines == page_lines(frags)
      cols  == header_columns(lines, names)
      body  == Body(lines, names)
      anchors == AnchorsOf(body, cols[key], key.k)
      cell(n) == {f \in UNION {{b.frags[i] : i \in DOMAIN b.frags} : b \in {body[k] : k \in DOMAIN body}} :
                    n \in column_index(f, cols, story)}
      text(n, j) == LET runs == _group_runs(cell(n), RowGap) IN CellText(runs, _align_runs(runs, anchors), j)
  IN  [j \in DOMAIN anchors |-> [n \in {n \in DOMAIN cols : text(n, j) # <<>>} |-> text(n, j)]]

\* norm_row: a cell the PDF repeats is kept once.
norm_row(row) ==
  [n \in DOMAIN row |-> IF Len(row[n]) > 1 /\ \A i \in DOMAIN row[n] : row[n][i] = row[n][1] THEN <<row[n][1]>> ELSE row[n]]

-----------------------------------------------------------------------------
(* parse_open_questions *)

Bands == [question |-> <<900, 2550>>, raised_by |-> <<2550, 3180>>, owner |-> <<3180, 3980>>,
          deadline |-> <<3980, 4720>>, answer |-> <<4720, 9000>>]
InBand(frags, name) == {f \in frags : Bands[name][1] <= f.x /\ f.x < Bands[name][2]}
BandGap(name) == IF name \in {"question", "answer"} THEN QuestionGap ELSE OwnerGap

IsBanner(l) == Len(l.frags) = 1 /\ l.frags[1].t.k = "module"
FragsOf(lines) == UNION {{lines[k].frags[i] : i \in DOMAIN lines[k].frags} : k \in DOMAIN lines}

\* Mutant: the first banner of the page counts.
SectionOfTopmost(banners, anchor, carry) ==
  LET above == {k \in DOMAIN banners : 2 * banners[k].y >= anchor}
  IN  IF above = {} THEN carry ELSE banners[Min(above)].frags[1].t

\* The lowest banner at or above the question; without one on the page, the
\* section the page before ended with.
SectionOf(banners, anchor, carry) ==
  LET above == {k \in DOMAIN banners : 2 * banners[k].y >= anchor}
  IN  IF above = {} THEN carry ELSE banners[Max(above)].frags[1].t

\* One page: lone module names are banners, the question cell is the row, the
\* other columns are aligned to it.  A page without questions ends early and
\* leaves the section carried over as it was.
PageQuestions(lines, carry) ==
  LET banners == SelectSeq(lines, IsBanner)
      body    == FragsOf(SelectSeq(lines, LAMBDA l : ~IsBanner(l) /\ l.frags[1].t.k # "title"))
      q_runs  == _group_runs(InBand(body, "question"), BandGap("question"))
      anchors == [i \in DOMAIN q_runs |-> Centre(q_runs[i])]
      cell(name, i) == LET runs == _group_runs(InBand(body, name), BandGap(name))
                       IN  CellText(runs, _align_runs(runs, anchors), i)
  IN  IF q_runs = <<>> THEN [rows |-> <<>>, carry |-> carry]
      ELSE [rows  |-> [i \in DOMAIN q_runs |->
                         [question |-> q_runs[i].text, owner |-> cell("owner", i), answer |-> cell("answer", i),
                          section |-> SectionOf(banners, anchors[i], carry)]],
            carry |-> IF banners = <<>> THEN carry ELSE banners[Len(banners)].frags[1].t]

Unfiled == [k |-> "module", id |-> <<0>>]

\* Page after page; `pages' are the fragments of each.
parse_open_questions(pages) ==
  FoldLeft(LAMBDA acc, p : LET r == PageQuestions(page_lines(p), acc.carry)
                           IN  [rows |-> acc.rows \o r.rows, carry |-> r.carry],
           [rows |-> <<>>, carry |-> Unfiled], pages).rows

-----------------------------------------------------------------------------
(* parse_out_of_scope *)

Modules(l) == SelectSeq(l.frags, LAMBDA f : f.t.k = "module")

\* The words of one body line that stand nearest to column c.
ColumnWords(l, cols, c) ==
  LET mine == SelectSeq(l.frags, LAMBDA f : \A d \in DOMAIN cols :
                 Abs(f.x - cols[c].x) < Abs(f.x - cols[d].x) \/ (Abs(f.x - cols[c].x) = Abs(f.x - cols[d].x) /\ c <= d))
  IN  [i \in DOMAIN mine |-> mine[i].t]

\* Mutant: the last item of all is continued, whatever its module.
AddWordsToLast(items, module, words, pno, y) ==
  IF words = <<>> THEN items
  ELSE IF items # <<>> /\ items[Len(items)].page = pno /\ items[Len(items)].y - y <= ItemGap
  THEN [items EXCEPT ![Len(items)] = [@ EXCEPT !.item = @ \o words, !.y = y]]
  ELSE Append(items, [module |-> module, item |-> words, page |-> pno, y |-> y])

\* A column's words continue the module's last item on the page, or start one.
AddWords(items, module, words, pno, y) ==
  LET mine == {i \in DOMAIN items : items[i].module = module /\ items[i].page = pno}
  IN  IF words = <<>> THEN items
      ELSE IF mine # {} /\ items[Max(mine)].y - y <= ItemGap
      THEN [items EXCEPT ![Max(mine)] = [@ EXCEPT !.item = @ \o words, !.y = y]]
      ELSE Append(items, [module |-> module, item |-> words, page |-> pno, y |-> y])

\* Lines in reading order: a line with two module names or more heads the lines
\* after it, also on the next page; lines before any header are dropped.
parse_out_of_scope(pages) ==
  LET line(acc, pno, l) ==
        IF Len(Modules(l)) >= 2 THEN [acc EXCEPT !.cols = Modules(l)]
        ELSE IF acc.cols = <<>> THEN acc
        ELSE [acc EXCEPT !.items = FoldLeft(LAMBDA its, c : AddWords(its, acc.cols[c].t, ColumnWords(l, acc.cols, c), pno, l.y),
                                            @, [c \in DOMAIN acc.cols |-> c])]
      page(acc, pno) == FoldLeft(LAMBDA a, l : line(a, pno, l), acc, page_lines(pages[pno]))
  IN  FoldLeft(page, [cols |-> <<>>, items |-> <<>>], [i \in DOMAIN pages |-> i]).items

=============================================================================
