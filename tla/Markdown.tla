------------------------------ MODULE Markdown ------------------------------
(***************************************************************************)
(* The Markdown renderer of scripts/build_docs_site.py: lines to blocks,     *)
(* list nesting, heading ids, code spans and links.                         *)
(*                                                                          *)
(* A line is [k, ind, w]: the kind its regular expressions give it, its      *)
(* indentation and its tokens.  Tokens are words, links [k |-> "link", to],  *)
(* and back-ticks; a "quote" line's only token is the line it quotes, a     *)
(* "row" line has one token per cell.                                       *)
(***************************************************************************)
EXTENDS Naturals, Sequences, SequencesExt, FiniteSets, FiniteSetsExt

Tick == [k |-> "tick"]

\* Fences ("open" ones name a language), headings, rules, quotes and first list
\* items are recognised up to three columns in.
KindOf(l) == IF l.ind > 3 /\ l.k \in {"fence", "open", "h", "hr", "quote", "li"} THEN "text" ELSE l.k

\* The first line from i on that is not / is one of the given kinds.
FirstNot(lines, i, kinds) == Min({j \in i..Len(lines) : KindOf(lines[j]) \notin kinds} \cup {Len(lines) + 1})
FirstOf(lines, i, kinds)  == Min({j \in i..Len(lines) : lines[j].k \in kinds} \cup {Len(lines) + 1})

\* Tokens of lines joined with a space, read as plain text.
RECURSIVE Raw(_)
Raw(l) == IF l.k = "quote" THEN Raw(l.w[1]) ELSE l.w
Words(lines) == FoldLeft(LAMBDA acc, l : acc \o Raw(l), <<>>, lines)

_is_table_start(lines, i) == i + 1 <= Len(lines) /\ lines[i].k \in {"row", "sep"} /\ lines[i + 1].k = "sep"

\* Rows are cut to the width of the header.
_render_table(header, rows) ==
  [k |-> "table", w |-> header \o FoldLeft(LAMBDA acc, r : acc \o SubSeq(r, 1, Min({Len(r), Len(header)})), <<>>, rows)]

\* Mutant: an item of the same indentation ends the list too.
RECURSIVE _render_itemsStrict(_, _, _)
_render_itemsStrict(items, i, indent) ==
  IF i > Len(items) \/ items[i].ind < indent THEN [list |-> <<>>, next |-> i]
  ELSE LET kids == IF i < Len(items) /\ items[i + 1].ind >= indent THEN _render_itemsStrict(items, i + 1, items[i + 1].ind)
                   ELSE [list |-> <<>>, next |-> i + 1]
           rest == _render_itemsStrict(items, kids.next, indent)
       IN  [list |-> <<[w |-> items[i].w, kids |-> kids.list]>> \o rest.list, next |-> rest.next]

\* Items from i that are at least as deep as `indent'; deeper ones that follow an
\* item are its children, once.
RECURSIVE _render_items(_, _, _)
_render_items(items, i, indent) ==
  IF i > Len(items) \/ items[i].ind < indent THEN [list |-> <<>>, next |-> i]
  ELSE LET kids == IF i < Len(items) /\ items[i + 1].ind > indent THEN _render_items(items, i + 1, items[i + 1].ind)
                   ELSE [list |-> <<>>, next |-> i + 1]
           rest == _render_items(items, kids.next, indent)
       IN  [list |-> <<[w |-> items[i].w, kids |-> kids.list]>> \o rest.list, next |-> rest.next]

\* Lines of a list: its items, blank lines before a further item, and indented
\* lines, which continue the last item whatever they are.
RECURSIVE ListItems(_, _, _, _)
ListItems(lines, i, first, items) ==
  LET l == lines[i]
      j == FirstNot(lines, i, {"blank"})
      goesOn == j <= Len(lines) /\ lines[j].k = "li" /\ lines[j].ind >= first
  IN
  CASE i > Len(lines) -> [items |-> items, next |-> i]
    [] l.k = "li" /\ l.ind >= first -> ListItems(lines, i + 1, first, Append(items, [ind |-> l.ind, w |-> l.w]))
    [] l.k = "blank" /\ goesOn -> ListItems(lines, j, first, items)
    [] l.k \notin {"li", "blank"} /\ items # <<>> /\ l.ind > first ->
         ListItems(lines, i + 1, first, [items EXCEPT ![Len(items)].w = @ \o Raw(l)])
    [] OTHER -> [items |-> items, next |-> i]

\* Mutant: the line that ended the list is skipped.
_render_listSkips(lines, i) ==
  LET r == ListItems(lines, i, lines[i].ind, <<>>)
  IN  [list |-> _render_items(r.items, 1, lines[i].ind).list, next |-> r.next + 1]

_render_list(lines, i) ==
  LET r == ListItems(lines, i, lines[i].ind, <<>>)
  IN  [list |-> _render_items(r.items, 1, lines[i].ind).list, next |-> r.next]

\* render_markdown from line i with the paragraph collected so far: the blocks.
RECURSIVE Render(_, _, _)
Render(lines, i, para) ==
  LET l == lines[i]
      flush == IF para = <<>> THEN <<>> ELSE <<[k |-> "p", w |-> para]>>
      then(block, j) == flush \o <<block>> \o Render(lines, j, <<>>)
  IN
  IF i > Len(lines) THEN flush
  ELSE CASE l.k = "blank" -> flush \o Render(lines, i + 1, <<>>)
    [] KindOf(l) \in {"fence", "open"} -> LET e == FirstOf(lines, i + 1, {"fence"})
                              IN  then([k |-> "pre", w |-> Words(SubSeq(lines, i + 1, e - 1))], e + 1)
    [] KindOf(l) = "h"     -> then([k |-> "h", w |-> l.w], i + 1)
    [] KindOf(l) = "hr"    -> then([k |-> "hr"], i + 1)
    [] KindOf(l) = "quote" -> LET e == FirstNot(lines, i, {"quote"})
                                  inner == [m \in 1..(e - i) |-> lines[i + m - 1].w[1]]
                              IN  then([k |-> "quote", body |-> Render(inner, 1, <<>>)], e)
    [] _is_table_start(lines, i) ->
         LET e == FirstNot(lines, i + 2, {"row", "sep"})
         IN  then(_render_table(l.w, [m \in 1..(e - i - 2) |-> lines[i + 1 + m].w]), e)
    [] KindOf(l) = "li"    -> LET r == _render_list(lines, i) IN then([k |-> "list", list |-> r.list], r.next)
    [] OTHER -> Render(lines, i + 1, para \o Raw(l))

render_markdown(lines) == Render(lines, 1, <<>>)

-----------------------------------------------------------------------------
(* Tokens, headings and links of rendered blocks, in reading order *)

RECURSIVE ItemWords(_), Flat(_)
ItemWords(list) == FoldLeft(LAMBDA acc, it : acc \o <<it.w>> \o ItemWords(it.kids), <<>>, list)
\* The inline texts of the blocks; code blocks are kept apart.
Flat(blocks) ==
  FoldLeft(LAMBDA acc, b :
             acc \o (CASE b.k = "hr" -> <<>>
                       [] b.k = "quote" -> Flat(b.body)
                       [] b.k = "list" -> LET ws == ItemWords(b.list) IN [i \in DOMAIN ws |-> [k |-> "li", w |-> ws[i]]]
                       [] b.k = "table" -> [i \in DOMAIN b.w |-> [k |-> "cell", w |-> <<b.w[i]>>]]
                       [] OTHER -> <<b>>),
           <<>>, blocks)

\* Mutant: code spans are not protected.
InCodeNever(w, i) == FALSE

\* Token i stands between a back-tick and the back-tick that closes it.
InCode(w, i) ==
  LET ticks == {j \in DOMAIN w : w[j] = Tick}
      opens == {j \in ticks : Cardinality({m \in ticks : m <= j}) % 2 = 1}
  IN  \E j \in opens : /\ j < i /\ w[i] # Tick
                       /\ \E m \in ticks : m > i /\ ~\E n \in ticks : j < n /\ n < m

\* render_inline: the links outside code, of text that is not a code block.
render_inline(w) == {w[i].to : i \in {j \in DOMAIN w : w[j].k = "link" /\ ~InCode(w, j)}}
LinksIn(blocks) == UNION {render_inline(t.w) : t \in {Flat(blocks)[i] : i \in {j \in DOMAIN Flat(blocks) : Flat(blocks)[j].k # "pre"}}}

\* Mutant: the id is not recorded.
slugForgets(base, used) == [id |-> base, used |-> {base}]

\* RenderCtx.slug: the title's slug, or with the first free number from 2 on.
slug(base, used) ==
  LET with(n) == IF n = 1 THEN base ELSE Append(base, n)
      free == Min({n \in 1..(Cardinality(used) + 1) : with(n) \notin used})
  IN  [id |-> with(free), used |-> used \cup {with(free)}]

\* slugify: the words of a title without its markup.
slugify(w) ==
  LET words == SelectSeq(w, LAMBDA t : t.k = "word")
  IN  IF words = <<>> THEN <<"section">> ELSE [i \in DOMAIN words |-> words[i].id]

\* Heading ids of a page, quoted ones too, in the order they are rendered.
HeadingIds(blocks) ==
  FoldLeft(LAMBDA acc, t : LET s == slug(slugify(t.w), acc.used) IN [ids |-> Append(acc.ids, s.id), used |-> s.used],
           [ids |-> <<>>, used |-> {}], SelectSeq(Flat(blocks), LAMBDA t : t.k = "h")).ids

=============================================================================
