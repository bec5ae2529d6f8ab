----------------------------- MODULE MCDocsSite -----------------------------
(***************************************************************************)
(* Instances of Markdown and DocsSite: texts of up to five lines, and seven   *)
(* states of a small repository.                                            *)
(***************************************************************************)
EXTENDS DocsSite, Markdown

VARIABLE input    \* a text for the renderer; <<>> for the builds

Word(i) == [k |-> "word", id |-> i]
Link(l) == [k |-> "link", to |-> l]
L(k, ind, w) == [k |-> k, ind |-> ind, w |-> w]

-----------------------------------------------------------------------------
(* Trees *)

Readme == File(<<>>, "README", "md")
Doc(n) == File(<<"docs">>, n, "md")
CReadme == File(<<"contracts">>, "README", "md")
Auth   == File(<<"contracts", "api">>, "auth", "md")
Spec1  == File(<<"contracts", "openapi", "v1">>, "auth", "yaml")
Notes  == File(<<"contracts", "openapi">>, "notes", "md")
App    == Index(<<"site">>)
MCNameOrder == <<"00", "08", "36", "README", "api", "auth", "contracts", "docs", "gone", "index", "notes", "openapi", "site", "v1">>

FileLink(f) == Link([dir |-> FALSE, to |-> f, slash |-> FALSE])
DirLink(d, s) == Link([dir |-> TRUE, to |-> AsDir(d), slash |-> s])
P(w) == L("text", 0, w)
H(w) == L("h", 0, w)

ReadmeText == <<H(<<Word(1)>>), L("row", 0, <<FileLink(Doc("08")), DirLink(<<"contracts">>, TRUE)>>), L("sep", 0, <<Word(0)>>),
                L("row", 0, <<DirLink(<<"docs">>, TRUE), FileLink([Doc("36") EXCEPT !.ext = "html"])>>),
                P(<<Tick, FileLink(File(<<>>, "gone", "md")), Tick>>)>>
DocText    == <<H(<<Word(1)>>), H(<<Word(1), Word(2)>>), H(<<Word(1)>>), L("quote", 0, <<H(<<Word(1)>>)>>),
                L("li", 0, <<FileLink(Readme)>>), L("li", 2, <<DirLink(<<"contracts", "openapi">>, FALSE)>>),
                L("fence", 0, <<>>), P(<<FileLink(File(<<>>, "gone", "md"))>>)>>
AuthText   == <<P(<<FileLink(Spec1), FileLink(CReadme)>>)>>
Healthy == [f \in {Readme, Doc("00"), Doc("08"), Doc("36"), CReadme, Auth, Spec1, Notes} |->
              CASE f = Readme -> ReadmeText [] f = Doc("08") -> DocText [] f = Auth -> AuthText [] OTHER -> <<H(<<Word(3)>>)>>]
Without(t, S) == [f \in DOMAIN t \ S |-> t[f]]
\* A linked document is deleted; the specification is; the contracts' README and
\* its link are; everything is; Markdown that is not rendered is linked; an
\* application of its own and a listing are linked, both by their index.html.
MCTrees == {Healthy, Without(Healthy, {Doc("36")}), Without(Healthy, {Spec1}),
            Without(Healthy, {CReadme, Auth}), Without(Healthy, DOMAIN Healthy \ {Spec1}),
            [Healthy EXCEPT ![Doc("00")] = <<P(<<FileLink(Notes)>>)>>],
            [f \in DOMAIN Healthy \cup {App} |->
               CASE f = Doc("00") -> <<P(<<DirLink(<<"site">>, TRUE), FileLink(App), FileLink(Index(<<"contracts">>))>>)>>
                 [] f = App -> <<>> [] OTHER -> Healthy[f]]}

\* What Markdown makes of their texts.
MCTexts == UNION {{t[f] : f \in DOMAIN t} : t \in MCTrees}
MCLinksOf == [x \in MCTexts |-> LinksIn(render_markdown(x))]
MCIdsOf == [x \in MCTexts |-> HeadingIds(render_markdown(x))]

-----------------------------------------------------------------------------
(* Texts: every line carries its own words *)

Shapes == {<<"blank", 0>>, <<"text", 0>>, <<"text", 2>>, <<"fence", 0>>, <<"open", 2>>, <<"h", 0>>, <<"hr", 0>>, <<"quote", 0>>, <<"row", 0>>,
           <<"sep", 0>>, <<"li", 0>>, <<"li", 2>>, <<"li", 4>>}
Tokens(k, i) == CASE k \in {"blank", "fence", "open", "hr"} -> <<>> [] k = "sep" -> <<[k |-> "sep"]>>
                  [] k = "quote" -> <<L("li", 0, <<Word(i)>>)>> [] k = "row" -> <<Word(i), [k |-> "cell2", id |-> i]>> [] OTHER -> <<Word(i)>>
Text(shapes) == [i \in DOMAIN shapes |-> L(shapes[i][1], shapes[i][2], Tokens(shapes[i][1], i))]
Listy(inds) == [i \in DOMAIN inds |-> <<"li", inds[i]>>]
Inlines == UNION {[1..n -> {Tick, Word(1), Link(1), Link(2)}] : n \in 1..4}
Titles == UNION {[1..n -> {<<Word(1)>>, <<Word(2)>>, <<Word(1), Word(2)>>, <<Word(1), Word(2), Word(2)>>}] : n \in 1..4}

Groups == {"lines", "lists", "inline", "titles", "site"}
Core == {<<"blank", 0>>, <<"text", 0>>, <<"fence", 0>>, <<"row", 0>>, <<"sep", 0>>, <<"li", 0>>, <<"li", 2>>}
Inputs(g) == CASE g = "lines" -> UNION {[1..n -> Shapes] : n \in 1..3} \cup UNION {[1..n -> Core] : n \in 4..5}
               [] g = "lists" -> UNION {[1..n -> {0, 2, 4}] : n \in 1..5}
               [] g = "inline" -> Inlines [] g = "titles" -> Titles [] OTHER -> {}

MCInit == tree = Healthy /\ Init /\ input \in [group : Groups, text : {<<>>}]
Pick == input.text = <<>> /\ UNCHANGED vars /\ \E t \in Inputs(input.group) : input' = [input EXCEPT !.text = t]
MCNext == Pick \/ (input.group = "site" /\ Next /\ UNCHANGED input)
MCSpec == MCInit /\ [][MCNext]_<<vars, input>>

Given(g) == input.group = g /\ input.text # <<>>

\* No line of a document is lost, moved or repeated: the words of its blocks are the
\* words of its lines in their order, cells beyond a table's width apart
\* (render_markdown and the parsers it calls).
LinesKept ==
  Given("lines") =>
    LET words(ts) == SelectSeq(ts, LAMBDA t : t.k = "word")
        flat == Flat(render_markdown(Text(input.text)))
        given == FoldLeft(LAMBDA acc, l : acc \o (IF l.k = "quote" THEN l.w[1].w ELSE l.w), <<>>, Text(input.text))
    IN  words(FoldLeft(LAMBDA acc, t : acc \o t.w, <<>>, flat)) = words(given)

\* Indentations that close to a level that is open.
RECURSIVE Levels(_, _)
Levels(inds, i) == IF i = 0 THEN {} ELSE {n \in Levels(inds, i - 1) : n < inds[i]} \cup {inds[i]}
Proper(inds) == \A i \in 2..Len(inds) : inds[i] > inds[i - 1] \/ inds[i] \in Levels(inds, i - 1)
Parent(inds, i) == LET up == {j \in 1..(i - 1) : inds[j] < inds[i]} IN IF up = {} THEN 0 ELSE Max(up)
RECURSIVE Parents(_, _)
Parents(list, above) == UNION {{<<list[i].w[1].id, above>>} \cup Parents(list[i].kids, list[i].w[1].id) : i \in DOMAIN list}

\* Every item of a list hangs under the last item before it that is less
\* indented, however deep the levels go and come back (_render_items).
NestingKept ==
  Given("lists") /\ Proper(input.text) /\ input.text[1] = Min(Range(input.text)) =>
    LET blocks == render_markdown(Text(Listy(input.text)))
    IN  (Len(blocks) = 1 /\ blocks[1].k = "list") =>
          Parents(blocks[1].list, 0) = {<<i, Parent(input.text, i)>> : i \in DOMAIN input.text}

\* A link is followed iff it does not stand in a code span: counting back-ticks
\* from the left, an odd number before it and one after it (render_inline).
CodeIsInert ==
  Given("inline") =>
    LET w == input.text
        before(i) == Cardinality({j \in 1..i : w[j] = Tick})
    IN  LinksIn(render_markdown(<<P(w)>>)) =
          {w[i].to : i \in {i \in DOMAIN w : w[i].k = "link" /\ (before(i) % 2 = 0 \/ before(i) = before(Len(w)))}}

\* Two headings of a page never share an id, also when a title ends like a
\* numbered one (RenderCtx.slug).
IdsUnique ==
  Given("titles") =>
    LET ids == HeadingIds(render_markdown([i \in DOMAIN input.text |-> IF i = 2 THEN L("quote", 0, <<H(input.text[i])>>) ELSE H(input.text[i])]))
    IN  Len(ids) = Len(input.text) /\ IsInjective(ids)

\* Rendering keeps what the author wrote: every line once and in order, items under
\* their parents, code without links, headings with ids of their own
\* (render_markdown, render_inline, RenderCtx.slug).
RenderingFaithful == LinesKept /\ NestingKept /\ CodeIsInert /\ IdsUnique

=============================================================================
