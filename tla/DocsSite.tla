------------------------------ MODULE DocsSite ------------------------------
(***************************************************************************)
(* scripts/build_docs_site.py: one build of the documentation site after     *)
(* another, while authors edit the tree and builds are interrupted.         *)
(*                                                                          *)
(* A file is [dir, name, ext], a directory the sequence of its names.  The   *)
(* tree maps files to their Markdown lines.  A link's place is a file, or     *)
(* AsDir of a directory.  A link is [dir, to, slash]: it  *)
(* names a directory (written with or without the slash) or a file, by the  *)
(* place it resolves to; rel_url and the browser's resolution cancel out.   *)
(* Links with a scheme and links out of the repository are left out, and so *)
(* are the links in a mirrored file.  What a text renders to is a constant:  *)
(* Markdown models it.                                                      *)
(***************************************************************************)
EXTENDS Naturals, Sequences, SequencesExt, FiniteSets, FiniteSetsExt

CONSTANTS
  Trees,        \* states of the repository an author may leave
  Texts,        \* what a file may hold
  LinksOf, IdsOf,  \* per text: the links of its page, the ids of its headings
  NameOrder,    \* the names of files and directories in sorted order
  Exts,         \* the suffixes of files
  MaxDirDepth,  \* MAX_DIR_DEPTH
  MaxEdits,     \* bound on what people do
  None

VARIABLES
  tree,      \* file -> its lines
  out,       \* docs-site: Absent, or site file -> page
  marked,    \* its .docs-site.json exists
  ours,      \* history: a build created the directory
  pc, job,   \* the running build: step, and what it collected
  edits

vars == <<tree, out, marked, ours, pc, job, edits>>

NoJob == [docs |-> <<>>, rendered |-> <<>>, dirs |-> {}, assets |-> {}]

-----------------------------------------------------------------------------
(* collect_docs *)

File(d, n, x) == [dir |-> d, name |-> n, ext |-> x]
AsDir(d) == File(d, "", "")
Dirs(files) == UNION {{SubSeq(f.dir, 1, n) : n \in 0..Len(f.dir)} : f \in files}

README(d) == File(d, "README", "md")
Index(d) == File(d, "index", "html")

\* README pages are their directory's index.
SitePath(f) == File(f.dir, IF f.name = "README" THEN "index" ELSE f.name, "html")

\* The members of S by rank.
InOrder(S, rank) ==
  [i \in 1..Cardinality(S) |-> CHOOSE x \in S : Cardinality({y \in S : rank[y] < rank[x]}) = i - 1]

\* Files of a directory by name, as glob and sorted give them.
RankOf(n) == CHOOSE i \in DOMAIN NameOrder : NameOrder[i] = n
Sorted(files) == InOrder(files, [f \in files |-> RankOf(f.name)])
Only(t, f) == IF f \in DOMAIN t THEN <<f>> ELSE <<>>
GlobMd(t, d) == Sorted({f \in DOMAIN t : f.dir = d /\ f.ext = "md"})

collect_docs(t) ==
  Only(t, README(<<>>)) \o GlobMd(t, <<"docs">>)
  \o Only(t, README(<<"contracts">>)) \o GlobMd(t, <<"contracts", "api">>)

\* _doc_group: the numbers of the file names, by the group they belong to.
_doc_group(f) ==
  CASE f.dir = <<>> -> "Overview" [] f.dir = <<"contracts">> -> "Contracts" [] f.dir = <<"contracts", "api">> -> "API-contracts"
    [] f.name \in {"00", "01"} -> "Start-here" [] f.name = "08" -> "D1" [] f.name = "36" -> "PRD-registers"
    [] OTHER -> "Documentation"

GROUP_ORDER == <<"Overview", "Start-here", "D1", "PRD-registers", "Contracts">>
_group_rank(g) == IF \E i \in DOMAIN GROUP_ORDER : GROUP_ORDER[i] = g THEN CHOOSE i \in DOMAIN GROUP_ORDER : GROUP_ORDER[i] = g
                  ELSE Len(GROUP_ORDER) + (IF g = "API-contracts" THEN 1 ELSE 2)

-----------------------------------------------------------------------------
(* What is asked of the repository; the build checks none of it. *)

Names == Range(NameOrder)
Place == [dir : Seq(Names), name : Names, ext : Exts]

\* Every document's page has a path of its own.
PagesDistinct(t) ==
  \A d, f \in DOMAIN t :
    d.ext = "md" => SitePath(d) # f /\ (f.ext = "md" /\ SitePath(f) = SitePath(d) => f = d)

\* Where an index page is rendered, READMEs are rendered there and all the way up:
\* the listing of a directory takes in its subdirectories, and would replace it.
IndexesNest(t) ==
  \A i \in DOMAIN collect_docs(t) :
    LET d == collect_docs(t)[i] IN
    SitePath(d).name = "index" =>
      \A n \in 0..Len(d.dir) : README(SubSeq(d.dir, 1, n)) \in Range(collect_docs(t))

WellLinked(text) ==
  \A l \in LinksOf[text] :
    /\ l.dir \in BOOLEAN /\ l.to.dir \in Seq(Names)
    /\ IF l.dir THEN l.to = AsDir(l.to.dir) ELSE l.to \in Place

\* What the build takes for granted of its constants.
Repository ==
  /\ NameOrder \in Seq(Names) /\ IsInjective(NameOrder)
  /\ {"index", "README", "docs", "contracts", "api"} \subseteq Names /\ {"md", "html"} \subseteq Exts
  /\ None \notin Place /\ MaxDirDepth \in Nat /\ MaxEdits \in Nat
  /\ \A t \in Trees : /\ IsFiniteSet(DOMAIN t) /\ t \in [DOMAIN t -> Texts] /\ DOMAIN t \subseteq Place
                       /\ PagesDistinct(t) /\ IndexesNest(t)
  /\ \A x \in Texts : WellLinked(x)

ASSUME DocsAssumption == Repository

-----------------------------------------------------------------------------
(* Site.rewrite: the link's href, and what it asks the build to add *)

ToFile(f) == [dir |-> FALSE, to |-> f]
ToDir(d)  == [dir |-> TRUE, to |-> AsDir(d)]
Plain(h)  == [href |-> h, dirs |-> {}, assets |-> {}]

RewriteDir(t, md_map, link) ==
  LET d == link.to.dir IN
  IF README(d) \in md_map THEN Plain(ToFile(SitePath(README(d))))
  ELSE [href |-> IF link.slash THEN ToDir(d) ELSE ToFile(Index(d)), dirs |-> {d}, assets |-> {}]

\* A file that is missing may stand for the Markdown file of its name; a Markdown
\* file that is not rendered, or nothing, leaves the link as it is written.
RewriteFile(t, md_map, f) ==
  LET dest == IF f \in DOMAIN t THEN f ELSE [f EXCEPT !.ext = "md"] IN
  CASE dest \notin DOMAIN t -> Plain(ToFile(f))
    [] dest \in DOMAIN t /\ dest.ext = "md" -> Plain(ToFile(IF dest \in md_map THEN SitePath(dest) ELSE f))
    [] OTHER -> [href |-> ToFile(dest), dirs |-> {}, assets |-> {dest}]

rewrite(t, md_map, link) ==
  IF ~link.dir THEN RewriteFile(t, md_map, link.to)
  ELSE IF link.to.dir \in Dirs(DOMAIN t) THEN RewriteDir(t, md_map, link)
  ELSE Plain(ToDir(link.to.dir))

-----------------------------------------------------------------------------
(* Pages *)

_sidebar(docs) ==
  LET groups == {_doc_group(docs[i]) : i \in DOMAIN docs}
      order  == InOrder(groups, [g \in groups |-> _group_rank(g)])
      under(g) == InOrder({i \in DOMAIN docs : _doc_group(docs[i]) = g}, [i \in DOMAIN docs |-> i])
  IN  [k \in DOMAIN order |-> LET at == under(order[k]) IN [n \in DOMAIN at |-> docs[at[n]]]]

\* Mutant: the page after the last is looked up too early.
_pagerEarly(d, docs) ==
  LET at(i) == IF i \in 1..(Len(docs) - 1) THEN SitePath(docs[i]) ELSE None
      idx == CHOOSE i \in DOMAIN docs : docs[i] = d
  IN  IF ~\E i \in DOMAIN docs : docs[i] = d THEN [prev |-> None, next |-> None] ELSE [prev |-> at(idx - 1), next |-> at(idx + 1)]

\* Neighbours in the order of collection; a directory page has none.
_pager(d, docs) ==
  LET at(i) == IF i \in DOMAIN docs THEN SitePath(docs[i]) ELSE None
      idx == CHOOSE i \in DOMAIN docs : docs[i] = d
  IN  IF ~\E i \in DOMAIN docs : docs[i] = d THEN [prev |-> None, next |-> None] ELSE [prev |-> at(idx - 1), next |-> at(idx + 1)]

\* _toc: shown from three headings on.
_toc(ids) == IF Len(ids) < 3 THEN <<>> ELSE ids

\* The hub's cards: registers, module documents, and three fixed places.
build_hub(docs) ==
  {ToFile(SitePath(docs[i])) : i \in {j \in DOMAIN docs : _doc_group(docs[j]) \in {"PRD-registers", "D1"}}}
  \cup {ToFile(Index(<<"contracts">>)), ToDir(<<"contracts", "api">>), ToDir(<<"contracts">>)}

page_html(from, kind, links, hub, ids, docs) ==
  [from |-> from, kind |-> kind, links |-> links, hub |-> hub, ids |-> ids, toc |-> _toc(ids),
   side |-> _sidebar(docs), pager |-> _pager(from, docs)]

\* Every <a href> of a page.
Hrefs(page) ==
  IF page.kind = "asset" THEN {}
  ELSE {l.href : l \in page.links} \cup page.hub \cup {ToFile(Index(<<>>))}
       \cup {ToFile(SitePath(d)) : d \in UNION {Range(page.side[k]) : k \in DOMAIN page.side}}
       \cup {ToFile(f) : f \in {page.pager.prev, page.pager.next} \ {None}}

-----------------------------------------------------------------------------
(* Directory listings *)

\* Linked directories and their subdirectories, down to the depth limit.
AllDirs(ds, all, depth) ==
  ds \cup {e \in all : \E d \in ds : IsPrefix(d, e) /\ Len(e) <= Len(d) + depth}

\* Subdirectories with a listing and files with a page or a copy are linked.
_dir_index_body(t, d, listed, md_map, assets) ==
  LET subs  == {e \in listed \cap Dirs(DOMAIN t) : Len(e) = Len(d) + 1 /\ IsPrefix(d, e)}
      files == {f \in DOMAIN t : f.dir = d}
      hrefs == {ToDir(e) : e \in subs} \cup {ToFile(SitePath(f)) : f \in files \cap md_map}
               \cup {ToFile(f) : f \in files \cap assets}
  IN  {[link |-> None, href |-> h] : h \in hrefs}

generate_dir_indexes(t, j) ==
  LET listed == AllDirs(j.dirs, Dirs(DOMAIN t), MaxDirDepth)
  IN  [f \in {Index(d) : d \in listed} |->
         page_html(AsDir(f.dir), "dir", _dir_index_body(t, f.dir, listed, Range(j.docs), j.assets), {}, <<>>, j.docs)]

-----------------------------------------------------------------------------
(* verify_links *)

Exists(site, h) == IF h.dir THEN h.to.dir \in Dirs(DOMAIN site) ELSE h.to \in DOMAIN site
verify_links(site) == UNION {{<<f, h>> : h \in {x \in Hrefs(site[f]) : ~Exists(site, x)}} : f \in DOMAIN site}

-----------------------------------------------------------------------------
(* A build *)

Over(new, old) == [f \in DOMAIN new \cup DOMAIN old |-> IF f \in DOMAIN new THEN new[f] ELSE old[f]]
Empty == [f \in {} |-> None]
Absent == [f \in {None} |-> None]   \* there is no docs-site

\* Mutant: an existing directory is built into.
StartOnTop(clean) ==
  /\ pc = "idle"
  /\ LET docs == collect_docs(tree) IN
     /\ docs # <<>>
     /\ pc' = "render" /\ job' = [NoJob EXCEPT !.docs = docs]
     /\ out' = (IF out = Absent THEN Empty ELSE out) /\ marked' = FALSE /\ ours' = TRUE
  /\ UNCHANGED <<tree, edits>>

\* Mutant: the marker of the old site survives.
StartKeepsMarker(clean) ==
  /\ pc = "idle"
  /\ LET docs == collect_docs(tree) IN
     /\ docs # <<>>
     /\ pc' = "render" /\ job' = [NoJob EXCEPT !.docs = docs]
     /\ out' = Empty /\ ours' = TRUE
  /\ UNCHANGED <<tree, marked, edits>>

\* build up to mkdir: no documents, or a directory that carries no marker, ends it;
\* otherwise the old site is removed first.
Start(clean) ==
  /\ pc = "idle"
  /\ LET docs == collect_docs(tree) IN
     /\ docs # <<>>
     /\ IF out # Absent /\ ~clean /\ ~marked
        THEN UNCHANGED <<out, marked, ours, pc, job>>
        ELSE /\ pc' = "render" /\ job' = [NoJob EXCEPT !.docs = docs]
             /\ out' = Empty /\ marked' = FALSE /\ ours' = TRUE
  /\ UNCHANGED <<tree, edits>>

\* An exception or an interrupt: what was written stays, without the marker.
Fail == pc' = "idle" /\ job' = NoJob /\ UNCHANGED <<tree, out, marked, ours, edits>>

\* What the documents render to in the tree t.
Rendering(t, docs) ==
  LET md_map == Range(docs)
      to(l) == rewrite(t, md_map, l)
      links == UNION {LinksOf[t[d]] : d \in md_map}
  IN  [docs |-> docs,
       rendered |-> [i \in DOMAIN docs |-> [links |-> {[link |-> l, href |-> to(l).href] : l \in LinksOf[t[docs[i]]]},
                                            ids |-> IdsOf[t[docs[i]]]]],
       dirs |-> UNION {to(l).dirs : l \in links}, assets |-> UNION {to(l).assets : l \in links}]

\* All documents are read and rendered; one that was deleted meanwhile ends the build.
RenderAll ==
  /\ pc = "render"
  /\ IF Range(job.docs) \subseteq DOMAIN tree
     THEN pc' = "pages" /\ job' = Rendering(tree, job.docs) /\ UNCHANGED <<tree, out, marked, ours, edits>>
     ELSE Fail

DocPage(j, i) ==
  page_html(j.docs[i], "doc", j.rendered[i].links,
            IF j.docs[i] = README(<<>>) THEN build_hub(j.docs) ELSE {}, j.rendered[i].ids, j.docs)

\* Documents that share a site path: the later one stays.
WritePages ==
  /\ pc = "pages" /\ pc' = "dirs"
  /\ LET at(f) == Max({i \in DOMAIN job.docs : SitePath(job.docs[i]) = f})
     IN  out' = Over([f \in {SitePath(d) : d \in Range(job.docs)} |-> DocPage(job, at(f))], out)
  /\ UNCHANGED <<tree, marked, ours, job, edits>>

WriteDirs ==
  /\ pc = "dirs" /\ pc' = "assets"
  /\ out' = Over(generate_dir_indexes(tree, job), out)
  /\ UNCHANGED <<tree, marked, ours, job, edits>>

Copies(S) == [f \in S |-> [from |-> f, kind |-> "asset"]]

\* One file after the other; a source that is gone ends the build after some.
CopyAssets ==
  /\ pc = "assets"
  /\ IF job.assets \subseteq DOMAIN tree
     THEN pc' = "verify" /\ out' = Over(Copies(job.assets), out) /\ UNCHANGED job
     ELSE /\ \E S \in SUBSET (job.assets \cap DOMAIN tree) : out' = Over(Copies(S), out)
          /\ pc' = "idle" /\ job' = NoJob
  /\ UNCHANGED <<tree, marked, ours, edits>>

\* Mutant: the marker is written whatever the links are.
FinishAlways ==
  /\ pc = "verify" /\ pc' = "idle" /\ job' = NoJob /\ marked' = TRUE
  /\ UNCHANGED <<tree, out, ours, edits>>

\* verify_links, and main's marker for a build without broken links.
Finish ==
  /\ pc = "verify" /\ pc' = "idle" /\ job' = NoJob
  /\ marked' = (verify_links(out) = {})
  /\ UNCHANGED <<tree, out, ours, edits>>

Interrupt == pc # "idle" /\ Fail

\* People: the tree changes, docs-site is deleted, or a directory is put there.
Edit ==
  /\ edits < MaxEdits /\ edits' = edits + 1
  /\ \/ tree' \in Trees \ {tree} /\ UNCHANGED <<out, marked, ours>>
     \/ pc = "idle" /\ out # Absent /\ out' = Absent /\ marked' = FALSE /\ UNCHANGED <<tree, ours>>
     \/ pc = "idle" /\ out = Absent /\ out' = Empty /\ ours' = FALSE /\ UNCHANGED <<tree, marked>>
  /\ UNCHANGED <<pc, job>>

Init == tree \in Trees /\ out = Absent /\ marked = FALSE /\ ours = FALSE /\ pc = "idle" /\ job = NoJob /\ edits = 0

Next == (\E clean \in BOOLEAN : Start(clean)) \/ RenderAll \/ WritePages \/ WriteDirs \/ CopyAssets \/ Finish \/ Interrupt \/ Edit

Spec == Init /\ [][Next]_vars

-----------------------------------------------------------------------------
(* Properties *)

\* A site carries the marker only when it is complete: never while a build is
\* under way, never where nothing is (main, build).
TypeOK ==
  /\ tree \in Trees /\ edits \in 0..MaxEdits /\ pc \in {"idle", "render", "pages", "dirs", "assets", "verify"}
  /\ (pc = "idle") = (job = NoJob)
  /\ marked => pc = "idle" /\ out # Absent /\ ours

\* What an author means: a directory is meant by its name or by its index.html,
\* and shown by its listing, its README or an index.html of its own; a document
\* is meant by its file or by its page.
ShownFor(d) == {AsDir(d), README(d), Index(d)}
Meant(link) ==
  (IF link.dir \/ link.to = Index(link.to.dir) THEN ShownFor(link.to.dir) ELSE {})
  \cup (IF link.dir THEN {} ELSE {link.to, [link.to EXCEPT !.ext = "md"]})

\* In a site that carries the marker every link of every document opens what the
\* author linked: the page of that document, a listing or README page of that
\* directory, a copy of that file; edits during the build, interrupts and
\* rebuilds included (rewrite, generate_dir_indexes, asset copies, verify_links).
LinksLeadHome ==
  marked => \A f \in DOMAIN out : out[f].kind = "doc" => \A l \in out[f].links :
    LET there == IF l.href.dir THEN Index(l.href.to.dir) ELSE l.href.to
    IN  there \in DOMAIN out /\ out[there].from \in Meant(l.link)

\* A site that carries the marker holds the pages of one build: every page lists
\* the same documents, and every document it lists has its own page there
\* (rmtree before rendering, page_html).
OneBuild ==
  marked => \A f, g \in {f \in DOMAIN out : out[f].kind # "asset"} :
    /\ out[f].side = out[g].side
    /\ out[f].kind = "doc" => \E k \in DOMAIN out[g].side : \E i \in DOMAIN out[g].side[k] : out[g].side[k][i] = out[f].from

\* The pager of a marked site is one chain through all documents, readable in both
\* directions, and every entry of a table of contents is a heading of its page
\* (_pager, _toc, RenderCtx.slug).
PagerChains ==
  marked =>
    LET pages == {f \in DOMAIN out : out[f].kind = "doc"} IN
    /\ \A f \in pages : \A g \in pages : (out[f].pager.next = g) = (out[g].pager.prev = f)
    /\ Cardinality({f \in pages : out[f].pager.next = None}) = 1
    /\ \A f \in pages : out[f].pager.next \in pages \cup {None} /\ Range(out[f].toc) \subseteq Range(out[f].ids)

\* A site that counts as built is whole: the marker stands only on a finished
\* directory, its pages come from one build, and they form one chain (main, build).
SiteWhole == TypeOK /\ OneBuild /\ PagerChains

=============================================================================
