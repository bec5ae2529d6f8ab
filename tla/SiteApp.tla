------------------------------ MODULE SiteApp ------------------------------
(***************************************************************************)
(* The specification site: site/build_site.py, which collects the documents *)
(* into one data file and writes the browser program, and that program      *)
(* (app.js, embedded in the script), a single-page application driven by    *)
(* the browser's event loop.                                                *)
(*                                                                          *)
(* A URL hash is the sequence of its non-empty parts.  A page is a record   *)
(* [page, arg].  Text, layout and style are left out; a heading is its id,  *)
(* and `Sec[h]' is the hash part "h=" + id of a link to it.                 *)
(***************************************************************************)
EXTENDS Naturals, Sequences, FiniteSets

CONSTANTS
  DocIds,      \* stems of docs/*.md
  Num,         \* doc -> its number
  Annexes,     \* documents numbered 37a
  Payloads,    \* event names with a payload schema
  Apis,        \* names of API contracts
  Questions,   \* rows of the PRD question register
  Section,     \* question -> section of the register
  Texts,       \* answer cells, as sequences of tokens
  HeadIds,     \* heading ids
  DocHeads,    \* document -> sequence of the ids of its h2 and h3 headings
  PackHeads,   \* the same for the catalog, the taxonomy and the API contracts
  RegHeads,    \* the same for the register pages that have headings
  Sec,         \* heading id -> hash part
  Encode,      \* encodeURIComponent on event names
  Decode,      \* decodeURIComponent on hash parts; Malformed where it throws
  Typed,       \* hashes a visitor may type, or come back to
  Featured,    \* documents the home page and the registers link by name
  Queries,     \* what a visitor types into a filter
  Matches,     \* query -> the questions whose text contains it
  MaxClicks,   \* bound on the visitor's navigations
  MaxParts,    \* bound on the length of a hash the visitor follows
  MaxLoads,    \* bound on page loads
  MaxEdits,    \* bound on changes of the sources
  None, Malformed

ASSUME SiteAssumption ==
  /\ IsFiniteSet(DocIds) /\ Num \in [DocIds -> Nat] /\ Annexes \subseteq DocIds
  /\ DocIds \cup Apis \cup Payloads \cup Featured \subseteq STRING \ {""}
  /\ IsFiniteSet(Questions)
  /\ DocHeads \in [DocIds -> Seq(HeadIds)] /\ PackHeads \in Seq(HeadIds) /\ RegHeads \in Seq(HeadIds)
  /\ None \notin HeadIds
  /\ Sec \in [HeadIds -> STRING]
  /\ \A h \in HeadIds : Sec[h] \notin {"", "d", "prd", "triage"}
  /\ Malformed \notin Payloads
  /\ \A p \in Payloads : Encode[p] \in STRING \ {""} /\ Decode[Encode[p]] = p
  /\ Typed \subseteq Seq(STRING)
  /\ MaxClicks \in Nat /\ MaxParts \in Nat /\ MaxLoads \in Nat /\ MaxEdits \in Nat

VARIABLES
  src,      \* the repository: documents in order, answers
  disk,     \* alpha-one/site: data file (None: not there), shell, vendored marked
  edits,
  tab,      \* "closed", "loading" (fetch under way), "ready" (booted), "dead" (fetch failed)
  DATA,     \* the data file as fetched
  loc,      \* location.hash
  events,   \* hashchange events that are not dispatched yet
  clicks, loads,
  view,     \* the page in #view
  want,     \* history: the heading the hash named when the page was drawn
  crumb,    \* the page whose name the top bar shows
  active,   \* documents whose sidebar link has class active
  rail,     \* "On this page": the page and the hash it was built on, its headings
  reg,      \* the question list: filter inputs and listed rows
  timers,   \* deep-link timeouts: heading, and whether its element is still in the page
  spy,      \* the closure behind window._a1scroll
  old,      \* replaced closures with a frame still requested
  lit,      \* rail entries with class active
  pos,      \* scroll position: "top", "low" or at a heading
  moved,    \* a scroll event is due
  totop     \* the back-to-top button shows

repoVars   == <<src, disk, edits>>
navVars    == <<tab, DATA, loc, events, clicks, loads>>
pageVars   == <<view, want, crumb, active, rail, reg, timers>>
scrollVars == <<spy, old, lit, pos, moved, totop>>
vars == <<repoVars, navVars, pageVars, scrollVars>>

-----------------------------------------------------------------------------
(* build_site.py: collect and write *)

GROUPS == {"start", "modules", "surfaces", "crosscutting", "prd", "reviews"}

doc_groups(d) ==
  LET n == Num[d] IN
  IF d \in Annexes THEN "prd"
  ELSE IF n \in {0, 1, 99} THEN "start"
  ELSE IF n \in 2..15 THEN "modules"
  ELSE IF n \in 16..27 THEN "surfaces"
  ELSE IF n \in 28..35 THEN "crosscutting"
  ELSE IF n \in 36..40 THEN "prd"
  ELSE "reviews"

\* The documents by file name, each with its group in the sidebar.
collect_docs(s) == [i \in DOMAIN s.docs |-> [id |-> s.docs[i], group |-> doc_groups(s.docs[i])]]

\* A text without the leading tokens that are in S.
DropLeading(a, S) ==
  LET kept == {i \in 1..Len(a) : \E j \in 1..i : a[j] \notin S}
  IN  SubSeq(a, Len(a) - Cardinality(kept) + 1, Len(a))

\* Blank, or "open" behind emphasis marks.
is_open_answer(ans) ==
  LET a == DropLeading(DropLeading(ans, {" "}), {"*", "_", " "})
  IN  a = <<>> \/ a[1] = "open"

\* One page per payload schema but the envelope's.
collect_payloads == Payloads

collect(s) == [docs |-> collect_docs(s), payloads |-> collect_payloads, api |-> Apis, answers |-> s.answers,
               prd_open |-> Cardinality({q \in Questions : is_open_answer(s.answers[q])})]

\* What a data file may hold; a file that is not there is none of these.
DataFiles == [docs : Seq([id : DocIds, group : GROUPS]), payloads : {Payloads}, api : {Apis},
              answers : [Questions -> Texts], prd_open : Nat]

ASSUME FileAssumption == None \notin DataFiles

\* Mutant: the shell is written before the data file.
mainShellFirst ==
  /\ disk' = [disk EXCEPT !.shell = TRUE, !.data = IF disk.marked THEN collect(src) ELSE @]
  /\ UNCHANGED <<src, edits, navVars, pageVars, scrollVars>>

\* main: the data file first; without a marked.min.js, found or vendored
\* earlier, the assertion ends the script there; the shell last.
main ==
  /\ disk' = [disk EXCEPT !.data = collect(src), !.shell = @ \/ disk.marked]
  /\ UNCHANGED <<src, edits, navVars, pageVars, scrollVars>>

\* marked.min.js is put where main looks for it.
Vendor ==
  /\ ~disk.marked
  /\ disk' = [disk EXCEPT !.marked = TRUE]
  /\ UNCHANGED <<src, edits, navVars, pageVars, scrollVars>>

\* Between builds a document is removed or a question answered.
Edit ==
  /\ edits < MaxEdits
  /\ edits' = edits + 1
  /\ \/ \E i \in DOMAIN src.docs :
          src' = [src EXCEPT !.docs = SubSeq(@, 1, i - 1) \o SubSeq(@, i + 1, Len(@))]
     \/ \E q \in Questions, a \in Texts : src' = [src EXCEPT !.answers[q] = a]
  /\ UNCHANGED <<disk, navVars, pageVars, scrollVars>>

-----------------------------------------------------------------------------
(* app.js: hashes and pages *)

Ids(data) == {data.docs[i].id : i \in DOMAIN data.docs}

\* parseHash: three parts, "" where there is none; without any, route "home".
Part(h, i)   == IF Len(h) >= i THEN h[i] ELSE ""
parseHash(h) == [route |-> IF h = <<>> THEN "home" ELSE h[1], arg |-> Part(h, 2), sub |-> Part(h, 3)]

Page(p, a) == [page |-> p, arg |-> a]
NotFound   == Page("notfound", "")
Throws     == Page("throws", "")

pageDocOf(data, id)        == IF id \in Ids(data) THEN Page("doc", id) ELSE NotFound
pageApiOf(data, name)      == IF name \in data.api THEN Page("api", name) ELSE NotFound
\* Mutant: the part is compared as it stands in the hash.
pagePayloadRaw(data, event) == IF event \in data.payloads THEN Page("payload", event) ELSE NotFound

\* decodeURIComponent is called once per schema, so it throws if there is one.
pagePayloadOf(data, event) ==
  IF data.payloads = {} THEN NotFound
  ELSE IF Decode[event] = Malformed THEN Throws
  ELSE IF Decode[event] \in data.payloads THEN Page("payload", Decode[event]) ELSE NotFound
pageRegistersOf(t)         == Page("registers", IF t \in {"d", "prd", "triage"} THEN t ELSE "")

pageCatalog  == Page("catalog", "")
pageTaxonomy == Page("taxonomy", "")
pageDiagrams == Page("diagrams", "")

\* The dispatch of route().
PageOf(h, data) ==
  LET p == parseHash(h) IN
  CASE p.route = "doc" /\ p.arg # ""                               -> pageDocOf(data, p.arg)
    [] p.route = "contracts" /\ p.arg = "events"                   -> pageCatalog
    [] p.route = "contracts" /\ p.arg = "payloads" /\ p.sub # ""   -> pagePayloadOf(data, p.sub)
    [] p.route = "contracts" /\ p.arg = "errors"                   -> pageTaxonomy
    [] p.route = "contracts" /\ p.arg = "api" /\ p.sub # ""        -> pageApiOf(data, p.sub)
    [] p.route = "contracts" /\ p.arg = "api" /\ p.sub = ""        -> Page("apiIndex", "")
    [] p.route = "contracts" /\ p.arg = "diagrams"                 -> pageDiagrams
    [] p.route = "contracts" /\ \/ p.arg \notin {"events", "payloads", "errors", "api", "diagrams"}
                                \/ p.arg = "payloads" /\ p.sub = "" -> Page("hub", "")
    [] p.route = "registers"                                       -> pageRegistersOf(p.arg)
    [] OTHER                                                       -> Page("home", "")

\* postProcess gives the headings of rendered markdown and of the registers
\* their ids; the other pages' headings have none.
HeadsOf(v) == CASE v.page = "doc" -> DocHeads[v.arg]
                [] v.page \in {"catalog", "taxonomy", "api"} -> PackHeads
                [] v.page = "registers" /\ v.arg \in {"prd", "triage"} -> RegHeads
                [] OTHER -> <<>>

-----------------------------------------------------------------------------
(* app.js: what a page draws *)

EmptyRail == [view |-> Page("none", ""), hash |-> <<>>, ids |-> <<>>]
HasRail(v) == v.page \in {"doc", "catalog", "taxonomy", "api"}

\* Mutant: the links are built on the route alone.
buildRailOnRoute(v) == [view |-> v, hash |-> SubSeq(loc, 1, 1), ids |-> HeadsOf(v)]

\* buildRail: one link per h2 and h3, on the hash the page is drawn under.
buildRail(v) == [view |-> v, hash |-> loc, ids |-> HeadsOf(v)]

\* The hash of a rail entry, and of the paragraph mark postProcess appends.
SectionLink(hash, h) == Append(hash, Sec[h])

\* Mutant: only a blank answer is open.
openAnsBlankOnly(a) == DropLeading(a, {" "}) = <<>>

openAns(a) ==
  LET t == DropLeading(DropLeading(a, {" "}), {"*", "_", " "})
  IN  t = <<>> \/ t[1] = "open"

\* draw() of the PRD question list: status, section and text filter.
DrawRows(data, f, s, q) ==
  {x \in Questions : /\ f = "open" => openAns(data.answers[x])
                     /\ f = "answered" => ~openAns(data.answers[x])
                     /\ s \in {"", Section[x]}
                     /\ q = "" \/ x \in Matches[q]}

NoReg == [f |-> None, s |-> None, q |-> None, rows |-> {}]
pageRegPrd(data, f, s, q) == [f |-> f, s |-> s, q |-> q, rows |-> DrawRows(data, f, s, q)]

\* The list of design decisions has no section filter.
pageRegDecisions(data, f, q) == [f |-> f, s |-> "", q |-> q, rows |-> DrawRows(data, f, "", q)]

\* The deep link of a document page: the third part names one of its headings.
DeepLinks(v) ==
  {[id |-> h, live |-> TRUE] : h \in {x \in HeadIds : /\ v.page = "doc"
                                                     /\ \E i \in DOMAIN HeadsOf(v) : HeadsOf(v)[i] = x
                                                     /\ parseHash(loc).sub = Sec[x]}}

NoSpy == [on |-> FALSE, heads |-> <<>>, live |-> FALSE, rail |-> FALSE, ticking |-> FALSE]

\* Mutant: no first frame is asked for.
initScrollLazy(v) == [on |-> TRUE, heads |-> HeadsOf(v), live |-> TRUE, rail |-> TRUE, ticking |-> FALSE]

\* initScroll: a new closure replaces the listener and asks for a frame at once.
initScroll(v) == [on |-> TRUE, heads |-> HeadsOf(v), live |-> TRUE, rail |-> TRUE, ticking |-> TRUE]

\* What replacing the page, and perhaps the rail, does to a closure over them.
Detach(c, v) == [c EXCEPT !.live = FALSE, !.rail = @ /\ ~HasRail(v)]

\* Mutant: the highlight of the page before is not cleared.
HighlightKept(v) == IF v.page = "doc" THEN active \cup {v.arg} ELSE active

\* route() clears the sidebar's highlight, initScroll sets it on a document.
Highlight(v) == IF v.page = "doc" THEN {v.arg} ELSE {}

\* route(): scroll up, clear the highlight, draw the page of the hash.
\* pageNotFound only replaces the view.
route(data) ==
  LET v == PageOf(loc, data) IN
  /\ active' = Highlight(v)
  /\ pos' = "top" /\ moved' = (moved \/ pos # "top")
  /\ IF v = Throws
     THEN UNCHANGED <<view, want, crumb, rail, reg, timers, spy, old, lit>>
     ELSE /\ view' = v
          /\ want' = {t.id : t \in DeepLinks(v)}
          /\ crumb' = IF v = NotFound THEN crumb ELSE v
          /\ rail' = IF HasRail(v) THEN buildRail(v) ELSE rail
          /\ lit' = IF HasRail(v) THEN {} ELSE lit
          /\ reg' = IF v = Page("registers", "prd") THEN pageRegPrd(data, "all", "", "")
                    ELSE IF v = Page("registers", "d") THEN pageRegDecisions(data, "all", "") ELSE NoReg
          /\ timers' = {[t EXCEPT !.live = FALSE] : t \in timers} \cup DeepLinks(v)
          /\ spy' = IF v = NotFound THEN Detach(spy, v) ELSE initScroll(v)
          /\ old' = LET all == IF spy.ticking /\ v # NotFound THEN Append(old, spy) ELSE old
                    IN  [i \in DOMAIN all |-> Detach(all[i], v)]

-----------------------------------------------------------------------------
(* The event loop *)

\* A page load: a new document, theme and all; the hash is the visitor's.
Load ==
  /\ disk.shell /\ loads < MaxLoads
  /\ loads' = loads + 1 /\ tab' = "loading"
  /\ \E h \in Typed \cup {loc} : loc' = h
  /\ DATA' = None /\ events' = 0
  /\ view' = Page("none", "") /\ want' = {} /\ crumb' = Page("home", "") /\ active' = {}
  /\ rail' = EmptyRail /\ reg' = NoReg /\ timers' = {}
  /\ spy' = NoSpy /\ old' = <<>> /\ lit' = {} /\ pos' = "top" /\ moved' = FALSE /\ totop' = FALSE
  /\ UNCHANGED <<repoVars, clicks>>

\* Mutant: boot adds the listener and waits for the first event.
bootWithoutRoute ==
  /\ tab = "loading" /\ disk.data # None
  /\ tab' = "ready" /\ DATA' = disk.data
  /\ UNCHANGED <<repoVars, loc, events, clicks, loads, pageVars, scrollVars>>

\* Mutant: the page is drawn but DATA is not kept.
bootForgetsData ==
  /\ tab = "loading" /\ disk.data # None
  /\ tab' = "ready"
  /\ route(disk.data)
  /\ UNCHANGED <<repoVars, DATA, loc, events, clicks, loads, totop>>

\* The data file has come: DATA is set, boot builds the sidebar, adds the
\* hashchange listener and routes.
boot ==
  /\ tab = "loading" /\ disk.data # None
  /\ tab' = "ready" /\ DATA' = disk.data
  /\ route(disk.data)
  /\ UNCHANGED <<repoVars, loc, events, clicks, loads, totop>>

\* The fetch fails; nothing catches the rejection.
FetchFails ==
  /\ tab = "loading"
  /\ tab' = "dead"
  /\ UNCHANGED <<repoVars, DATA, loc, events, clicks, loads, pageVars, scrollVars>>

\* A hashchange event: before boot nobody listens.
HashChange ==
  /\ events > 0
  /\ events' = events - 1
  /\ IF tab = "ready" THEN route(DATA) ELSE UNCHANGED <<pageVars, spy, old, lit, pos, moved>>
  /\ UNCHANGED <<repoVars, tab, DATA, loc, clicks, loads, totop>>

\* Mutant: the element is looked up when the timeout fires.
DeepLinkTimerLate ==
  /\ \E t \in timers :
       /\ timers' = timers \ {t}
       /\ pos' = IF \E i \in DOMAIN HeadsOf(view) : HeadsOf(view)[i] = t.id THEN t.id ELSE pos
       /\ moved' = (moved \/ pos' # pos)
  /\ UNCHANGED <<repoVars, navVars, view, want, crumb, active, rail, reg, spy, old, lit, totop>>

\* A deep link's timeout: a detached element scrolls nothing.
DeepLinkTimer ==
  /\ \E t \in timers :
       /\ timers' = timers \ {t}
       /\ pos' = IF t.live THEN t.id ELSE pos
       /\ moved' = (moved \/ pos' # pos)
  /\ UNCHANGED <<repoVars, navVars, view, want, crumb, active, rail, reg, spy, old, lit, totop>>

\* onScroll's callback: the last heading above the line (a detached one is at
\* 0 and counts as above) lights its rail entry.
Act(c) == IF c.heads = <<>> THEN None
          ELSE IF ~c.live THEN c.heads[Len(c.heads)]
          ELSE IF \E i \in DOMAIN c.heads : c.heads[i] = pos THEN pos
          ELSE None

\* Mutant: a closure's frame never clears its flag.
RenderKeepsTicking ==
  /\ moved \/ spy.ticking \/ old # <<>>
  /\ totop' = (pos # "top")
  /\ moved' = FALSE /\ old' = <<>>
  /\ UNCHANGED <<repoVars, navVars, pageVars, pos, spy, lit>>

\* One rendering of the browser: a due scroll event calls the listener, which
\* asks for a frame unless one is asked for; then all callbacks run in order.
Render ==
  LET calls == IF spy.on /\ (moved \/ spy.ticking) THEN Append(old, spy) ELSE old
      seen  == {i \in DOMAIN calls : calls[i].rail}
      last  == CHOOSE i \in seen : \A j \in seen : j <= i
  IN
  /\ moved \/ calls # <<>>
  /\ lit' = IF seen = {} THEN lit
            ELSE {h \in HeadIds : h = Act(calls[last]) /\ \E i \in DOMAIN rail.ids : rail.ids[i] = h}
  /\ totop' = IF calls = <<>> THEN totop ELSE pos # "top"
  /\ moved' = FALSE /\ old' = <<>>
  /\ spy' = [spy EXCEPT !.ticking = FALSE]
  /\ UNCHANGED <<repoVars, navVars, pageVars, pos>>

-----------------------------------------------------------------------------
(* The visitor *)

\* The sidebar: the documents by group, and fixed entries for the other pages.
DocLinks(data)      == {<<"doc", data.docs[i].id>> : i \in {j \in DOMAIN data.docs : data.docs[j].group \in GROUPS}}
buildSidebar(data)  == DocLinks(data) \cup {<<"contracts">>, <<"contracts", "events">>, <<"contracts", "errors">>,
  <<"contracts", "api">>, <<"contracts", "diagrams">>,
  <<"registers">>, <<"registers", "d">>, <<"registers", "prd">>, <<"registers", "triage">>}
RailLinks           == {SectionLink(rail.hash, rail.ids[i]) : i \in DOMAIN rail.ids}

\* In-app links of each page.  Featured documents are linked by literal name.
pageHome(data)         == DocLinks(data) \cup {<<"contracts">>, <<"registers">>, <<"contracts", "diagrams">>}
PrevNext(data, id)     == {<<"doc", data.docs[i].id>> :
                             i \in {j \in DOMAIN data.docs : \E k \in DOMAIN data.docs : data.docs[k].id = id /\ (j = k + 1 \/ k = j + 1)}}
pageContractsHub(data) == {<<"contracts", "payloads", Encode[p]>> : p \in data.payloads}
                          \cup {<<"contracts", "events">>, <<"contracts", "errors">>, <<"contracts", "api">>, <<"contracts", "diagrams">>}
pageApiIndex(data)     == {<<"contracts", "api", a>> : a \in data.api}
RegisterTabs           == {<<"registers">>, <<"registers", "d">>, <<"registers", "prd">>, <<"registers", "triage">>}
pageRegOverview        == {<<"registers", "d">>, <<"registers", "prd">>, <<"registers", "triage">>}
pageRegTriage          == {<<"registers", "prd">>}
FeaturedOn(v)          == CASE v.page = "home" -> {<<"doc", d>> : d \in Featured}
                            [] v.page = "registers" /\ v.arg \in {"", "triage"} -> {<<"doc", d>> : d \in Featured}
                            [] OTHER -> {}

PageLinks(v, data) == CASE v.page = "home"      -> pageHome(data)
                        [] v.page = "doc"       -> PrevNext(data, v.arg)
                        [] v.page = "hub"       -> pageContractsHub(data)
                        [] v.page = "payload"   -> {<<"contracts", "events">>}
                        [] v.page = "apiIndex"  -> pageApiIndex(data)
                        [] v = Page("registers", "")       -> RegisterTabs \cup pageRegOverview
                        [] v = Page("registers", "triage") -> RegisterTabs \cup pageRegTriage
                        [] v.page = "registers" /\ v.arg \in {"d", "prd"} -> RegisterTabs
                        [] v.page = "notfound"  -> {<<>>}
                        [] OTHER                -> {}

OnScreen == IF tab = "ready" THEN buildSidebar(DATA) \cup RailLinks \cup PageLinks(view, DATA) ELSE {}

\* Following a link to another hash, typing one or going back queues an event.
Navigate ==
  /\ tab # "closed" /\ clicks < MaxClicks
  /\ \E h \in Typed \cup OnScreen \cup FeaturedOn(view) : /\ h # loc /\ Len(h) <= MaxParts
                                   /\ loc' = h
  /\ clicks' = clicks + 1 /\ events' = events + 1
  /\ UNCHANGED <<repoVars, tab, DATA, loads, pageVars, scrollVars>>

Scroll ==
  /\ tab = "ready"
  /\ \E p \in {"top"} \cup (IF HeadsOf(view) = <<>> THEN {"low"} ELSE {HeadsOf(view)[i] : i \in DOMAIN HeadsOf(view)}) :
       p # pos /\ pos' = p
  /\ moved' = TRUE
  /\ UNCHANGED <<repoVars, navVars, pageVars, spy, old, lit, totop>>

\* A filter input of a register redraws its list, headings included.
Filter ==
  /\ view.page = "registers" /\ reg # NoReg
  /\ \E f \in {"all", "open", "answered"}, s \in {"", Section[CHOOSE x \in Questions : TRUE]}, q \in {""} \cup Queries :
       reg' = IF view.arg = "prd" THEN pageRegPrd(DATA, f, s, q) ELSE pageRegDecisions(DATA, f, q)
  /\ reg' # reg
  /\ spy' = [spy EXCEPT !.live = FALSE]
  /\ UNCHANGED <<repoVars, navVars, view, want, crumb, active, rail, timers, old, lit, pos, moved, totop>>

-----------------------------------------------------------------------------
Init ==
  /\ src \in [docs : {CHOOSE q \in [1..Cardinality(DocIds) -> DocIds] : \A d \in DocIds : \E i \in DOMAIN q : q[i] = d},
              answers : [Questions -> Texts]]
  /\ disk \in [data : {None}, shell : {FALSE}, marked : BOOLEAN]
  /\ edits = 0 /\ tab = "closed" /\ DATA = None /\ loc = <<>> /\ events = 0 /\ clicks = 0 /\ loads = 0
  /\ view = Page("none", "") /\ want = {} /\ crumb = Page("home", "") /\ active = {}
  /\ rail = EmptyRail /\ reg = NoReg /\ timers = {}
  /\ spy = NoSpy /\ old = <<>> /\ lit = {} /\ pos = "top" /\ moved = FALSE /\ totop = FALSE

Author  == main \/ Vendor \/ Edit
Browser == Load \/ boot \/ FetchFails \/ HashChange \/ DeepLinkTimer \/ Render
Visitor == Navigate \/ Scroll \/ Filter

Next == Author \/ Browser \/ Visitor

\* The browser's event loop: a fetch ends, queued events, timeouts and frames run.
Fairness == /\ WF_vars(boot \/ FetchFails)
            /\ WF_vars(HashChange) /\ WF_vars(DeepLinkTimer) /\ WF_vars(Render)

Spec == Init /\ [][Next]_vars /\ Fairness

-----------------------------------------------------------------------------
(* Properties *)

PageNames == {"none", "doc", "catalog", "payload", "taxonomy", "api", "apiIndex", "diagrams", "hub",
              "registers", "home", "notfound"}

\* Types of the variables; a booted tab has data, and a rail always comes from a
\* page that builds one (route, boot, buildRail).
TypeOK ==
  /\ tab \in {"closed", "loading", "ready", "dead"}
  /\ edits \in 0..MaxEdits /\ clicks \in 0..MaxClicks /\ loads \in 0..MaxLoads
  /\ events \in 0..MaxClicks
  /\ view.page \in PageNames /\ crumb.page \in PageNames \ {"notfound"}
  /\ (tab = "ready") <=> (DATA # None)
  /\ rail = EmptyRail \/ HasRail(rail.view)
  /\ active \subseteq DocIds /\ lit \subseteq HeadIds
  /\ pos \in {"top", "low"} \cup HeadIds
  /\ moved \in BOOLEAN /\ totop \in BOOLEAN /\ spy.ticking \in BOOLEAN

Calm == events = 0 /\ timers = {} /\ old = <<>> /\ ~moved /\ ~spy.ticking

\* Whatever order clicks, the end of the fetch and hashchange events come in,
\* once no event is due the page on screen is the one the address names, unless
\* drawing that page throws (route, boot: hashes change before anybody listens).
ShowsHash ==
  tab = "ready" /\ events = 0 => PageOf(loc, DATA) \in {view, Throws}

\* The sidebar highlights at most the document on screen, and the top bar
\* names the page on screen unless it is the not-found page (route clears the
\* highlight, initScroll and setCrumb set them).
ChromeMatchesView ==
  /\ \A d \in active : view = Page("doc", d)
  /\ tab = "ready" => crumb = view \/ view = NotFound \/ view.page = "none"
  /\ view.page = "doc" /\ events = 0 /\ PageOf(loc, DATA) = view => active = {view.arg}

\* A section link leads back to the page it was made for, though most pages keep
\* the rail of the page before and the links grow with every section visited
\* (postProcess, buildRail, parseHash).
RailLeadsBack ==
  rail # EmptyRail => \A i \in DOMAIN rail.ids : PageOf(SectionLink(rail.hash, rail.ids[i]), DATA) = rail.view

\* Every link the program computes from the data leads to a page that exists in
\* that data, escaped event names included; links to documents by literal name
\* (Featured) may dangle (buildSidebar, pageDoc, pageContractsHub, pagePayload).
LinksResolve ==
  tab = "ready" => \A h \in OnScreen : PageOf(h, DATA) \notin {NotFound, Throws}

\* When nothing is due, a lit rail entry is the heading the page is scrolled to
\* and the back-to-top button shows iff the page is scrolled, on every page that
\* sets up its own scroll listener and has not redrawn its headings (initScroll,
\* onScroll: frames of replaced listeners run after the new page is drawn).
SpyAgrees ==
  tab = "ready" /\ Calm /\ spy.live => lit \subseteq {pos} /\ totop = (pos # "top")

\* A deep link's timeout moves the page only to a heading the drawn page was
\* asked for, also when the visitor has gone on meanwhile (pageDoc).
TimerScrollsWhereAsked ==
  [][timers' # timers /\ timers' \subseteq timers /\ pos' \notin {pos, "top"} => pos' \in want]_vars

\* The number of open questions counted by the build (is_open_answer) is the
\* number of rows the browser lists as open (openAns).
OpenCountAgrees ==
  reg # NoReg /\ reg.f = "open" /\ reg.s = "" /\ reg.q = "" => Cardinality(reg.rows) = DATA.prd_open

\* Who can load the page can fetch its data: a build that stops half-way never
\* leaves a shell without a data file (main).
ShellHasData == disk.shell => disk.data # None

\* Under a fair event loop a loaded page keeps coming to rest on the page its
\* address names, or stays blank because its fetch failed (boot, route).
Settles == []<>(tab = "closed" \/ tab = "dead" \/ (tab = "ready" /\ Calm /\ PageOf(loc, DATA) \in {view, Throws}))

\* Page, top bar, sidebar and rail agree with each other and with the address, in
\* every order of clicks, events and frames (route, initScroll).
ScreenAgrees == TypeOK /\ ShowsHash /\ ChromeMatchesView /\ SpyAgrees

\* Every link on screen, of the page or left over in the rail, leads to a page there
\* is, and a section link back to its own (buildSidebar, buildRail).
LinksLead == RailLeadsBack /\ LinksResolve

\* Build and browser fit together: a shell has its data, and the questions one
\* counts as open are those the other lists as open (main, is_open_answer, openAns).
BuildServesApp == ShellHasData /\ OpenCountAgrees

=============================================================================
