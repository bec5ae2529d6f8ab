--------------------------- MODULE SiteAppProofs ---------------------------
(***************************************************************************)
(* Theorems about SiteApp and their proofs.                                *)
(***************************************************************************)
EXTENDS SiteApp, SequenceTheorems, FiniteSetTheorems, TLAPS

-----------------------------------------------------------------------------
(* What the variables hold *)

\* Parts of a hash, and arguments of pages.  They are strings; the provers do not
\* know that a literal is one.
Parts == STRING \cup {"", "doc", "contracts", "registers", "events", "payloads", "errors", "api", "diagrams",
                      "d", "prd", "triage"}

Sources  == [docs : Seq(DocIds), answers : [Questions -> Texts]]
Pages    == [page : PageNames, arg : Parts]
Closures == [on : BOOLEAN, heads : Seq(HeadIds), live : BOOLEAN, rail : BOOLEAN, ticking : BOOLEAN]
Alarms   == [id : HeadIds, live : BOOLEAN]

Shaped ==
  /\ TypeOK
  /\ src \in Sources
  /\ disk \in [data : DataFiles \cup {None}, shell : BOOLEAN, marked : BOOLEAN]
  /\ DATA \in DataFiles \cup {None}
  /\ events \in Nat /\ events <= clicks
  /\ loc \in Seq(Parts)
  /\ view \in Pages /\ (view.page = "doc" => view.arg \in DocIds)
  /\ rail \in [view : Pages, hash : Seq(Parts), ids : Seq(HeadIds)]
  /\ timers \subseteq Alarms
  /\ spy \in Closures /\ old \in Seq(Closures)

\* The files in the sidebar's order are one per document.
LEMMA Listing ==
  (CHOOSE q \in [1..Cardinality(DocIds) -> DocIds] : \A d \in DocIds : \E i \in DOMAIN q : q[i] = d) \in Seq(DocIds)
<1>1. Cardinality(DocIds) \in Nat /\ ExistsBijection(1..Cardinality(DocIds), DocIds)
  BY FS_CardinalityType, SiteAssumption
<1>2. PICK f \in Bijection(1..Cardinality(DocIds), DocIds) : TRUE
  BY <1>1 DEF ExistsBijection
<1>3. f \in [1..Cardinality(DocIds) -> DocIds] /\ \A d \in DocIds : \E i \in DOMAIN f : f[i] = d
  BY <1>2 DEF Bijection, Injection, Surjection
<1>4. (CHOOSE q \in [1..Cardinality(DocIds) -> DocIds] : \A d \in DocIds : \E i \in DOMAIN q : q[i] = d)
        \in [1..Cardinality(DocIds) -> DocIds]
  BY <1>3
<1>q. QED BY <1>1, <1>4, SeqDef

LEMMA GroupOfDoc == ASSUME NEW d \in DocIds PROVE doc_groups(d) \in GROUPS
BY DEF doc_groups, GROUPS

\* What the build collects is a data file, and so not None.
LEMMA CollectMakesFile ==
  ASSUME NEW s \in Sources
  PROVE  collect(s) \in DataFiles /\ collect(s) # None
<1>1. collect_docs(s) \in Seq([id : DocIds, group : GROUPS])
  <2>1. Len(s.docs) \in Nat /\ DOMAIN s.docs = 1..Len(s.docs) /\ \A i \in DOMAIN s.docs : s.docs[i] \in DocIds
    BY DEF Sources
  <2>2. collect_docs(s) \in [1..Len(s.docs) -> [id : DocIds, group : GROUPS]]
    BY <2>1, GroupOfDoc DEF collect_docs
  <2>q. QED BY <2>1, <2>2, SeqDef
<1>2. Cardinality({q \in Questions : is_open_answer(s.answers[q])}) \in Nat
  BY SiteAssumption, FS_Subset, FS_CardinalityType
<1>3. s.answers \in [Questions -> Texts]
  BY DEF Sources
<1>4. collect(s) \in DataFiles
  BY <1>1, <1>2, <1>3 DEF collect, DataFiles, collect_payloads
<1>q. QED BY <1>4, FileAssumption

\* A part that is not there is "".
LEMMA PartOfHash ==
  ASSUME NEW h \in Seq(Parts), NEW i \in 1..3
  PROVE  Part(h, i) \in Parts /\ (Part(h, i) # "" => Len(h) >= i /\ Part(h, i) = h[i])
<1>1. Len(h) \in Nat /\ i \in Nat /\ i >= 1
  BY LenProperties
<1>2. Len(h) >= i => h[i] \in Parts
  BY <1>1, ElementOfSeq
<1>q. QED BY <1>2 DEF Part, Parts

LEMMA PageFields ==
  ASSUME NEW n, NEW a
  PROVE  Page(n, a).page = n /\ Page(n, a).arg = a
BY DEF Page

LEMMA PageIsTyped ==
  ASSUME NEW n \in PageNames, NEW a \in Parts
  PROVE  Page(n, a) \in Pages
BY DEF Page, Pages

\* Where the dispatch leads: a page, the not-found page, or an exception.
Drawable(v) ==
  \/ v \in Pages /\ v.page \notin {"none", "doc", "notfound"}
  \/ v \in Pages /\ v.page = "doc" /\ v.arg \in DocIds
  \/ v = NotFound
  \/ v = Throws

LEMMA IdsOfFile ==
  ASSUME NEW data \in DataFiles
  PROVE  Ids(data) \subseteq DocIds
<1>1. data.docs \in Seq([id : DocIds, group : GROUPS])
  BY DEF DataFiles
<1>2. \A i \in DOMAIN data.docs : data.docs[i] \in [id : DocIds, group : GROUPS]
  BY <1>1, ElementOfSeq, LenProperties
<1>q. QED BY <1>2 DEF Ids

\* The dispatch of route() draws a page there is, or throws; only a document of
\* the data is drawn as a document.
LEMMA PagesDrawn ==
  ASSUME NEW data \in DataFiles, NEW h \in Seq(Parts)
  PROVE  Drawable(PageOf(h, data))
<1>1. PICK p : p = parseHash(h)
  OBVIOUS
<1>2. p.arg \in Parts /\ p.sub \in Parts
  <2>1. 2 \in 1..3 /\ 3 \in 1..3
    OBVIOUS
  <2>2. Part(h, 2) \in Parts /\ Part(h, 3) \in Parts
    BY <2>1, PartOfHash
  <2>q. QED BY <1>1, <2>2 DEF parseHash
<1>3. DocIds \subseteq Parts /\ Payloads \subseteq Parts /\ Apis \subseteq Parts
  BY SiteAssumption DEF Parts
<1>4. PICK v : v = PageOf(h, data)
  OBVIOUS
<1>5. \/ v = pageDocOf(data, p.arg)
      \/ v = pagePayloadOf(data, p.sub)
      \/ v = pageApiOf(data, p.sub)
      \/ v = pageRegistersOf(p.arg)
      \/ v \in {Page(n, "") : n \in {"catalog", "taxonomy", "diagrams", "apiIndex", "hub", "home"}}
  BY <1>1, <1>4 DEF PageOf, pageCatalog, pageTaxonomy, pageDiagrams
<1>6. CASE v = pageDocOf(data, p.arg)
  <2>1. CASE p.arg \in Ids(data)
    <3>1. v = Page("doc", p.arg) /\ p.arg \in DocIds /\ "doc" \in PageNames
      BY <1>6, <2>1, IdsOfFile DEF pageDocOf, PageNames
    <3>q. QED BY <1>2, <1>4, <3>1, PageIsTyped, PageFields DEF Drawable
  <2>2. CASE p.arg \notin Ids(data)
    BY <1>4, <1>6, <2>2 DEF pageDocOf, Drawable
  <2>q. QED BY <2>1, <2>2
<1>7. CASE v = pagePayloadOf(data, p.sub)
  <2>1. data.payloads = Payloads
    BY DEF DataFiles
  <2>2. CASE v = Page("payload", Decode[p.sub]) /\ Decode[p.sub] \in Payloads
    <3>1. "payload" \in PageNames \ {"none", "doc", "notfound"}
      BY DEF PageNames
    <3>q. QED BY <1>3, <1>4, <2>2, <3>1, PageIsTyped, PageFields DEF Drawable
  <2>3. CASE v \in {NotFound, Throws}
    BY <1>4, <2>3 DEF Drawable
  <2>q. QED BY <1>7, <2>1, <2>2, <2>3 DEF pagePayloadOf
<1>8. CASE v = pageApiOf(data, p.sub)
  <2>1. CASE v = Page("api", p.sub)
    <3>1. "api" \in PageNames \ {"none", "doc", "notfound"}
      BY DEF PageNames
    <3>q. QED BY <1>2, <1>4, <2>1, <3>1, PageIsTyped, PageFields DEF Drawable
  <2>2. CASE v = NotFound
    BY <1>4, <2>2 DEF Drawable
  <2>q. QED BY <1>8, <2>1, <2>2 DEF pageApiOf
<1>9. CASE v = pageRegistersOf(p.arg)
  <2>1. PICK t \in Parts : v = Page("registers", t)
    BY <1>2, <1>9 DEF pageRegistersOf, Parts
  <2>2. "registers" \in PageNames \ {"none", "doc", "notfound"}
    BY DEF PageNames
  <2>q. QED BY <1>4, <2>1, <2>2, PageIsTyped, PageFields DEF Drawable
<1>10. CASE v \in {Page(n, "") : n \in {"catalog", "taxonomy", "diagrams", "apiIndex", "hub", "home"}}
  <2>1. PICK n \in {"catalog", "taxonomy", "diagrams", "apiIndex", "hub", "home"} : v = Page(n, "")
    BY <1>10
  <2>2. n \in PageNames \ {"none", "doc", "notfound"} /\ "" \in Parts
    BY <2>1 DEF PageNames, Parts
  <2>3. v \in Pages /\ v.page = n
    BY <2>1, <2>2, PageIsTyped, PageFields
  <2>q. QED BY <1>4, <2>2, <2>3 DEF Drawable
<1>q. QED BY <1>5, <1>6, <1>7, <1>8, <1>9, <1>10

LEMMA SpecialPages ==
  /\ NotFound \in Pages /\ NotFound.page = "notfound"
  /\ Throws.page = "throws" /\ Throws \notin Pages
  /\ Page("none", "") \in Pages /\ Page("none", "").page = "none"
  /\ Page("home", "") \in Pages /\ Page("home", "").page = "home"
<1>1. "notfound" \in PageNames /\ "none" \in PageNames /\ "home" \in PageNames /\ "" \in Parts
  BY DEF PageNames, Parts
<1>2. "throws" \notin PageNames
  BY DEF PageNames
<1>3. \A v \in Pages : v.page \in PageNames
  BY DEF Pages
<1>q. QED BY <1>1, <1>2, <1>3, PageIsTyped, PageFields DEF NotFound, Throws

LEMMA DrawnPage ==
  ASSUME NEW v, Drawable(v), v # Throws
  PROVE  /\ v \in Pages /\ (v.page = "doc" => v.arg \in DocIds)
         /\ v.page # "none" /\ (v.page = "notfound" => v = NotFound)
BY SpecialPages DEF Drawable

LEMMA HeadsOfPage ==
  ASSUME NEW v \in Pages, v.page = "doc" => v.arg \in DocIds
  PROVE  HeadsOf(v) \in Seq(HeadIds)
<1>1. <<>> \in Seq(HeadIds)
  BY EmptySeq
<1>q. QED BY <1>1, SiteAssumption DEF HeadsOf

-----------------------------------------------------------------------------
(* The types are kept *)

LEMMA Bounds == MaxEdits \in Nat /\ MaxClicks \in Nat /\ MaxLoads \in Nat
BY SiteAssumption

LEMMA InitShaped == Init => Shaped
<1> SUFFICES ASSUME Init PROVE Shaped OBVIOUS
<1>1. src \in Sources
  BY Listing DEF Init, Sources
<1>2. <<>> \in Seq(Parts) /\ <<>> \in Seq(HeadIds) /\ <<>> \in Seq(Closures)
  BY EmptySeq
<1>3. disk \in [data : DataFiles \cup {None}, shell : BOOLEAN, marked : BOOLEAN]
  BY DEF Init
<1>4. NoSpy \in Closures /\ NoSpy.ticking \in BOOLEAN
  BY <1>2 DEF NoSpy, Closures
<1>5. EmptyRail \in [view : Pages, hash : Seq(Parts), ids : Seq(HeadIds)]
  BY <1>2, SpecialPages DEF EmptyRail
<1>6. view \in Pages /\ view.page = "none" /\ crumb.page = "home"
  BY SpecialPages DEF Init
<1>7. 0 \in 0..MaxEdits /\ 0 \in 0..MaxClicks /\ 0 \in 0..MaxLoads
  BY Bounds
<1>8. view.page \in PageNames /\ crumb.page \in PageNames \ {"notfound"}
  BY <1>6 DEF PageNames
<1>9. TypeOK
  BY <1>4, <1>7, <1>8 DEF Init, TypeOK
<1>10. events = 0 /\ clicks = 0 /\ DATA \in DataFiles \cup {None} /\ timers \subseteq Alarms
  BY DEF Init
<1>11. events \in Nat /\ events <= clicks
  BY <1>10
<1>12. rail = EmptyRail /\ spy = NoSpy /\ old = <<>> /\ loc = <<>>
  BY DEF Init
<1>q. QED BY <1>1, <1>2, <1>3, <1>4, <1>5, <1>6, <1>9, <1>10, <1>11, <1>12 DEF Shaped

\* What a new closure holds, and an old one after its page is replaced.
LEMMA ClosuresMade ==
  ASSUME NEW v \in Pages, v.page = "doc" => v.arg \in DocIds
  PROVE  /\ initScroll(v) \in Closures
         /\ \A c \in Closures : Detach(c, v) \in Closures
BY HeadsOfPage DEF initScroll, Detach, Closures, HasRail

LEMMA AlarmsSet ==
  ASSUME NEW v
  PROVE  DeepLinks(v) \subseteq Alarms
<1> SUFFICES ASSUME NEW t \in DeepLinks(v) PROVE t \in Alarms
  OBVIOUS
<1>1. PICK h \in HeadIds : t = [id |-> h, live |-> TRUE]
  BY DEF DeepLinks
<1>q. QED BY <1>1 DEF Alarms

\* Drawing the page of the hash leaves everything typed.
LEMMA RouteShaped ==
  ASSUME Shaped, NEW data \in DataFiles, route(data), loc' = loc
  PROVE  /\ view' \in Pages /\ (view'.page = "doc" => view'.arg \in DocIds)
         /\ crumb'.page \in PageNames \ {"notfound"}
         /\ rail' \in [view : Pages, hash : Seq(Parts), ids : Seq(HeadIds)]
         /\ rail' = EmptyRail \/ HasRail(rail'.view)
         /\ timers' \subseteq Alarms
         /\ spy' \in Closures /\ old' \in Seq(Closures)
         /\ active' \subseteq DocIds /\ lit' \subseteq HeadIds
         /\ pos' = "top" /\ moved' \in BOOLEAN
<1>1. PICK v : v = PageOf(loc, data)
  OBVIOUS
<1>2. Drawable(v)
  BY <1>1, PagesDrawn DEF Shaped
<1>3. active' \subseteq DocIds
  <2>1. v.page = "doc" => v.arg \in DocIds
    BY <1>2, DrawnPage, SpecialPages
  <2>q. QED BY <1>1, <2>1 DEF route, Highlight
<1>4. pos' = "top" /\ moved' \in BOOLEAN
  BY DEF route, Shaped, TypeOK
<1>5. CASE v = Throws
  BY <1>1, <1>3, <1>4, <1>5 DEF route, Shaped, TypeOK
<1>6. CASE v # Throws
  <2>1. v \in Pages /\ (v.page = "doc" => v.arg \in DocIds) /\ (v.page = "notfound" => v = NotFound)
    BY <1>2, <1>6, DrawnPage
  <2>2. view' = v
    BY <1>1, <1>6 DEF route
  <2>3. crumb'.page \in PageNames \ {"notfound"}
    BY <1>1, <1>6, <2>1 DEF route, Shaped, TypeOK, Pages
  <2>4. HeadsOf(v) \in Seq(HeadIds)
    BY <2>1, HeadsOfPage
  <2>5. /\ rail' \in [view : Pages, hash : Seq(Parts), ids : Seq(HeadIds)]
        /\ rail' = EmptyRail \/ HasRail(rail'.view)
    <3>1. CASE HasRail(v)
      <4>1. rail' = [view |-> v, hash |-> loc, ids |-> HeadsOf(v)]
        BY <1>1, <1>6, <3>1 DEF route, buildRail
      <4>2. loc \in Seq(Parts)
        BY DEF Shaped
      <4>3. rail'.view = v
        BY <4>1
      <4>q. QED BY <2>1, <2>4, <3>1, <4>1, <4>2, <4>3
    <3>2. CASE ~HasRail(v)
      BY <1>1, <1>6, <3>2 DEF route, Shaped, TypeOK
    <3>q. QED BY <3>1, <3>2
  <2>6. timers' \subseteq Alarms
    <3>1. timers' = {[t EXCEPT !.live = FALSE] : t \in timers} \cup DeepLinks(v)
      BY <1>1, <1>6 DEF route
    <3>2. \A t \in timers : [t EXCEPT !.live = FALSE] \in Alarms
      BY DEF Shaped, Alarms
    <3>q. QED BY <3>1, <3>2, AlarmsSet
  <2>7. spy' \in Closures
    <3>1. spy' = IF v = NotFound THEN Detach(spy, v) ELSE initScroll(v)
      BY <1>1, <1>6 DEF route
    <3>2. spy \in Closures
      BY DEF Shaped
    <3>q. QED BY <2>1, <3>1, <3>2, ClosuresMade
  <2>8. old' \in Seq(Closures)
    <3>1. PICK all : all = IF spy.ticking /\ v # NotFound THEN Append(old, spy) ELSE old
      OBVIOUS
    <3>2. all \in Seq(Closures)
      BY <3>1, AppendProperties DEF Shaped
    <3>3. old' = [i \in DOMAIN all |-> Detach(all[i], v)]
      BY <1>1, <1>6, <3>1 DEF route
    <3>4. Len(all) \in Nat /\ DOMAIN all = 1..Len(all) /\ \A i \in DOMAIN all : all[i] \in Closures
      BY <3>2, ElementOfSeq, LenProperties
    <3>5. old' \in [1..Len(all) -> Closures]
      BY <2>1, <3>3, <3>4, ClosuresMade
    <3>q. QED BY <3>4, <3>5, SeqDef
  <2>9. lit' \subseteq HeadIds
    BY <1>1, <1>6 DEF route, Shaped, TypeOK
  <2>q. QED BY <1>3, <1>4, <2>1, <2>2, <2>3, <2>5, <2>6, <2>7, <2>8, <2>9
<1>q. QED BY <1>5, <1>6

-----------------------------------------------------------------------------
\* The links that do not depend on the data.
FixedLinks ==
  {<<>>, <<"contracts">>, <<"contracts", "events">>, <<"contracts", "errors">>, <<"contracts", "api">>,
   <<"contracts", "diagrams">>, <<"registers">>, <<"registers", "d">>, <<"registers", "prd">>,
   <<"registers", "triage">>}

LEMMA FixedLinksTyped == \A l \in FixedLinks : l \in Seq(Parts)
<1>1. /\ "contracts" \in Parts /\ "events" \in Parts /\ "errors" \in Parts /\ "api" \in Parts
      /\ "diagrams" \in Parts /\ "registers" \in Parts /\ "d" \in Parts /\ "prd" \in Parts
      /\ "triage" \in Parts
  BY DEF Parts
<1>2. /\ <<>> \in Seq(Parts) /\ <<"contracts">> \in Seq(Parts) /\ <<"registers">> \in Seq(Parts)
      /\ <<"contracts", "events">> \in Seq(Parts) /\ <<"contracts", "errors">> \in Seq(Parts)
      /\ <<"contracts", "api">> \in Seq(Parts) /\ <<"contracts", "diagrams">> \in Seq(Parts)
      /\ <<"registers", "d">> \in Seq(Parts) /\ <<"registers", "prd">> \in Seq(Parts)
      /\ <<"registers", "triage">> \in Seq(Parts)
  BY <1>1, EmptySeq
<1>q. QED BY <1>2 DEF FixedLinks

LEMMA FixedParts ==
  ASSUME NEW data
  PROVE  /\ buildSidebar(data) \subseteq DocLinks(data) \cup FixedLinks
         /\ pageHome(data) \subseteq DocLinks(data) \cup FixedLinks
         /\ pageContractsHub(data)
              \subseteq {<<"contracts", "payloads", Encode[p]>> : p \in data.payloads} \cup FixedLinks
         /\ RegisterTabs \cup pageRegOverview \cup pageRegTriage \subseteq FixedLinks
         /\ {<<"contracts", "events">>, <<>>} \subseteq FixedLinks
<1>1. buildSidebar(data) \subseteq DocLinks(data) \cup FixedLinks
  BY ZenonT(30) DEF buildSidebar, FixedLinks
<1>2. pageHome(data) \subseteq DocLinks(data) \cup FixedLinks
  BY ZenonT(30) DEF pageHome, FixedLinks
<1>3. pageContractsHub(data)
        \subseteq {<<"contracts", "payloads", Encode[p]>> : p \in data.payloads} \cup FixedLinks
  BY ZenonT(30) DEF pageContractsHub, FixedLinks
<1>4. RegisterTabs \cup pageRegOverview \cup pageRegTriage \subseteq FixedLinks
  BY ZenonT(30) DEF RegisterTabs, pageRegOverview, pageRegTriage, FixedLinks
<1>5. {<<"contracts", "events">>, <<>>} \subseteq FixedLinks
  BY ZenonT(30) DEF FixedLinks
<1>q. QED BY <1>1, <1>2, <1>3, <1>4, <1>5

\* The hashes a visitor can follow from the screen are sequences of parts.
LEMMA LinksTyped ==
  ASSUME Shaped, NEW h \in Typed \cup OnScreen \cup FeaturedOn(view)
  PROVE  h \in Seq(Parts)
<1>1. CASE h \in Typed
  <2>1. Seq(STRING) \subseteq Seq(Parts)
    BY SeqMonotonic DEF Parts
  <2>q. QED BY <1>1, <2>1, SiteAssumption
<1>2. CASE h \in FeaturedOn(view)
  <2>1. Featured \subseteq Parts /\ "doc" \in Parts
    BY SiteAssumption DEF Parts
  <2>2. PICK d \in Featured : h = <<"doc", d>>
    BY <1>2 DEF FeaturedOn
  <2>q. QED BY <2>1, <2>2
<1>3. CASE h \in OnScreen
  <2>1. DATA \in DataFiles /\ tab = "ready"
    BY <1>3 DEF OnScreen, Shaped, TypeOK
  <2>2. \A l \in DocLinks(DATA) : l \in Seq(Parts)
    <3> SUFFICES ASSUME NEW l \in DocLinks(DATA) PROVE l \in Seq(Parts)
      OBVIOUS
    <3>1. PICK d \in Ids(DATA) : l = <<"doc", d>>
      BY DEF DocLinks, Ids
    <3>2. d \in Parts /\ "doc" \in Parts
      BY <2>1, IdsOfFile, SiteAssumption DEF Parts
    <3>q. QED BY <3>1, <3>2
  <2>3. \A l \in buildSidebar(DATA) : l \in Seq(Parts)
    BY <2>2, FixedParts, FixedLinksTyped
  <2>4. \A l \in RailLinks : l \in Seq(Parts)
    <3> SUFFICES ASSUME NEW l \in RailLinks PROVE l \in Seq(Parts)
      OBVIOUS
    <3>1. PICK i \in DOMAIN rail.ids : l = Append(rail.hash, Sec[rail.ids[i]])
      BY DEF RailLinks, SectionLink
    <3>2. rail.hash \in Seq(Parts) /\ rail.ids \in Seq(HeadIds)
      BY DEF Shaped
    <3>3. rail.ids[i] \in HeadIds
      BY <3>2, ElementOfSeq, LenProperties
    <3>4. Sec[rail.ids[i]] \in Parts
      BY <3>3, SiteAssumption DEF Parts
    <3>q. QED BY <3>1, <3>2, <3>4, AppendProperties
  <2>5. \A l \in PageLinks(view, DATA) : l \in Seq(Parts)
    <3> SUFFICES ASSUME NEW l \in PageLinks(view, DATA) PROVE l \in Seq(Parts)
      OBVIOUS
    <3>1. CASE l \in pageHome(DATA)
      BY <2>2, <3>1, FixedParts, FixedLinksTyped
    <3>2. CASE l \in PrevNext(DATA, view.arg)
      <4>1. PICK d \in Ids(DATA) : l = <<"doc", d>>
        BY <3>2 DEF PrevNext, Ids
      <4>2. d \in Parts /\ "doc" \in Parts
        BY <2>1, IdsOfFile, SiteAssumption DEF Parts
      <4>q. QED BY <4>1, <4>2
    <3>3. CASE l \in pageContractsHub(DATA)
      <4>1. CASE l \in {<<"contracts", "payloads", Encode[p]>> : p \in DATA.payloads}
        <5>1. PICK p \in DATA.payloads : l = <<"contracts", "payloads", Encode[p]>>
          BY <4>1
        <5>2. DATA.payloads = Payloads
          BY <2>1 DEF DataFiles
        <5>3. Encode[p] \in Parts /\ "contracts" \in Parts /\ "payloads" \in Parts
          BY <5>1, <5>2, SiteAssumption DEF Parts
        <5>q. QED BY <5>1, <5>3
      <4>q. QED BY <3>3, <4>1, FixedParts, FixedLinksTyped
    <3>4. CASE l \in pageApiIndex(DATA)
      <4>1. PICK a \in DATA.api : l = <<"contracts", "api", a>>
        BY <3>4 DEF pageApiIndex
      <4>2. DATA.api = Apis
        BY <2>1 DEF DataFiles
      <4>3. a \in Parts /\ "contracts" \in Parts /\ "api" \in Parts
        BY <4>1, <4>2, SiteAssumption DEF Parts
      <4>q. QED BY <4>1, <4>3
    <3>5. CASE l \in {<<"contracts", "events">>, <<>>} \cup RegisterTabs \cup pageRegOverview \cup pageRegTriage
      BY <3>5, FixedParts, FixedLinksTyped
    <3>q. QED BY <3>1, <3>2, <3>3, <3>4, <3>5 DEF PageLinks
  <2>q. QED BY <1>3, <2>3, <2>4, <2>5 DEF OnScreen
<1>q. QED BY <1>1, <1>2, <1>3

\* An edit of the repository, of which only the sources and their count change,
\* leaves everything typed.
LEMMA EditedStaysShaped ==
  ASSUME Shaped, edits' \in 0..MaxEdits, src' \in Sources,
         UNCHANGED <<disk, navVars, pageVars, scrollVars>>
  PROVE  Shaped'
<1>1. /\ disk' = disk /\ tab' = tab /\ DATA' = DATA /\ loc' = loc
      /\ events' = events /\ clicks' = clicks /\ loads' = loads
  BY DEF navVars
<1>2. /\ view' = view /\ want' = want /\ crumb' = crumb /\ active' = active
      /\ rail' = rail /\ reg' = reg /\ timers' = timers
  BY DEF pageVars
<1>3. /\ spy' = spy /\ old' = old /\ lit' = lit
      /\ pos' = pos /\ moved' = moved /\ totop' = totop
  BY DEF scrollVars
<1>4. TypeOK'
  <2>1. TypeOK
    BY DEF Shaped
  <2>q. QED BY <1>1, <1>2, <1>3, <2>1 DEF TypeOK
<1>q. QED BY <1>1, <1>2, <1>3, <1>4 DEF Shaped

LEMMA AuthorShaped == ASSUME Shaped, Author PROVE Shaped'
<1>1. CASE main
  <2>1. disk' = [disk EXCEPT !.data = collect(src), !.shell = @ \/ disk.marked]
    BY <1>1 DEF main
  <2>2. disk' \in [data : DataFiles \cup {None}, shell : BOOLEAN, marked : BOOLEAN]
    BY <2>1, CollectMakesFile DEF Shaped
  <2>q. QED BY <1>1, <2>2 DEF main, navVars, pageVars, scrollVars, Shaped, TypeOK
<1>2. CASE Vendor
  <2>1. disk' \in [data : DataFiles \cup {None}, shell : BOOLEAN, marked : BOOLEAN]
    BY <1>2 DEF Vendor, Shaped
  <2>q. QED BY <1>2, <2>1 DEF Vendor, navVars, pageVars, scrollVars, Shaped, TypeOK
<1>3. CASE Edit
  <2>1. edits' \in 0..MaxEdits
    <3>1. edits \in 0..MaxEdits /\ edits < MaxEdits /\ edits' = edits + 1 /\ MaxEdits \in Nat
      BY <1>3, Bounds DEF Edit, Shaped, TypeOK
    <3>q. QED BY <3>1
  <2>2. src' \in Sources
    <3>1. CASE \E i \in DOMAIN src.docs :
                 src' = [src EXCEPT !.docs = SubSeq(@, 1, i - 1) \o SubSeq(@, i + 1, Len(@))]
      <4>1. PICK i \in DOMAIN src.docs :
                 src' = [src EXCEPT !.docs = SubSeq(@, 1, i - 1) \o SubSeq(@, i + 1, Len(@))]
        BY <3>1
      <4>2. src.docs \in Seq(DocIds) /\ src \in Sources
        BY DEF Shaped, Sources
      <4>3. i \in Nat /\ i >= 1 /\ i <= Len(src.docs) /\ Len(src.docs) \in Nat
        BY <4>1, <4>2, LenProperties
      <4>4. \A j \in 1..Len(src.docs) : src.docs[j] \in DocIds
        BY <4>2, ElementOfSeq
      <4>5. SubSeq(src.docs, 1, i - 1) \in Seq(DocIds)
        <5>1. 1 \in Int /\ i - 1 \in Int /\ \A j \in 1..(i - 1) : src.docs[j] \in DocIds
          BY <4>3, <4>4
        <5>q. QED BY <5>1, SubSeqProperties
      <4>6. SubSeq(src.docs, i + 1, Len(src.docs)) \in Seq(DocIds)
        <5>1. i + 1 \in Int /\ Len(src.docs) \in Int /\ \A j \in (i + 1)..Len(src.docs) : src.docs[j] \in DocIds
          BY <4>3, <4>4
        <5>q. QED BY <5>1, SubSeqProperties
      <4>7. SubSeq(src.docs, 1, i - 1) \o SubSeq(src.docs, i + 1, Len(src.docs)) \in Seq(DocIds)
        BY <4>5, <4>6, ConcatProperties
      <4>q. QED BY <4>1, <4>2, <4>7 DEF Sources
    <3>2. CASE \E q \in Questions, a \in Texts : src' = [src EXCEPT !.answers[q] = a]
      <4>1. src \in Sources
        BY DEF Shaped
      <4>q. QED BY <3>2, <4>1 DEF Sources
    <3>3. \/ \E i \in DOMAIN src.docs :
                 src' = [src EXCEPT !.docs = SubSeq(@, 1, i - 1) \o SubSeq(@, i + 1, Len(@))]
          \/ \E q \in Questions, a \in Texts : src' = [src EXCEPT !.answers[q] = a]
      BY <1>3, Zenon DEF Edit
    <3>q. QED BY <3>1, <3>2, <3>3, Zenon
  <2>3. UNCHANGED <<disk, navVars, pageVars, scrollVars>>
    BY <1>3, Zenon DEF Edit
  <2>q. QED BY <2>1, <2>2, <2>3, EditedStaysShaped
<1>q. QED BY <1>1, <1>2, <1>3 DEF Author

LEMMA LoadShaped == ASSUME Shaped, Load PROVE Shaped'
<1>1. loads' \in 0..MaxLoads /\ 0 \in 0..MaxClicks /\ clicks' = clicks /\ 0 \in Nat /\ 0 <= clicks
  <2>1. /\ loads \in 0..MaxLoads /\ loads < MaxLoads /\ loads' = loads + 1
        /\ clicks' = clicks /\ clicks \in 0..MaxClicks /\ MaxClicks \in Nat /\ MaxLoads \in Nat
    BY Bounds DEF Load, Shaped, TypeOK
  <2>q. QED BY <2>1
<1>2. loc' \in Seq(Parts)
  <2>1. PICK h \in Typed \cup {loc} : loc' = h
    BY DEF Load
  <2>q. QED BY <2>1, LinksTyped DEF Shaped
<1>3. NoSpy \in Closures /\ NoSpy.ticking \in BOOLEAN /\ <<>> \in Seq(Closures)
  BY EmptySeq DEF NoSpy, Closures
<1>4. EmptyRail \in [view : Pages, hash : Seq(Parts), ids : Seq(HeadIds)]
  BY EmptySeq, SpecialPages DEF EmptyRail
<1>5. view' \in Pages /\ view'.page = "none" /\ crumb'.page = "home"
  BY SpecialPages DEF Load
<1>6. view'.page \in PageNames /\ crumb'.page \in PageNames \ {"notfound"}
  BY <1>5 DEF PageNames
<1>7. TypeOK'
  BY <1>1, <1>3, <1>6 DEF Load, TypeOK, Shaped, repoVars
<1>8. /\ events' = 0 /\ DATA' = None /\ timers' = {} /\ rail' = EmptyRail /\ spy' = NoSpy /\ old' = <<>>
      /\ src' = src /\ disk' = disk
  BY DEF Load, repoVars
<1>q. QED BY <1>1, <1>2, <1>3, <1>4, <1>5, <1>7, <1>8 DEF Shaped

LEMMA BootShaped == ASSUME Shaped, boot PROVE Shaped'
<1>1. disk.data \in DataFiles
  BY DEF boot, Shaped
<1>2. route(disk.data) /\ loc' = loc
  BY DEF boot
<1>q. QED
  BY <1>1, <1>2, RouteShaped, FileAssumption DEF boot, Shaped, TypeOK, repoVars, Closures, Pages

LEMMA HashChangeShaped == ASSUME Shaped, HashChange PROVE Shaped'
<1>1. events' \in 0..MaxClicks /\ events' \in Nat /\ events' <= clicks' /\ clicks' = clicks
  <2>1. /\ events \in 0..MaxClicks /\ events > 0 /\ events' = events - 1 /\ events <= clicks
        /\ clicks' = clicks /\ clicks \in 0..MaxClicks /\ MaxClicks \in Nat
    BY Bounds DEF HashChange, Shaped, TypeOK
  <2>q. QED BY <2>1
<1>2. CASE tab = "ready"
  <2>1. DATA \in DataFiles /\ route(DATA) /\ loc' = loc
    BY <1>2 DEF HashChange, Shaped, TypeOK
  <2>q. QED
    BY <1>1, <2>1, RouteShaped DEF HashChange, Shaped, TypeOK, repoVars, Closures, Pages
<1>3. CASE tab # "ready"
  BY <1>1, <1>3 DEF HashChange, Shaped, TypeOK, repoVars, pageVars
<1>q. QED BY <1>2, <1>3

LEMMA OtherBrowserShaped ==
  ASSUME Shaped, FetchFails \/ DeepLinkTimer \/ Render
  PROVE  Shaped'
<1>1. CASE FetchFails
  BY <1>1 DEF FetchFails, Shaped, TypeOK, repoVars, pageVars, scrollVars
<1>2. CASE DeepLinkTimer
  <2>1. PICK t \in timers : /\ timers' = timers \ {t}
                            /\ pos' = IF t.live THEN t.id ELSE pos
                            /\ moved' = (moved \/ pos' # pos)
    BY <1>2 DEF DeepLinkTimer
  <2>2. t.id \in HeadIds /\ timers' \subseteq Alarms
    BY <2>1 DEF Shaped, Alarms
  <2>3. pos' \in {"top", "low"} \cup HeadIds /\ moved' \in BOOLEAN
    BY <2>1, <2>2 DEF Shaped, TypeOK
  <2>q. QED BY <1>2, <2>2, <2>3 DEF DeepLinkTimer, Shaped, TypeOK, repoVars, navVars
<1>3. CASE Render
  <2>1. lit' \subseteq HeadIds /\ totop' \in BOOLEAN /\ moved' \in BOOLEAN /\ old' = <<>>
    BY <1>3 DEF Render, Shaped, TypeOK
  <2>2. spy' \in Closures /\ spy'.ticking \in BOOLEAN
    BY <1>3 DEF Render, Shaped, Closures
  <2>3. <<>> \in Seq(Closures)
    BY EmptySeq
  <2>4. UNCHANGED <<repoVars, navVars, pageVars, pos>>
    BY <1>3 DEF Render
  <2>q. QED BY <2>1, <2>2, <2>3, <2>4 DEF Shaped, TypeOK, repoVars, navVars, pageVars
<1>q. QED BY <1>1, <1>2, <1>3

LEMMA VisitorShaped == ASSUME Shaped, Visitor PROVE Shaped'
<1>1. CASE Navigate
  <2>1. PICK h \in Typed \cup OnScreen \cup FeaturedOn(view) : loc' = h
    BY <1>1 DEF Navigate
  <2>2. loc' \in Seq(Parts)
    BY <2>1, LinksTyped
  <2>3. clicks' \in 0..MaxClicks /\ events' \in 0..MaxClicks /\ events' \in Nat /\ events' <= clicks'
    <3>1. /\ events \in 0..MaxClicks /\ events' = events + 1 /\ events <= clicks
          /\ clicks' = clicks + 1 /\ clicks \in 0..MaxClicks /\ clicks < MaxClicks /\ MaxClicks \in Nat
      BY <1>1, Bounds DEF Navigate, Shaped, TypeOK
    <3>q. QED BY <3>1
  <2>4. UNCHANGED <<repoVars, tab, DATA, loads, pageVars, scrollVars>>
    BY <1>1 DEF Navigate
  <2>q. QED BY <2>2, <2>3, <2>4 DEF Shaped, TypeOK, repoVars, pageVars, scrollVars
<1>2. CASE Scroll
  <2>1. HeadsOf(view) \in Seq(HeadIds)
    BY HeadsOfPage DEF Shaped
  <2>2. \A i \in DOMAIN HeadsOf(view) : HeadsOf(view)[i] \in HeadIds
    BY <2>1, ElementOfSeq, LenProperties
  <2>3. pos' \in {"top", "low"} \cup HeadIds /\ moved' \in BOOLEAN
    BY <1>2, <2>2 DEF Scroll
  <2>4. UNCHANGED <<repoVars, navVars, pageVars, spy, old, lit, totop>>
    BY <1>2 DEF Scroll
  <2>q. QED BY <2>3, <2>4 DEF Shaped, TypeOK, repoVars, navVars, pageVars
<1>3. CASE Filter
  <2>1. spy' \in Closures /\ spy'.ticking \in BOOLEAN
    BY <1>3 DEF Filter, Shaped, Closures
  <2>2. UNCHANGED <<repoVars, navVars, view, want, crumb, active, rail, timers, old, lit, pos, moved, totop>>
    BY <1>3 DEF Filter
  <2>q. QED BY <2>1, <2>2 DEF Shaped, TypeOK, repoVars, navVars
<1>q. QED BY <1>1, <1>2, <1>3 DEF Visitor

LEMMA NextShaped == Shaped /\ [Next]_vars => Shaped'
<1>1. ASSUME Shaped, UNCHANGED vars PROVE Shaped'
  BY <1>1 DEF vars, repoVars, navVars, pageVars, scrollVars, Shaped, TypeOK
<1>q. QED
  BY <1>1, AuthorShaped, LoadShaped, BootShaped, HashChangeShaped, OtherBrowserShaped, VisitorShaped
  DEF Next, Browser

-----------------------------------------------------------------------------
(* The page, its highlight and its name go with the address *)

\* Until the program has booted there is no page, rail, list or listener.
Blank == tab # "ready" => view = Page("none", "") /\ rail = EmptyRail /\ reg = NoReg /\ ~spy.live

Stands == ShowsHash /\ ChromeMatchesView /\ Blank

\* A document's page is given by its argument.
LEMMA DocPage ==
  ASSUME NEW v \in Pages, v.page = "doc"
  PROVE  v = Page("doc", v.arg)
BY DEF Pages, Page

LEMMA InitStands == Init => Stands
<1> SUFFICES ASSUME Init PROVE Stands
  OBVIOUS
<1>1. /\ tab = "closed" /\ view = Page("none", "") /\ rail = EmptyRail /\ reg = NoReg /\ spy = NoSpy
      /\ active = {}
  BY DEF Init
<1>2. ~NoSpy.live
  BY DEF NoSpy
<1>q. QED BY <1>1, <1>2, SpecialPages DEF Stands, ShowsHash, ChromeMatchesView, Blank

\* Drawing the page of the hash brings all of it in line.
LEMMA RouteStands ==
  ASSUME Shaped, Stands, NEW data \in DataFiles, route(data), loc' = loc,
         tab' = "ready", DATA' = data
  PROVE  Stands'
<1>1. PICK v : v = PageOf(loc, data)
  OBVIOUS
<1>2. Drawable(v) /\ PageOf(loc, DATA)' = v
  BY <1>1, PagesDrawn DEF Shaped
<1>3. Blank'
  BY DEF Blank
<1>4. CASE v = Throws
  <2>1. view' = view /\ crumb' = crumb /\ active' = {}
    BY <1>1, <1>4, SpecialPages DEF route, Highlight
  <2>2. ShowsHash'
    BY <1>2, <1>4 DEF ShowsHash
  <2>3. view' # v
    BY <1>4, <2>1, SpecialPages DEF Shaped
  <2>4. crumb' = view' \/ view' = NotFound \/ view'.page = "none"
    BY <2>1, SpecialPages DEF Stands, ChromeMatchesView, Blank
  <2>q. QED BY <1>2, <1>3, <2>1, <2>2, <2>3, <2>4 DEF Stands, ChromeMatchesView
<1>5. CASE v # Throws
  <2>1. v \in Pages /\ view' = v /\ crumb' = (IF v = NotFound THEN crumb ELSE v)
    BY <1>1, <1>2, <1>5, DrawnPage DEF route
  <2>2. active' = IF v.page = "doc" THEN {v.arg} ELSE {}
    BY <1>1 DEF route, Highlight
  <2>3. ShowsHash'
    BY <1>2, <2>1 DEF ShowsHash
  <2>4. ChromeMatchesView'
    BY <2>1, <2>2, DocPage DEF ChromeMatchesView
  <2>q. QED BY <1>3, <2>3, <2>4 DEF Stands
<1>q. QED BY <1>4, <1>5

LEMMA NextStands == Shaped /\ Stands /\ [Next]_vars => Stands'
<1> SUFFICES ASSUME Shaped, Stands, [Next]_vars PROVE Stands'
  OBVIOUS
<1>1. CASE Author \/ UNCHANGED vars
  BY <1>1 DEF Author, main, Vendor, Edit, vars, navVars, pageVars, scrollVars, Stands, ShowsHash, ChromeMatchesView, Blank
<1>2. CASE Load
  BY <1>2 DEF Load, NoSpy, Page, Stands, ShowsHash, ChromeMatchesView, Blank
<1>3. CASE boot
  <2>1. disk.data \in DataFiles
    BY <1>3 DEF boot, Shaped
  <2>q. QED BY <1>3, <2>1, RouteStands DEF boot
<1>4. CASE HashChange
  <2>1. CASE tab = "ready"
    <3>1. DATA \in DataFiles
      BY <2>1 DEF Shaped, TypeOK
    <3>q. QED BY <1>4, <2>1, <3>1, RouteStands DEF HashChange
  <2>2. CASE tab # "ready"
    BY <1>4, <2>2, SpecialPages DEF HashChange, pageVars, Stands, ShowsHash, ChromeMatchesView, Blank
  <2>q. QED BY <2>1, <2>2
<1>5. CASE FetchFails
  BY <1>5 DEF FetchFails, repoVars, pageVars, scrollVars, Stands, ShowsHash, ChromeMatchesView, Blank
<1>6. CASE DeepLinkTimer
  BY <1>6 DEF DeepLinkTimer, navVars, Stands, ShowsHash, ChromeMatchesView, Blank
<1>7. CASE Render
  BY <1>7 DEF Render, navVars, pageVars, Shaped, Closures, Stands, ShowsHash, ChromeMatchesView, Blank
<1>8. CASE Navigate
  <2>1. events \in Nat /\ events' = events + 1
    BY <1>8 DEF Navigate, Shaped
  <2>2. events' # 0
    BY <2>1
  <2>q. QED BY <1>8, <2>2 DEF Navigate, pageVars, scrollVars, Stands, ShowsHash, ChromeMatchesView, Blank
<1>9. CASE Scroll
  BY <1>9 DEF Scroll, navVars, pageVars, Stands, ShowsHash, ChromeMatchesView, Blank
<1>10. CASE Filter
  <2>1. tab = "ready"
    BY <1>10, SpecialPages DEF Filter, Stands, ShowsHash, ChromeMatchesView, Blank
  <2>q. QED BY <1>10, <2>1 DEF Filter, navVars, Stands, ShowsHash, ChromeMatchesView, Blank
<1>q. QED BY <1>1, <1>2, <1>3, <1>4, <1>5, <1>6, <1>7, <1>8, <1>9, <1>10 DEF Next, Browser, Visitor

-----------------------------------------------------------------------------
(* The scroll spy *)

\* A closure that still has its page is the listener and has its rail; frames of
\* replaced closures wait only while the listener waits for one; and when no
\* scroll event and no frame is due, rail and button tell where the page stands.
Scrolled ==
  /\ spy.live => spy.on /\ spy.rail
  /\ old # <<>> => spy.ticking
  /\ tab = "ready" /\ spy.live /\ ~moved /\ ~spy.ticking => lit \subseteq {pos} /\ totop = (pos # "top")

LEMMA InitScrolled == Init => Scrolled
<1> SUFFICES ASSUME Init PROVE Scrolled
  OBVIOUS
<1>1. spy = NoSpy /\ old = <<>>
  BY DEF Init
<1>q. QED BY <1>1 DEF Scrolled, NoSpy

LEMMA RouteScrolled ==
  ASSUME Shaped, Blank, Scrolled, NEW data \in DataFiles, route(data), totop' = totop, tab' = "ready"
  PROVE  Scrolled'
<1>1. PICK v : v = PageOf(loc, data)
  OBVIOUS
<1>2. pos' = "top" /\ moved' = (moved \/ pos # "top")
  BY DEF route
<1>3. CASE v = Throws
  <2>1. spy' = spy /\ old' = old /\ lit' = lit
    BY <1>1, <1>3 DEF route
  <2>2. CASE tab = "ready"
    BY <1>2, <2>1, <2>2 DEF Scrolled, Shaped, TypeOK
  <2>3. CASE tab # "ready"
    BY <2>1, <2>3 DEF Scrolled, Blank
  <2>q. QED BY <2>2, <2>3
<1>4. CASE v = NotFound /\ v # Throws
  <2>1. spy' = Detach(spy, v)
    BY <1>1, <1>4 DEF route
  <2>2. ~spy'.live /\ spy'.ticking = spy.ticking
    BY <2>1 DEF Detach, Shaped, Closures
  <2>3. old' = [i \in DOMAIN old |-> Detach(old[i], v)]
    BY <1>1, <1>4 DEF route
  <2>4. old = <<>> => old' = <<>>
    BY <2>3
  <2>q. QED BY <2>2, <2>4 DEF Scrolled
<1>5. CASE v # NotFound /\ v # Throws
  <2>1. spy' = initScroll(v)
    BY <1>1, <1>5 DEF route
  <2>q. QED BY <2>1 DEF Scrolled, initScroll
<1>q. QED BY <1>3, <1>4, <1>5

\* A rendering runs the listener last, and it has the present headings and rail.
LEMMA RenderScrolled ==
  ASSUME Shaped, Scrolled, Render
  PROVE  Scrolled'
<1>1. old' = <<>> /\ spy' = [spy EXCEPT !.ticking = FALSE] /\ pos' = pos
  BY DEF Render
<1>2. spy'.live = spy.live /\ spy'.on = spy.on /\ spy'.rail = spy.rail
  BY <1>1 DEF Shaped, Closures
<1>3. ASSUME spy.live PROVE lit' \subseteq {pos} /\ totop' = (pos # "top")
  <2>1. spy.on /\ spy.rail
    BY <1>3 DEF Scrolled
  <2>2. moved \/ spy.ticking
    BY DEF Render, Scrolled
  <2>3. PICK calls : calls = Append(old, spy)
    OBVIOUS
  <2>4. /\ Len(calls) \in Nat /\ DOMAIN calls = 1..Len(calls) /\ Len(calls) \in DOMAIN calls
        /\ calls # <<>> /\ calls[Len(calls)] = spy
    BY <2>3, AppendProperties, LenProperties DEF Shaped
  <2>5. PICK seen : seen = {i \in DOMAIN calls : calls[i].rail}
    OBVIOUS
  <2>6. Len(calls) \in seen /\ \A j \in seen : j \in Nat /\ j <= Len(calls)
    BY <2>1, <2>4, <2>5
  <2>7. (CHOOSE i \in seen : \A j \in seen : j <= i) = Len(calls)
    <3>1. \E i \in seen : \A j \in seen : j <= i
      BY <2>6
    <3>2. PICK m : m = CHOOSE i \in seen : \A j \in seen : j <= i
      OBVIOUS
    <3>3. m \in seen /\ \A j \in seen : j <= m
      BY <3>1, <3>2
    <3>4. m <= Len(calls) /\ Len(calls) <= m /\ m \in Nat
      BY <2>6, <3>3
    <3>q. QED BY <2>4, <3>2, <3>4
  <2>8. lit' = {h \in HeadIds : h = Act(spy) /\ \E i \in DOMAIN rail.ids : rail.ids[i] = h}
    BY <2>1, <2>2, <2>3, <2>4, <2>5, <2>6, <2>7 DEF Render
  <2>9. Act(spy) \in {None, pos}
    BY <1>3 DEF Act
  <2>10. totop' = (pos # "top")
    BY <2>1, <2>2, <2>3, <2>4 DEF Render
  <2>q. QED BY <2>8, <2>9, <2>10, SiteAssumption
<1>q. QED BY <1>1, <1>2, <1>3 DEF Scrolled

LEMMA NextScrolled == Shaped /\ Blank /\ Scrolled /\ [Next]_vars => Scrolled'
<1> SUFFICES ASSUME Shaped, Blank, Scrolled, [Next]_vars PROVE Scrolled'
  OBVIOUS
<1>1. CASE Author \/ UNCHANGED vars
  BY <1>1 DEF Author, main, Vendor, Edit, vars, navVars, pageVars, scrollVars, Scrolled
<1>2. CASE Load
  BY <1>2 DEF Load, NoSpy, Scrolled
<1>3. CASE boot
  <2>1. disk.data \in DataFiles
    BY <1>3 DEF boot, Shaped
  <2>q. QED BY <1>3, <2>1, RouteScrolled DEF boot
<1>4. CASE HashChange
  <2>1. CASE tab = "ready"
    <3>1. DATA \in DataFiles
      BY <2>1 DEF Shaped, TypeOK
    <3>q. QED BY <1>4, <2>1, <3>1, RouteScrolled DEF HashChange
  <2>2. CASE tab # "ready"
    BY <1>4, <2>2 DEF HashChange, Scrolled
  <2>q. QED BY <2>1, <2>2
<1>5. CASE FetchFails
  BY <1>5 DEF FetchFails, repoVars, pageVars, scrollVars, Scrolled
<1>6. CASE DeepLinkTimer
  BY <1>6 DEF DeepLinkTimer, navVars, Scrolled, Shaped, TypeOK
<1>7. CASE Render
  BY <1>7, RenderScrolled
<1>8. CASE Navigate
  BY <1>8 DEF Navigate, pageVars, scrollVars, Scrolled
<1>9. CASE Scroll
  BY <1>9 DEF Scroll, navVars, pageVars, Scrolled
<1>10. CASE Filter
  <2>1. spy' = [spy EXCEPT !.live = FALSE] /\ old' = old
    BY <1>10 DEF Filter
  <2>2. ~spy'.live /\ spy'.ticking = spy.ticking
    BY <2>1 DEF Shaped, Closures
  <2>q. QED BY <2>1, <2>2 DEF Scrolled
<1>q. QED BY <1>1, <1>2, <1>3, <1>4, <1>5, <1>6, <1>7, <1>8, <1>9, <1>10 DEF Next, Browser, Visitor

\* Page, highlight, top bar, rail and back-to-top button agree with each other and
\* with the address, whatever order clicks, the fetch, events and frames come in.
THEOREM ScreenCorrect == Spec => []ScreenAgrees
<1>1. Init => Shaped /\ Stands /\ Scrolled
  BY InitShaped, InitStands, InitScrolled
<1>2. Shaped /\ Stands /\ Scrolled /\ [Next]_vars => (Shaped /\ Stands /\ Scrolled)'
  <2>1. Stands => Blank
    BY DEF Stands
  <2>q. QED BY <2>1, NextShaped, NextStands, NextScrolled
<1>3. Shaped /\ Stands /\ Scrolled => ScreenAgrees
  BY DEF Shaped, Stands, Scrolled, ScreenAgrees, SpyAgrees, Calm
<1>q. QED BY <1>1, <1>2, <1>3, PTL DEF Spec

-----------------------------------------------------------------------------
(* What the build counts and what the browser lists *)

\* The count in a data file is the number of its open answers, and what a register
\* lists is drawn from the data by its filters.
Counts(data) == data.prd_open = Cardinality({q \in Questions : is_open_answer(data.answers[q])})

Counted ==
  /\ disk.shell => disk.data # None
  /\ disk.data # None => Counts(disk.data)
  /\ DATA # None => Counts(DATA)
  /\ reg = NoReg \/ \E f, s, q : reg = pageRegPrd(DATA, f, s, q)

LEMMA CollectCounts == \A s : Counts(collect(s))
BY DEF Counts, collect

LEMMA DecisionsDrawn == \A data, f, q : pageRegDecisions(data, f, q) = pageRegPrd(data, f, "", q)
BY DEF pageRegDecisions, pageRegPrd

LEMMA InitCounted == Init => Counted
<1> SUFFICES ASSUME Init PROVE Counted
  OBVIOUS
<1>1. disk.shell = FALSE /\ disk.data = None /\ DATA = None /\ reg = NoReg
  BY DEF Init
<1>q. QED BY <1>1 DEF Counted

LEMMA RouteCounted ==
  ASSUME NEW data, route(data), DATA' = data, reg = NoReg \/ DATA = data,
         reg = NoReg \/ \E f, s, q : reg = pageRegPrd(DATA, f, s, q)
  PROVE  reg' = NoReg \/ \E f, s, q : reg' = pageRegPrd(DATA', f, s, q)
<1>1. \/ reg' = reg
      \/ reg' = pageRegPrd(data, "all", "", "")
      \/ reg' = pageRegDecisions(data, "all", "")
      \/ reg' = NoReg
  BY DEF route
<1>q. QED BY <1>1, DecisionsDrawn

LEMMA NextCounted == Shaped /\ Blank /\ Counted /\ [Next]_vars => Counted'
<1> SUFFICES ASSUME Shaped, Blank, Counted, [Next]_vars PROVE Counted'
  OBVIOUS
<1>1. CASE main
  <2>1. disk'.data = collect(src) /\ collect(src) # None
    BY <1>1, CollectMakesFile DEF main, Shaped
  <2>q. QED BY <1>1, <2>1, CollectCounts DEF main, navVars, pageVars, Counted
<1>2. CASE Vendor
  <2>1. disk'.data = disk.data /\ disk'.shell = disk.shell
    BY <1>2 DEF Vendor, Shaped
  <2>q. QED BY <1>2, <2>1 DEF Vendor, navVars, pageVars, Counted
<1>3. CASE Edit \/ UNCHANGED vars
  BY <1>3 DEF Edit, vars, repoVars, navVars, pageVars, Counted
<1>4. CASE Load
  BY <1>4 DEF Load, repoVars, Counted
<1>5. CASE boot
  <2>1. route(disk.data) /\ DATA' = disk.data /\ disk' = disk /\ disk.data # None /\ reg = NoReg
    BY <1>5 DEF boot, repoVars, Blank
  <2>2. reg' = NoReg \/ \E f, s, q : reg' = pageRegPrd(DATA', f, s, q)
    BY <2>1, RouteCounted DEF Counted
  <2>q. QED BY <2>1, <2>2 DEF Counted
<1>6. CASE HashChange
  <2>1. DATA' = DATA /\ disk' = disk
    BY <1>6 DEF HashChange, repoVars
  <2>2. reg' = NoReg \/ \E f, s, q : reg' = pageRegPrd(DATA', f, s, q)
    <3>1. CASE tab = "ready"
      BY <1>6, <2>1, <3>1, RouteCounted DEF HashChange, Counted
    <3>2. CASE tab # "ready"
      BY <1>6, <2>1, <3>2 DEF HashChange, pageVars, Counted
    <3>q. QED BY <3>1, <3>2
  <2>q. QED BY <2>1, <2>2 DEF Counted
<1>7. CASE FetchFails \/ DeepLinkTimer \/ Render \/ Navigate \/ Scroll
  BY <1>7 DEF FetchFails, DeepLinkTimer, Render, Navigate, Scroll, repoVars, navVars, pageVars, Counted
<1>8. CASE Filter
  <2>1. DATA' = DATA /\ disk' = disk
    BY <1>8 DEF Filter, repoVars, navVars
  <2>2. \E f, s, q : reg' = pageRegPrd(DATA, f, s, q) \/ reg' = pageRegDecisions(DATA, f, q)
    BY <1>8 DEF Filter
  <2>q. QED BY <2>1, <2>2, DecisionsDrawn DEF Counted
<1>q. QED BY <1>1, <1>2, <1>3, <1>4, <1>5, <1>6, <1>7, <1>8 DEF Next, Author, Browser, Visitor

LEMMA SameTest == \A a : openAns(a) = is_open_answer(a)
BY DEF openAns, is_open_answer

\* A shell always has its data file, and the browser lists as open as many
\* questions as the build counted, though each has its own test.
THEOREM BuildCorrect == Spec => []BuildServesApp
<1>1. Init => Shaped /\ Stands /\ Counted
  BY InitShaped, InitStands, InitCounted
<1>2. Shaped /\ Stands /\ Counted /\ [Next]_vars => (Shaped /\ Stands /\ Counted)'
  <2>1. Stands => Blank
    BY DEF Stands
  <2>q. QED BY <2>1, NextShaped, NextStands, NextCounted
<1>3. Shaped /\ Stands /\ Counted => BuildServesApp
  <2> SUFFICES ASSUME Shaped, Stands, Counted PROVE BuildServesApp
    OBVIOUS
  <2>1. ShellHasData
    BY DEF Counted, ShellHasData
  <2>2. ASSUME reg # NoReg, reg.f = "open", reg.s = "", reg.q = ""
        PROVE  Cardinality(reg.rows) = DATA.prd_open
    <3>1. PICK f, s, q : reg = pageRegPrd(DATA, f, s, q)
      BY <2>2 DEF Counted
    <3>2. f = "open" /\ s = "" /\ q = ""
      BY <2>2, <3>1 DEF pageRegPrd
    <3>3. reg.rows = DrawRows(DATA, "open", "", "")
      BY <3>1, <3>2 DEF pageRegPrd
    <3>4. DrawRows(DATA, "open", "", "") = {x \in Questions : is_open_answer(DATA.answers[x])}
      BY SameTest DEF DrawRows
    <3>5. Counts(DATA)
      <4>1. tab = "ready"
        BY <2>2 DEF Stands, Blank
      <4>q. QED BY <4>1 DEF Counted, Shaped, TypeOK
    <3>q. QED BY <3>3, <3>4, <3>5 DEF Counts
  <2>q. QED BY <2>1, <2>2 DEF BuildServesApp, OpenCountAgrees
<1>q. QED BY <1>1, <1>2, <1>3, PTL DEF Spec

-----------------------------------------------------------------------------
(* Where links lead *)

\* What parseHash makes of a hash.
Reads(h, r, a, t) == parseHash(h).route = r /\ parseHash(h).arg = a /\ parseHash(h).sub = t

LEMMA ParseHashes ==
  /\ Reads(<<>>, "home", "", "")
  /\ \A a : Reads(<<a>>, a, "", "")
  /\ \A a, b : Reads(<<a, b>>, a, b, "")
  /\ \A a, b, c : Reads(<<a, b, c>>, a, b, c)
<1>1. Reads(<<>>, "home", "", "")
  BY DEF parseHash, Part, Reads
<1>2. \A a : Reads(<<a>>, a, "", "")
  BY DEF parseHash, Part, Reads
<1>3. \A a, b : Reads(<<a, b>>, a, b, "")
  BY DEF parseHash, Part, Reads
<1>4. \A a, b, c : Reads(<<a, b, c>>, a, b, c)
  BY DEF parseHash, Part, Reads
<1>q. QED BY <1>1, <1>2, <1>3, <1>4

\* A part that is there stays when another is appended.
LEMMA ParseOfSection ==
  ASSUME NEW h \in Seq(Parts), NEW x \in Parts, h # <<>>
  PROVE  /\ parseHash(Append(h, x)).route = parseHash(h).route
         /\ parseHash(h).arg # "" => parseHash(Append(h, x)).arg = parseHash(h).arg
         /\ parseHash(h).arg # "" /\ parseHash(h).sub # "" => parseHash(Append(h, x)).sub = parseHash(h).sub
<1>1. /\ Len(h) \in Nat /\ Len(h) >= 1 /\ Len(Append(h, x)) = Len(h) + 1
      /\ \A i \in 1..Len(h) : Append(h, x)[i] = h[i]
      /\ Append(h, x) # <<>>
  BY AppendProperties, LenProperties, EmptySeq
<1>2. parseHash(Append(h, x)).route = parseHash(h).route
  BY <1>1 DEF parseHash
<1>3. ASSUME NEW i \in {2, 3}, Part(h, i) # "" PROVE Part(Append(h, x), i) = Part(h, i)
  <2>1. Len(h) >= i
    BY <1>3 DEF Part
  <2>2. i \in 1..Len(h) /\ Len(Append(h, x)) >= i
    <3>1. Len(h) \in Nat /\ Len(Append(h, x)) = Len(h) + 1
      BY <1>1
    <3>2. i = 2 \/ i = 3
      BY <1>3
    <3>q. QED BY <2>1, <3>1, <3>2
  <2>q. QED BY <1>1, <2>1, <2>2 DEF Part
<1>4. /\ parseHash(h).arg = Part(h, 2) /\ parseHash(Append(h, x)).arg = Part(Append(h, x), 2)
      /\ parseHash(h).sub = Part(h, 3) /\ parseHash(Append(h, x)).sub = Part(Append(h, x), 3)
  BY DEF parseHash
<1>q. QED BY <1>2, <1>3, <1>4

\* A page with a rail is still found when a section is appended to its hash.
LEMMA SectionsStay ==
  ASSUME NEW data \in DataFiles, NEW h \in Seq(Parts), NEW x \in Parts, HasRail(PageOf(h, data))
  PROVE  PageOf(Append(h, x), data) = PageOf(h, data)
<1>1. PICK p, r : p = parseHash(h) /\ r = parseHash(Append(h, x))
  OBVIOUS
<1>2. PICK v : v = PageOf(h, data)
  OBVIOUS
<1>3. /\ \A n, a : n \notin {"doc", "catalog", "taxonomy", "api"} => ~HasRail(Page(n, a))
      /\ ~HasRail(NotFound) /\ ~HasRail(Throws)
  <2>1. ASSUME NEW n, NEW a, n \notin {"doc", "catalog", "taxonomy", "api"} PROVE ~HasRail(Page(n, a))
    <3>1. Page(n, a).page = n
      BY PageFields
    <3>q. QED BY <2>1, <3>1 DEF HasRail
  <2>2. ~HasRail(NotFound) /\ ~HasRail(Throws)
    BY SpecialPages DEF HasRail
  <2>q. QED BY <2>1, <2>2
<1>4. \A q : ~HasRail(pagePayloadOf(data, q)) /\ ~HasRail(pageRegistersOf(q))
  BY <1>3 DEF pagePayloadOf, pageRegistersOf
<1>5. h # <<>>
  <2>1. CASE h = <<>>
    <3>1. parseHash(h).route = "home"
      BY <2>1, ParseHashes DEF Reads
    <3>2. PageOf(h, data) = Page("home", "")
      BY <3>1 DEF PageOf
    <3>q. QED BY <1>3, <3>2
  <2>q. QED BY <2>1
<1>6. /\ r.route = p.route
      /\ p.arg # "" => r.arg = p.arg
      /\ p.arg # "" /\ p.sub # "" => r.sub = p.sub
  BY <1>1, <1>5, ParseOfSection
<1>7. \/ p.route = "doc" /\ p.arg # "" /\ v = pageDocOf(data, p.arg)
      \/ p.route = "contracts" /\ p.arg = "events" /\ v = pageCatalog
      \/ p.route = "contracts" /\ p.arg = "errors" /\ v = pageTaxonomy
      \/ p.route = "contracts" /\ p.arg = "api" /\ p.sub # "" /\ v = pageApiOf(data, p.sub)
  BY <1>1, <1>2, <1>3, <1>4 DEF PageOf, pageDiagrams
<1>8. PageOf(Append(h, x), data) = v
  <2>1. CASE p.route = "doc" /\ p.arg # "" /\ v = pageDocOf(data, p.arg)
    BY <1>1, <1>6, <2>1 DEF PageOf
  <2>2. CASE p.route = "contracts" /\ p.arg = "events" /\ v = pageCatalog
    BY <1>1, <1>6, <2>2 DEF PageOf
  <2>3. CASE p.route = "contracts" /\ p.arg = "errors" /\ v = pageTaxonomy
    BY <1>1, <1>6, <2>3 DEF PageOf
  <2>4. CASE p.route = "contracts" /\ p.arg = "api" /\ p.sub # "" /\ v = pageApiOf(data, p.sub)
    BY <1>1, <1>6, <2>4 DEF PageOf
  <2>q. QED BY <1>7, <2>1, <2>2, <2>3, <2>4
<1>q. QED BY <1>2, <1>8

\* A rail is built on a hash that leads to its page, and it is kept only while
\* the data stays.
LEMMA RouteLinked ==
  ASSUME Shaped, NEW data \in DataFiles, route(data), DATA' = data, loc' = loc,
         rail = EmptyRail \/ DATA = data, RailLeadsBack
  PROVE  RailLeadsBack'
<1>1. PICK v : v = PageOf(loc, data)
  OBVIOUS
<1>2. CASE v # Throws /\ HasRail(v)
  <2>1. rail' = [view |-> v, hash |-> loc, ids |-> HeadsOf(v)]
    BY <1>1, <1>2 DEF route, buildRail
  <2>2. rail' \in [view : Pages, hash : Seq(Parts), ids : Seq(HeadIds)]
    BY RouteShaped
  <2>3. ASSUME NEW i \in DOMAIN rail'.ids
        PROVE  PageOf(SectionLink(rail'.hash, rail'.ids[i]), data) = v
    <3>1. rail'.ids[i] \in HeadIds
      BY <2>2, <2>3, ElementOfSeq, LenProperties
    <3>2. Sec[rail'.ids[i]] \in Parts
      BY <3>1, SiteAssumption DEF Parts
    <3>3. loc \in Seq(Parts)
      BY DEF Shaped
    <3>4. PageOf(Append(loc, Sec[rail'.ids[i]]), data) = v
      BY <1>1, <1>2, <3>2, <3>3, SectionsStay
    <3>q. QED BY <2>1, <3>4 DEF SectionLink
  <2>4. rail'.view = v
    BY <2>1
  <2>q. QED BY <2>3, <2>4 DEF RailLeadsBack
<1>3. CASE v = Throws \/ ~HasRail(v)
  <2>1. rail' = rail
    BY <1>1, <1>3 DEF route
  <2>q. QED BY <2>1 DEF RailLeadsBack
<1>q. QED BY <1>2, <1>3

LEMMA NextLinked == Shaped /\ Blank /\ RailLeadsBack /\ [Next]_vars => RailLeadsBack'
<1> SUFFICES ASSUME Shaped, Blank, RailLeadsBack, [Next]_vars PROVE RailLeadsBack'
  OBVIOUS
<1>1. CASE Author \/ UNCHANGED vars
  BY <1>1 DEF Author, main, Vendor, Edit, vars, navVars, pageVars, RailLeadsBack
<1>2. CASE Load
  BY <1>2 DEF Load, RailLeadsBack
<1>3. CASE boot
  <2>1. disk.data \in DataFiles /\ rail = EmptyRail
    BY <1>3 DEF boot, Shaped, Blank
  <2>q. QED BY <1>3, <2>1, RouteLinked DEF boot
<1>4. CASE HashChange
  <2>1. CASE tab = "ready"
    <3>1. DATA \in DataFiles
      BY <2>1 DEF Shaped, TypeOK
    <3>q. QED BY <1>4, <2>1, <3>1, RouteLinked DEF HashChange
  <2>2. CASE tab # "ready"
    BY <1>4, <2>2 DEF HashChange, pageVars, RailLeadsBack
  <2>q. QED BY <2>1, <2>2
<1>5. CASE FetchFails \/ DeepLinkTimer \/ Render \/ Navigate \/ Scroll \/ Filter
  BY <1>5 DEF FetchFails, DeepLinkTimer, Render, Navigate, Scroll, Filter, navVars, pageVars, RailLeadsBack
<1>q. QED BY <1>1, <1>2, <1>3, <1>4, <1>5 DEF Next, Browser, Visitor

\* A page there is: not the not-found page, and drawing it does not throw.
Found(h, data) == PageOf(h, data) \notin {NotFound, Throws}

LEMMA OrdinaryPage ==
  ASSUME NEW n, NEW a, n # "notfound", n # "throws"
  PROVE  Page(n, a) \notin {NotFound, Throws}
<1>1. Page(n, a).page = n
  BY PageFields
<1>q. QED BY <1>1, SpecialPages

LEMMA DocsFound ==
  ASSUME NEW data \in DataFiles, NEW d \in Ids(data)
  PROVE  Found(<<"doc", d>>, data)
<1>1. d # ""
  BY IdsOfFile, SiteAssumption
<1>2. Reads(<<"doc", d>>, "doc", d, "")
  BY ParseHashes
<1>3. PageOf(<<"doc", d>>, data) = Page("doc", d)
  BY <1>1, <1>2 DEF PageOf, pageDocOf, Reads
<1>q. QED BY <1>3, OrdinaryPage DEF Found

LEMMA PayloadsFound ==
  ASSUME NEW data \in DataFiles, NEW p \in data.payloads
  PROVE  Found(<<"contracts", "payloads", Encode[p]>>, data)
<1>1. data.payloads = Payloads
  BY DEF DataFiles
<1>2. Encode[p] # "" /\ Decode[Encode[p]] = p /\ p # Malformed
  BY <1>1, SiteAssumption
<1>3. Reads(<<"contracts", "payloads", Encode[p]>>, "contracts", "payloads", Encode[p])
  BY ParseHashes
<1>4. PageOf(<<"contracts", "payloads", Encode[p]>>, data) = pagePayloadOf(data, Encode[p])
  BY <1>2, <1>3 DEF PageOf, Reads
<1>5. pagePayloadOf(data, Encode[p]) = Page("payload", p)
  BY <1>2 DEF pagePayloadOf
<1>q. QED BY <1>4, <1>5, OrdinaryPage DEF Found

LEMMA ApisFound ==
  ASSUME NEW data \in DataFiles, NEW a \in data.api
  PROVE  Found(<<"contracts", "api", a>>, data)
<1>1. a # ""
  BY SiteAssumption DEF DataFiles
<1>2. Reads(<<"contracts", "api", a>>, "contracts", "api", a)
  BY ParseHashes
<1>3. PageOf(<<"contracts", "api", a>>, data) = Page("api", a)
  BY <1>1, <1>2 DEF PageOf, pageApiOf, Reads
<1>q. QED BY <1>3, OrdinaryPage DEF Found

LEMMA FixedFound == ASSUME NEW data, NEW h \in FixedLinks PROVE Found(h, data)
<1>1. PICK p : p = parseHash(h)
  OBVIOUS
<1>2. \/ p.route = "home"
      \/ p.route = "contracts" /\ p.arg \in {"", "events", "errors", "diagrams"}
      \/ p.route = "contracts" /\ p.arg = "api" /\ p.sub = ""
      \/ p.route = "registers"
  <2>1. \/ h = <<>>
        \/ h = <<"contracts">>
        \/ \E b \in {"events", "errors", "api", "diagrams"} : h = <<"contracts", b>>
        \/ h = <<"registers">>
        \/ \E b \in {"d", "prd", "triage"} : h = <<"registers", b>>
    BY ZenonT(30) DEF FixedLinks
  <2>2. CASE h = <<>>
    BY <1>1, <2>2, ParseHashes DEF Reads
  <2>3. CASE h = <<"contracts">>
    BY <1>1, <2>3, ParseHashes DEF Reads
  <2>4. CASE \E b \in {"events", "errors", "api", "diagrams"} : h = <<"contracts", b>>
    <3>1. PICK b \in {"events", "errors", "api", "diagrams"} : h = <<"contracts", b>>
      BY <2>4
    <3>2. Reads(h, "contracts", b, "")
      BY <3>1, ParseHashes
    <3>q. QED BY <1>1, <3>1, <3>2 DEF Reads
  <2>5. CASE h = <<"registers">>
    BY <1>1, <2>5, ParseHashes DEF Reads
  <2>6. CASE \E b \in {"d", "prd", "triage"} : h = <<"registers", b>>
    <3>1. PICK b \in {"d", "prd", "triage"} : h = <<"registers", b>>
      BY <2>6
    <3>2. Reads(h, "registers", b, "")
      BY <3>1, ParseHashes
    <3>q. QED BY <1>1, <3>2 DEF Reads
  <2>q. QED BY <2>1, <2>2, <2>3, <2>4, <2>5, <2>6
<1>3. \E n \in {"home", "hub", "catalog", "taxonomy", "diagrams", "apiIndex", "registers"} : \E a : PageOf(h, data) = Page(n, a)
  BY <1>1, <1>2 DEF PageOf, pageCatalog, pageTaxonomy, pageDiagrams, pageRegistersOf
<1>q. QED BY <1>3, OrdinaryPage DEF Found

\* Every link on the screen of a booted program is found in its data.
LEMMA ScreenFound ==
  ASSUME Shaped, RailLeadsBack, tab = "ready", NEW h \in OnScreen
  PROVE  Found(h, DATA)
<1>1. DATA \in DataFiles
  BY DEF Shaped, TypeOK
<1>2. CASE h \in DocLinks(DATA)
  <2>1. PICK d \in Ids(DATA) : h = <<"doc", d>>
    BY <1>2 DEF DocLinks, Ids
  <2>q. QED BY <1>1, <2>1, DocsFound
<1>3. CASE h \in FixedLinks
  BY <1>3, FixedFound
<1>4. CASE h \in RailLinks
  <2>1. PICK i \in DOMAIN rail.ids : h = SectionLink(rail.hash, rail.ids[i])
    BY <1>4 DEF RailLinks
  <2>2. rail # EmptyRail
    <3>1. DOMAIN EmptyRail.ids = {}
      BY DEF EmptyRail
    <3>q. QED BY <2>1, <3>1
  <2>3. PageOf(h, DATA) = rail.view /\ HasRail(rail.view)
    BY <2>1, <2>2 DEF RailLeadsBack, Shaped, TypeOK
  <2>4. ~HasRail(NotFound) /\ ~HasRail(Throws)
    BY SpecialPages DEF HasRail
  <2>q. QED BY <2>3, <2>4 DEF Found
<1>5. CASE h \in PrevNext(DATA, view.arg)
  <2>1. PICK d \in Ids(DATA) : h = <<"doc", d>>
    BY <1>5 DEF PrevNext, Ids
  <2>q. QED BY <1>1, <2>1, DocsFound
<1>6. CASE h \in {<<"contracts", "payloads", Encode[p]>> : p \in DATA.payloads}
  BY <1>1, <1>6, PayloadsFound
<1>7. CASE h \in pageApiIndex(DATA)
  BY <1>1, <1>7, ApisFound DEF pageApiIndex
<1>8. \/ h \in DocLinks(DATA) \cup FixedLinks \cup RailLinks
      \/ h \in PrevNext(DATA, view.arg)
      \/ h \in {<<"contracts", "payloads", Encode[p]>> : p \in DATA.payloads}
      \/ h \in pageApiIndex(DATA)
  <2>1. CASE h \in buildSidebar(DATA) \cup RailLinks
    BY <2>1, FixedParts
  <2>2. CASE h \in PageLinks(view, DATA)
    <3>1. \/ h \in pageHome(DATA) \/ h \in PrevNext(DATA, view.arg) \/ h \in pageContractsHub(DATA)
          \/ h \in pageApiIndex(DATA)
          \/ h \in {<<"contracts", "events">>, <<>>}
          \/ h \in RegisterTabs \cup pageRegOverview \cup pageRegTriage
      BY <2>2 DEF PageLinks
    <3>q. QED BY <3>1, FixedParts
  <2>q. QED BY <2>1, <2>2 DEF OnScreen
<1>q. QED BY <1>2, <1>3, <1>4, <1>5, <1>6, <1>7, <1>8

\* However the rail was left over and however often sections were appended, every
\* link on screen leads to a page there is, and a section link back to its own.
THEOREM LinksCorrect == Spec => []LinksLead
<1>1. Init => Shaped /\ Stands /\ RailLeadsBack
  BY InitShaped, InitStands DEF Init, RailLeadsBack
<1>2. Shaped /\ Stands /\ RailLeadsBack /\ [Next]_vars => (Shaped /\ Stands /\ RailLeadsBack)'
  <2>1. Stands => Blank
    BY DEF Stands
  <2>q. QED BY <2>1, NextShaped, NextStands, NextLinked
<1>3. Shaped /\ Stands /\ RailLeadsBack => LinksLead
  BY ScreenFound DEF LinksLead, LinksResolve, Found
<1>q. QED BY <1>1, <1>2, <1>3, PTL DEF Spec

-----------------------------------------------------------------------------
(* Deep links *)

\* A timeout whose element is still in the page names a heading the page was
\* drawn for.
Asked == \A t \in timers : t.live => t.id \in want

LEMMA RouteAsked ==
  ASSUME Shaped, Asked, NEW data, route(data)
  PROVE  Asked'
<1>1. PICK v : v = PageOf(loc, data)
  OBVIOUS
<1>2. CASE v = Throws
  BY <1>1, <1>2 DEF route, Asked
<1>3. CASE v # Throws
  <2>1. timers' = {[t EXCEPT !.live = FALSE] : t \in timers} \cup DeepLinks(v)
    BY <1>1, <1>3 DEF route
  <2>2. want' = {t.id : t \in DeepLinks(v)}
    BY <1>1, <1>3 DEF route
  <2> SUFFICES ASSUME NEW t \in timers', t.live PROVE t.id \in want'
    BY DEF Asked
  <2>3. CASE t \in DeepLinks(v)
    BY <2>2, <2>3
  <2>4. CASE \E u \in timers : t = [u EXCEPT !.live = FALSE]
    BY <2>4 DEF Shaped, Alarms
  <2>q. QED BY <2>1, <2>3, <2>4
<1>q. QED BY <1>2, <1>3

LEMMA NextAsked == Shaped /\ Asked /\ [Next]_vars => Asked'
<1> SUFFICES ASSUME Shaped, Asked, [Next]_vars PROVE Asked'
  OBVIOUS
<1>1. CASE Author \/ UNCHANGED vars
  BY <1>1 DEF Author, main, Vendor, Edit, vars, navVars, pageVars, Asked
<1>2. CASE Load
  BY <1>2 DEF Load, Asked
<1>3. CASE boot
  BY <1>3, RouteAsked DEF boot
<1>4. CASE HashChange
  <2>1. CASE tab = "ready"
    BY <1>4, <2>1, RouteAsked DEF HashChange
  <2>2. CASE tab # "ready"
    BY <1>4, <2>2 DEF HashChange, pageVars, Asked
  <2>q. QED BY <2>1, <2>2
<1>5. CASE FetchFails \/ DeepLinkTimer \/ Render \/ Navigate \/ Scroll \/ Filter
  BY <1>5 DEF FetchFails, DeepLinkTimer, Render, Navigate, Scroll, Filter, navVars, pageVars, Asked
<1>q. QED BY <1>1, <1>2, <1>3, <1>4, <1>5 DEF Next, Browser, Visitor

\* However the visitor moves on, a deep link's timeout scrolls only to a heading
\* that the page on screen was asked for.
THEOREM TimersCorrect == Spec => TimerScrollsWhereAsked
<1>1. Init => Shaped /\ Asked
  BY InitShaped DEF Init, Asked
<1>2. Asked /\ [Next]_vars =>
        [timers' # timers /\ timers' \subseteq timers /\ pos' \notin {pos, "top"} => pos' \in want]_vars
  <2> SUFFICES ASSUME Asked, Next, timers' # timers, pos' \notin {pos, "top"}
               PROVE  pos' \in want
    OBVIOUS
  <2>1. CASE Author \/ FetchFails \/ Render \/ Navigate \/ Scroll \/ Filter
    BY <2>1 DEF Author, main, Vendor, Edit, FetchFails, Render, Navigate, Scroll, Filter, pageVars
  <2>2. CASE Load
    BY <2>2 DEF Load
  <2>3. CASE boot \/ HashChange
    BY <2>3 DEF boot, HashChange, route, pageVars
  <2>4. CASE DeepLinkTimer
    BY <2>4 DEF DeepLinkTimer, Asked
  <2>q. QED BY <2>1, <2>2, <2>3, <2>4 DEF Next, Browser, Visitor
<1>q. QED BY <1>1, <1>2, NextShaped, NextAsked, PTL DEF Spec, TimerScrollsWhereAsked

=============================================================================
