--------------------------- MODULE DocsSiteProofs ---------------------------
(* Proofs that a site that carries its marker is one complete build, and that *)
(* every link of its documents opens what the author linked, for every set    *)
(* of trees, texts and names, and any number of builds, edits and interrupts. *)
(*                                                                            *)
(* Neither property says what a build under way has done so far, nor which    *)
(* tree its pages were rendered from: the invariant does, step by step, and   *)
(* keeps both for the finished site although the job is forgotten.            *)
EXTENDS DocsSite, FiniteSetTheorems, SequenceTheorems, TLAPS

-----------------------------------------------------------------------------
(* What a build has made of t, and of the documents collected from t0 *)

Job(t, t0) == Rendering(t, collect_docs(t0))

Rendered(t, t0) == collect_docs(t0) # <<>> /\ Range(collect_docs(t0)) \subseteq DOMAIN t

\* Every document has its page, and every document's page is its own.
HasDocs(j, site) ==
  /\ \A f \in DOMAIN site : site[f].kind = "doc" =>
       \E i \in DOMAIN j.docs : f = SitePath(j.docs[i]) /\ site[f] = DocPage(j, i)
  /\ \A i \in DOMAIN j.docs : /\ SitePath(j.docs[i]) \in DOMAIN site
                              /\ site[SitePath(j.docs[i])].kind = "doc"

\* Every linked directory has its listing; every listing is of a directory at or
\* below a linked one, and so are those of the directories in between.
HasListings(j, site) ==
  /\ \A f \in DOMAIN site : site[f].kind = "dir" =>
       /\ f = Index(f.dir) /\ site[f].from = AsDir(f.dir) /\ site[f].side = _sidebar(j.docs)
       /\ \E d \in j.dirs :
            /\ IsPrefix(d, f.dir)
            /\ \A n \in Len(d)..Len(f.dir) : Index(SubSeq(f.dir, 1, n)) \in DOMAIN site
  /\ \A d \in j.dirs : Index(d) \in DOMAIN site

HasCopies(j, site) ==
  /\ \A f \in DOMAIN site : site[f].kind = "asset" => f \in j.assets /\ site[f].from = f
  /\ \A f \in j.assets : f \in DOMAIN site /\ site[f].kind = "asset"

Kinds(site, S) == DOMAIN site \subseteq Place /\ \A f \in DOMAIN site : site[f].kind \in S

Complete(t, t0, site) ==
  /\ Rendered(t, t0) /\ Kinds(site, {"doc", "dir", "asset"})
  /\ HasDocs(Job(t, t0), site) /\ HasListings(Job(t, t0), site) /\ HasCopies(Job(t, t0), site)

BuildInv ==
  /\ pc # "idle" => ours
  /\ pc = "render" => out = Empty /\ \E t0 \in Trees : job.docs = collect_docs(t0) /\ collect_docs(t0) # <<>>
  /\ pc \in {"pages", "dirs", "assets", "verify"} =>
       \E t, t0 \in Trees :
         /\ Rendered(t, t0) /\ job = Job(t, t0)
         /\ pc = "pages" => out = Empty
         /\ pc = "dirs" => Kinds(out, {"doc"}) /\ HasDocs(job, out)
         /\ pc = "assets" => Kinds(out, {"doc", "dir"}) /\ HasDocs(job, out) /\ HasListings(job, out)
         /\ pc = "verify" => Complete(t, t0, out)
  /\ marked => verify_links(out) = {} /\ \E t, t0 \in Trees : Complete(t, t0, out)

SiteInv == TypeOK /\ BuildInv

-----------------------------------------------------------------------------
(* Sequences without repetition *)

\* InOrder lists a finite set, each member once.
LEMMA InOrderLists ==
  ASSUME NEW S, IsFiniteSet(S), NEW rank,
         \A x \in S : rank[x] \in Nat,
         \A x, y \in S : rank[x] = rank[y] => x = y
  PROVE  /\ InOrder(S, rank) \in Seq(S)
         /\ IsInjective(InOrder(S, rank))
         /\ Range(InOrder(S, rank)) = S
<1> DEFINE n == Cardinality(S)
           below(x) == {y \in S : rank[y] < rank[x]}
           c == [x \in S |-> Cardinality(below(x)) + 1]
<1>1. n \in Nat BY FS_CardinalityType
<1>2. \A x \in S : IsFiniteSet(below(x)) /\ Cardinality(below(x)) \in Nat
  <2> TAKE x \in S
  <2>1. below(x) \in SUBSET S OBVIOUS
  <2>2. IsFiniteSet(below(x)) BY <2>1, FS_Subset
  <2> QED BY <2>2, FS_CardinalityType
<1>3. \A x \in S : c[x] \in 1..n
  <2> TAKE x \in S
  <2>1. IsFiniteSet(S \ {x}) /\ Cardinality(S \ {x}) = n - 1 BY FS_RemoveElement
  <2>2. below(x) \in SUBSET (S \ {x}) OBVIOUS
  <2>3. Cardinality(below(x)) <= n - 1
    <3> HIDE DEF below, n
    <3> QED BY <2>1, <2>2, FS_Subset
  <2>4. c[x] = Cardinality(below(x)) + 1 OBVIOUS
  <2> HIDE DEF c, below, n
  <2> QED BY <1>1, <1>2, <2>3, <2>4
<1>4. \A x, y \in S : rank[x] < rank[y] => c[x] < c[y]
  <2> SUFFICES ASSUME NEW x \in S, NEW y \in S, rank[x] < rank[y] PROVE c[x] < c[y] OBVIOUS
  <2>1. below(x) \in SUBSET below(y) OBVIOUS
  <2>2. x \in below(y) /\ x \notin below(x) OBVIOUS
  <2>3. c[x] = Cardinality(below(x)) + 1 /\ c[y] = Cardinality(below(y)) + 1 OBVIOUS
  <2> HIDE DEF below, c
  <2>4. Cardinality(below(x)) <= Cardinality(below(y)) /\ Cardinality(below(x)) # Cardinality(below(y))
    BY <1>2, <2>1, <2>2, FS_Subset
  <2> QED BY <1>2, <2>3, <2>4
<1>5. \A x, y \in S : c[x] = c[y] => x = y
  <2> SUFFICES ASSUME NEW x \in S, NEW y \in S, x # y PROVE c[x] # c[y] OBVIOUS
  <2>1. rank[x] < rank[y] \/ rank[y] < rank[x] OBVIOUS
  <2>2. c[x] \in Nat /\ c[y] \in Nat
    <3> HIDE DEF c, n
    <3> QED BY <1>1, <1>3
  <2> HIDE DEF c
  <2> QED BY <1>4, <2>1, <2>2
<1>6. c \in Injection(S, 1..n)
  <2> HIDE DEF n
  <2> QED BY <1>3, <1>5 DEF Injection, IsInjective
<1>7. IsFiniteSet(1..n) /\ Cardinality(1..n) = n BY <1>1, FS_Interval
<1>8. c \in Surjection(S, 1..n)
  <2> HIDE DEF c, n
  <2>1. n = Cardinality(S) BY DEF n
  <2> QED BY <1>6, <1>7, <2>1, FS_Injection
<1>9. \A i \in 1..n : \E x \in S : c[x] = i
  <2> HIDE DEF c, n
  <2> QED BY <1>8 DEF Surjection
<1> DEFINE o == InOrder(S, rank)
<1>10. o = [i \in 1..n |-> CHOOSE x \in S : Cardinality(below(x)) = i - 1] BY DEF InOrder
<1>11. \A i \in 1..n : o[i] \in S /\ c[o[i]] = i
  <2> TAKE i \in 1..n
  <2>1. PICK x \in S : c[x] = i BY <1>9
  <2>2. Cardinality(below(x)) = i - 1
    <3>1. Cardinality(below(x)) + 1 = i BY <2>1
    <3> HIDE DEF below
    <3> QED BY <3>1, <1>2
  <2>3. o[i] = CHOOSE z \in S : Cardinality(below(z)) = i - 1 BY <1>10
  <2>4. o[i] \in S /\ Cardinality(below(o[i])) = i - 1
    <3> HIDE DEF below, o
    <3> QED BY <2>2, <2>3
  <2>5. c[o[i]] = Cardinality(below(o[i])) + 1 BY <2>4
  <2> HIDE DEF below, o, c, n
  <2> QED BY <2>4, <2>5, <1>1
<1> HIDE DEF o, c, n
<1>12. DOMAIN o = 1..n BY <1>10 DEF o
<1>13. o \in [1..n -> S] BY <1>10, <1>11, <1>12
<1>14. o \in Seq(S) BY <1>1, <1>13
<1>15. IsInjective(o) BY <1>11, <1>12 DEF IsInjective
<1>16. \A x \in S : x = o[c[x]] BY <1>3, <1>5, <1>11
<1>17. Range(o) = S BY <1>3, <1>11, <1>12, <1>16 DEF Range
<1> QED BY <1>14, <1>15, <1>17 DEF o

\* Two lists that share nothing make one list.
LEMMA ListsJoin ==
  ASSUME NEW S, NEW a \in Seq(S), NEW b \in Seq(S), IsInjective(a), IsInjective(b),
         \A x \in Range(a) : x \notin Range(b)
  PROVE  /\ a \o b \in Seq(S)
         /\ IsInjective(a \o b)
         /\ Range(a \o b) = Range(a) \cup Range(b)
<1>1. /\ a \o b \in Seq(S) /\ DOMAIN (a \o b) = 1..(Len(a) + Len(b)) /\ Len(a) \in Nat /\ Len(b) \in Nat
      /\ DOMAIN a = 1..Len(a) /\ DOMAIN b = 1..Len(b)
  BY ConcatProperties, LenProperties
<1>2. \A i \in 1..(Len(a) + Len(b)) : (a \o b)[i] = IF i <= Len(a) THEN a[i] ELSE b[i - Len(a)] BY ConcatProperties
<1>3. \A i \in DOMAIN a, k \in DOMAIN b : a[i] # b[k] BY DEF Range
<1>4. Range(a \o b) = Range(a) \cup Range(b) BY RangeConcatenation
<1>5. ASSUME NEW i \in DOMAIN (a \o b), NEW k \in DOMAIN (a \o b), (a \o b)[i] = (a \o b)[k] PROVE i = k
  <2>1. CASE i <= Len(a) /\ k <= Len(a)
    <3>1. i \in DOMAIN a /\ k \in DOMAIN a /\ a[i] = a[k] BY <1>1, <1>2, <1>5, <2>1
    <3> QED BY <3>1 DEF IsInjective
  <2>2. CASE i <= Len(a) /\ ~(k <= Len(a))
    <3>1. i \in DOMAIN a /\ (k - Len(a)) \in DOMAIN b /\ a[i] = b[k - Len(a)] BY <1>1, <1>2, <1>5, <2>2
    <3> QED BY <3>1, <1>3
  <2>3. CASE ~(i <= Len(a)) /\ k <= Len(a)
    <3>1. k \in DOMAIN a /\ (i - Len(a)) \in DOMAIN b /\ a[k] = b[i - Len(a)] BY <1>1, <1>2, <1>5, <2>3
    <3> QED BY <3>1, <1>3
  <2>4. CASE ~(i <= Len(a)) /\ ~(k <= Len(a))
    <3>1. (k - Len(a)) \in DOMAIN b /\ (i - Len(a)) \in DOMAIN b /\ b[i - Len(a)] = b[k - Len(a)] BY <1>1, <1>2, <1>5, <2>4
    <3>2. i - Len(a) = k - Len(a) BY <3>1 DEF IsInjective
    <3> QED BY <3>2, <1>1
  <2> QED BY <2>1, <2>2, <2>3, <2>4
<1>6. IsInjective(a \o b) BY <1>5 DEF IsInjective
<1> QED BY <1>1, <1>4, <1>6

-----------------------------------------------------------------------------
(* What is collected *)

LEMMA RanksOfNames ==
  \A m \in Names : RankOf(m) \in Nat /\ NameOrder[RankOf(m)] = m
<1> TAKE m \in Names
<1>1. \E i \in DOMAIN NameOrder : NameOrder[i] = m BY DEF Names, Range
<1>2. RankOf(m) \in DOMAIN NameOrder /\ NameOrder[RankOf(m)] = m BY <1>1 DEF RankOf
<1>3. DOMAIN NameOrder \subseteq Nat BY DocsAssumption DEF Repository
<1> QED BY <1>2, <1>3

LEMMA GlobLists ==
  ASSUME NEW t, IsFiniteSet(DOMAIN t), DOMAIN t \subseteq Place, NEW d
  PROVE  /\ GlobMd(t, d) \in Seq(DOMAIN t)
         /\ IsInjective(GlobMd(t, d))
         /\ Range(GlobMd(t, d)) = {f \in DOMAIN t : f.dir = d /\ f.ext = "md"}
<1> DEFINE S == {f \in DOMAIN t : f.dir = d /\ f.ext = "md"}
           rank == [f \in S |-> RankOf(f.name)]
<1>1. S \in SUBSET DOMAIN t OBVIOUS
<1>2. IsFiniteSet(S)
  <2> HIDE DEF S
  <2> QED BY <1>1, FS_Subset
<1>3. \A x \in S : x.name \in Names /\ x = [dir |-> d, name |-> x.name, ext |-> "md"] BY DEF Place
<1>4. \A x \in S : rank[x] \in Nat /\ NameOrder[rank[x]] = x.name
  <2>1. \A x \in S : rank[x] = RankOf(x.name) OBVIOUS
  <2> HIDE DEF S, rank
  <2> QED BY <2>1, <1>3, RanksOfNames
<1>5. \A x, y \in S : rank[x] = rank[y] => x = y
  <2> HIDE DEF S, rank
  <2> QED BY <1>3, <1>4
<1>6. GlobMd(t, d) = InOrder(S, rank) BY DEF GlobMd, Sorted
<1>7. InOrder(S, rank) \in Seq(S) /\ IsInjective(InOrder(S, rank)) /\ Range(InOrder(S, rank)) = S
  <2> HIDE DEF S, rank
  <2> QED BY <1>2, <1>4, <1>5, InOrderLists
<1>8. InOrder(S, rank) \in Seq(DOMAIN t)
  <2> HIDE DEF S, rank
  <2> QED BY <1>1, <1>7, SeqMonotonic
<1> QED BY <1>6, <1>7, <1>8

LEMMA OnlyLists ==
  ASSUME NEW t, NEW f
  PROVE  /\ Only(t, f) \in Seq(DOMAIN t)
         /\ IsInjective(Only(t, f))
         /\ Range(Only(t, f)) = {f} \cap DOMAIN t
<1>1. CASE f \in DOMAIN t
  <2>1. Only(t, f) = <<f>> BY <1>1 DEF Only
  <2>2. <<f>> \in Seq(DOMAIN t) /\ DOMAIN <<f>> = 1..1 /\ <<f>>[1] = f BY <1>1
  <2>3. Range(<<f>>) = {f} BY <2>2 DEF Range
  <2>4. IsInjective(<<f>>) BY <2>2 DEF IsInjective
  <2> QED BY <2>1, <2>2, <2>3, <2>4, <1>1
<1>2. CASE f \notin DOMAIN t
  <2>1. Only(t, f) = <<>> BY <1>2 DEF Only
  <2>2. <<>> \in Seq(DOMAIN t) /\ DOMAIN <<>> = {} OBVIOUS
  <2>3. Range(<<>>) = {} BY <2>2 DEF Range
  <2>4. IsInjective(<<>>) BY <2>2 DEF IsInjective
  <2> QED BY <2>1, <2>2, <2>3, <2>4, <1>2
<1> QED BY <1>1, <1>2

\* collect_docs lists files of the tree, Markdown only, no file twice.
LEMMA CollectsOnce ==
  ASSUME NEW t \in Trees
  PROVE  /\ collect_docs(t) \in Seq(DOMAIN t)
         /\ IsInjective(collect_docs(t))
         /\ \A f \in Range(collect_docs(t)) : f \in DOMAIN t /\ f \in Place /\ f.ext = "md"
<1>1. IsFiniteSet(DOMAIN t) /\ DOMAIN t \subseteq Place BY DocsAssumption DEF Repository
<1> DEFINE a == Only(t, README(<<>>))
           b == GlobMd(t, <<"docs">>)
           c == Only(t, README(<<"contracts">>))
           e == GlobMd(t, <<"contracts", "api">>)
<1>2. /\ <<>> # <<"docs">> /\ <<>> # <<"contracts">> /\ <<>> # <<"contracts", "api">>
      /\ <<"docs">> # <<"contracts">> /\ <<"docs">> # <<"contracts", "api">> /\ <<"contracts">> # <<"contracts", "api">>
  OBVIOUS
<1>3. a \in Seq(DOMAIN t) /\ IsInjective(a) /\ \A f \in Range(a) : f \in DOMAIN t /\ f.dir = <<>> /\ f.ext = "md"
  BY OnlyLists DEF README, File
<1>4. c \in Seq(DOMAIN t) /\ IsInjective(c) /\ \A f \in Range(c) : f \in DOMAIN t /\ f.dir = <<"contracts">> /\ f.ext = "md"
  BY OnlyLists DEF README, File
<1>5. b \in Seq(DOMAIN t) /\ IsInjective(b) /\ \A f \in Range(b) : f \in DOMAIN t /\ f.dir = <<"docs">> /\ f.ext = "md"
  <2>1. /\ b \in Seq(DOMAIN t) /\ IsInjective(b)
        /\ Range(b) = {f \in DOMAIN t : f.dir = <<"docs">> /\ f.ext = "md"}
    BY <1>1, GlobLists
  <2> HIDE DEF b
  <2> QED BY <2>1
<1>6. e \in Seq(DOMAIN t) /\ IsInjective(e) /\ \A f \in Range(e) : f \in DOMAIN t /\ f.dir = <<"contracts", "api">> /\ f.ext = "md"
  <2>1. /\ e \in Seq(DOMAIN t) /\ IsInjective(e)
        /\ Range(e) = {f \in DOMAIN t : f.dir = <<"contracts", "api">> /\ f.ext = "md"}
    BY <1>1, GlobLists
  <2> HIDE DEF e
  <2> QED BY <2>1
<1>7. collect_docs(t) = ((a \o b) \o c) \o e BY DEF collect_docs
<1> HIDE DEF a, b, c, e
<1> DEFINE ab == a \o b
           abc == ab \o c
           abce == abc \o e
<1>8. /\ ab \in Seq(DOMAIN t) /\ IsInjective(ab)
      /\ \A f \in Range(ab) : f \in DOMAIN t /\ f.dir \in {<<>>, <<"docs">>} /\ f.ext = "md"
  <2>1. \A x \in Range(a) : x \notin Range(b) BY <1>2, <1>3, <1>5
  <2>2. ab \in Seq(DOMAIN t) /\ IsInjective(ab) /\ Range(ab) = Range(a) \cup Range(b)
    BY <1>3, <1>5, <2>1, ListsJoin
  <2> HIDE DEF ab
  <2> QED BY <2>2, <1>3, <1>5
<1> HIDE DEF ab
<1>9. /\ abc \in Seq(DOMAIN t) /\ IsInjective(abc)
      /\ \A f \in Range(abc) : f \in DOMAIN t /\ f.dir \in {<<>>, <<"docs">>, <<"contracts">>} /\ f.ext = "md"
  <2>1. \A x \in Range(ab) : x \notin Range(c) BY <1>2, <1>8, <1>4
  <2>2. abc \in Seq(DOMAIN t) /\ IsInjective(abc) /\ Range(abc) = Range(ab) \cup Range(c)
    BY <1>8, <1>4, <2>1, ListsJoin
  <2> HIDE DEF abc
  <2> QED BY <2>2, <1>8, <1>4
<1> HIDE DEF abc
<1>10. /\ abce \in Seq(DOMAIN t) /\ IsInjective(abce)
       /\ \A f \in Range(abce) : f \in DOMAIN t /\ f.ext = "md"
  <2>1. \A x \in Range(abc) : x \notin Range(e) BY <1>2, <1>9, <1>6
  <2>2. abce \in Seq(DOMAIN t) /\ IsInjective(abce) /\ Range(abce) = Range(abc) \cup Range(e)
    BY <1>9, <1>6, <2>1, ListsJoin
  <2> HIDE DEF abce
  <2> QED BY <2>2, <1>9, <1>6
<1>11. collect_docs(t) = abce BY <1>7 DEF ab, abc
<1> HIDE DEF abce
<1> QED BY <1>1, <1>10, <1>11

-----------------------------------------------------------------------------
(* The sidebar *)

LEMMA GroupRanks ==
  /\ _group_rank("Overview") = 1 /\ _group_rank("Start-here") = 2 /\ _group_rank("D1") = 3
  /\ _group_rank("PRD-registers") = 4 /\ _group_rank("Contracts") = 5
  /\ _group_rank("API-contracts") = 6 /\ _group_rank("Documentation") = 7
<1>1. DOMAIN GROUP_ORDER = 1..5 /\ Len(GROUP_ORDER) = 5 BY DEF GROUP_ORDER
<1>2. /\ GROUP_ORDER[1] = "Overview" /\ GROUP_ORDER[2] = "Start-here" /\ GROUP_ORDER[3] = "D1"
      /\ GROUP_ORDER[4] = "PRD-registers" /\ GROUP_ORDER[5] = "Contracts"
  BY DEF GROUP_ORDER
<1>3. \A i : i \in DOMAIN GROUP_ORDER <=> i = 1 \/ i = 2 \/ i = 3 \/ i = 4 \/ i = 5 BY <1>1
<1>4. ASSUME NEW k \in DOMAIN GROUP_ORDER PROVE _group_rank(GROUP_ORDER[k]) = k
  <2>1. \A i \in DOMAIN GROUP_ORDER : GROUP_ORDER[i] = GROUP_ORDER[k] => i = k BY <1>2, <1>3
  <2> QED BY <2>1 DEF _group_rank
<1>5. _group_rank("API-contracts") = 6
  <2>1. ~\E i \in DOMAIN GROUP_ORDER : GROUP_ORDER[i] = "API-contracts" BY <1>2, <1>3
  <2>2. _group_rank("API-contracts") = Len(GROUP_ORDER) + 1 BY <2>1 DEF _group_rank
  <2> QED BY <1>1, <2>2
<1>6. _group_rank("Documentation") = 7
  <2>1. ~\E i \in DOMAIN GROUP_ORDER : GROUP_ORDER[i] = "Documentation" BY <1>2, <1>3
  <2>2. "Documentation" # "API-contracts" OBVIOUS
  <2>3. _group_rank("Documentation") = Len(GROUP_ORDER) + 2 BY <2>1, <2>2 DEF _group_rank
  <2> QED BY <1>1, <2>3
<1> QED BY <1>2, <1>3, <1>4, <1>5, <1>6

\* Every group has a rank of its own.
LEMMA RanksDiffer ==
  LET G == {"Overview", "Start-here", "D1", "PRD-registers", "Contracts", "API-contracts", "Documentation"}
  IN  \A g, h \in G : _group_rank(g) \in Nat /\ (_group_rank(g) = _group_rank(h) => g = h)
BY GroupRanks

LEMMA GroupsOfDocs ==
  \A f : _doc_group(f) \in {"Overview", "Start-here", "D1", "PRD-registers", "Contracts", "API-contracts", "Documentation"}
BY DEF _doc_group

\* Every document is listed in the sidebar.
LEMMA SidebarCovers ==
  ASSUME NEW S, NEW docs \in Seq(S), NEW i \in DOMAIN docs
  PROVE  \E k \in DOMAIN _sidebar(docs) : \E m \in DOMAIN _sidebar(docs)[k] : _sidebar(docs)[k][m] = docs[i]
<1> DEFINE groups == {_doc_group(docs[x]) : x \in DOMAIN docs}
           grank == [g \in groups |-> _group_rank(g)]
           order == InOrder(groups, grank)
           of(g) == {x \in DOMAIN docs : _doc_group(docs[x]) = g}
           own == [x \in DOMAIN docs |-> x]
           under(g) == InOrder(of(g), own)
           g0 == _doc_group(docs[i])
<1>1. DOMAIN docs = 1..Len(docs) /\ Len(docs) \in Nat BY LenProperties
<1>2. IsFiniteSet(DOMAIN docs) BY <1>1, FS_Interval
<1>3. IsFiniteSet(groups)
  <2> DEFINE h == [x \in DOMAIN docs |-> _doc_group(docs[x])]
  <2>1. h \in [DOMAIN docs -> groups] /\ \A g \in groups : \E x \in DOMAIN docs : h[x] = g OBVIOUS
  <2> HIDE DEF h, groups
  <2>2. h \in Surjection(DOMAIN docs, groups) BY <2>1 DEF Surjection
  <2> QED BY <1>2, <2>2, FS_Surjection
<1>4. groups \subseteq {"Overview", "Start-here", "D1", "PRD-registers", "Contracts", "API-contracts", "Documentation"}
  BY GroupsOfDocs
<1>5. \A g \in groups : grank[g] = _group_rank(g) OBVIOUS
<1>6. Range(order) = groups /\ order \in Seq(groups)
  <2> HIDE DEF groups, grank
  <2>1. \A g \in groups : grank[g] \in Nat BY <1>4, <1>5, RanksDiffer
  <2>2. \A g, h \in groups : grank[g] = grank[h] => g = h BY <1>4, <1>5, RanksDiffer
  <2> QED BY <1>3, <2>1, <2>2, InOrderLists
<1>7. of(g0) \in SUBSET DOMAIN docs /\ i \in of(g0) /\ g0 \in groups OBVIOUS
<1>8. Range(under(g0)) = of(g0)
  <2>1. \A x \in of(g0) : own[x] = x /\ x \in Nat BY <1>1
  <2> HIDE DEF of, own, g0
  <2>2. IsFiniteSet(of(g0)) BY <1>2, <1>7, FS_Subset
  <2>3. \A x, y \in of(g0) : own[x] = own[y] => x = y BY <2>1
  <2> QED BY <2>1, <2>2, <2>3, InOrderLists
<1>9. _sidebar(docs) = [k \in DOMAIN order |-> [m \in DOMAIN under(order[k]) |-> docs[under(order[k])[m]]]] BY DEF _sidebar
<1> HIDE DEF groups, grank, order, of, own, under, g0
<1>10. PICK k \in DOMAIN order : order[k] = g0 BY <1>6, <1>7 DEF Range
<1>11. PICK m \in DOMAIN under(g0) : under(g0)[m] = i BY <1>7, <1>8 DEF Range
<1>12. _sidebar(docs)[k] = [x \in DOMAIN under(g0) |-> docs[under(g0)[x]]] /\ k \in DOMAIN _sidebar(docs) BY <1>9, <1>10
<1> QED BY <1>11, <1>12

-----------------------------------------------------------------------------
(* Places and directories *)

LEMMA Placed ==
  ASSUME NEW f \in Place
  PROVE  /\ f.dir \in Seq(Names) /\ f.name \in Names
         /\ SitePath(f) \in Place /\ SitePath(f).dir = f.dir /\ SitePath(f).ext = "html"
         /\ SitePath(f).name = IF f.name = "README" THEN "index" ELSE f.name
<1>1. f.dir \in Seq(Names) /\ f.name \in Names /\ f.ext \in Exts BY DEF Place
<1>2. "index" \in Names /\ "html" \in Exts BY DocsAssumption DEF Repository
<1>3. SitePath(f) = [dir |-> f.dir, name |-> IF f.name = "README" THEN "index" ELSE f.name, ext |-> "html"] BY DEF SitePath, File
<1> QED BY <1>1, <1>2, <1>3 DEF Place

LEMMA IndexPlaced ==
  ASSUME NEW d \in Seq(Names)
  PROVE  /\ Index(d) \in Place /\ Index(d).dir = d /\ Index(d).name = "index" /\ Index(d).ext = "html"
         /\ README(d) \in Place /\ README(d).dir = d /\ README(d).name = "README" /\ README(d).ext = "md"
         /\ SitePath(README(d)) = Index(d)
<1>1. "index" \in Names /\ "html" \in Exts /\ "README" \in Names /\ "md" \in Exts BY DocsAssumption DEF Repository
<1> QED BY <1>1 DEF Index, README, File, SitePath, Place

\* A document's page has a path that no file and no other document's page has.
LEMMA PathsDiffer ==
  ASSUME NEW t \in Trees, NEW d \in DOMAIN t, d.ext = "md"
  PROVE  /\ SitePath(d) \notin DOMAIN t
         /\ \A f \in DOMAIN t : f.ext = "md" /\ SitePath(f) = SitePath(d) => f = d
<1>1. PagesDistinct(t) BY DocsAssumption DEF Repository
<1> QED BY <1>1 DEF PagesDistinct

LEMMA Starts ==
  ASSUME NEW d \in Seq(Names), NEW n \in 0..Len(d)
  PROVE  /\ SubSeq(d, 1, n) \in Seq(Names) /\ Len(SubSeq(d, 1, n)) = n
         /\ \A m \in 0..n : SubSeq(SubSeq(d, 1, n), 1, m) = SubSeq(d, 1, m)
<1>1. Len(d) \in Nat /\ \A i \in 1..n : d[i] \in Names BY LenProperties, ElementOfSeq
<1>2. /\ SubSeq(d, 1, n) \in Seq(Names) /\ Len(SubSeq(d, 1, n)) = n
      /\ \A i \in 1..n : SubSeq(d, 1, n)[i] = d[i]
  <2>1. /\ SubSeq(d, 1, n) \in Seq(Names) /\ Len(SubSeq(d, 1, n)) = IF 1 <= n THEN n - 1 + 1 ELSE 0
        /\ \A i \in 1 .. n - 1 + 1 : SubSeq(d, 1, n)[i] = d[1 + i - 1]
    BY <1>1, SubSeqProperties
  <2> QED BY <2>1, <1>1
<1>3. ASSUME NEW m \in 0..n PROVE SubSeq(SubSeq(d, 1, n), 1, m) = SubSeq(d, 1, m)
  <2> DEFINE s == SubSeq(d, 1, n)
  <2>1. \A i \in 1..m : s[i] = d[i] /\ s[i] \in Names BY <1>1, <1>2
  <2>2. /\ SubSeq(s, 1, m) \in Seq(Names) /\ Len(SubSeq(s, 1, m)) = m /\ \A i \in 1..m : SubSeq(s, 1, m)[i] = s[i]
    <3> HIDE DEF s
    <3>1. /\ SubSeq(s, 1, m) \in Seq(Names) /\ Len(SubSeq(s, 1, m)) = IF 1 <= m THEN m - 1 + 1 ELSE 0
          /\ \A i \in 1 .. m - 1 + 1 : SubSeq(s, 1, m)[i] = s[1 + i - 1]
      BY <2>1, SubSeqProperties
    <3> QED BY <3>1
  <2>3. /\ SubSeq(d, 1, m) \in Seq(Names) /\ Len(SubSeq(d, 1, m)) = m /\ \A i \in 1..m : SubSeq(d, 1, m)[i] = d[i]
    <3>1. \A i \in 1..m : d[i] \in Names BY <1>1
    <3>2. /\ SubSeq(d, 1, m) \in Seq(Names) /\ Len(SubSeq(d, 1, m)) = IF 1 <= m THEN m - 1 + 1 ELSE 0
          /\ \A i \in 1 .. m - 1 + 1 : SubSeq(d, 1, m)[i] = d[1 + i - 1]
      BY <3>1, SubSeqProperties
    <3> QED BY <3>2
  <2> HIDE DEF s
  <2>4. Len(SubSeq(s, 1, m)) = Len(SubSeq(d, 1, m)) /\ \A i \in 1..Len(SubSeq(s, 1, m)) : SubSeq(s, 1, m)[i] = SubSeq(d, 1, m)[i]
    BY <2>1, <2>2, <2>3
  <2>5. SubSeq(s, 1, m) = SubSeq(d, 1, m) BY <2>2, <2>3, <2>4, SeqEqual
  <2> QED BY <2>5 DEF s
<1> QED BY <1>2, <1>3

LEMMA PrefixStarts ==
  ASSUME NEW d \in Seq(Names), NEW e \in Seq(Names)
  PROVE  /\ IsPrefix(d, e) => Len(d) \in 0..Len(e) /\ d = SubSeq(e, 1, Len(d))
         /\ \A n \in 0..Len(e) : d = SubSeq(e, 1, n) => IsPrefix(d, e) /\ Len(d) = n
<1>1. Len(d) \in Nat /\ Len(e) \in Nat /\ SubSeq(d, 1, Len(d)) = d BY LenProperties, SubSeqFull
<1>2. IsPrefix(d, e) => Len(d) \in 0..Len(e) /\ d = SubSeq(e, 1, Len(d)) BY <1>1 DEF IsPrefix
<1>3. ASSUME NEW n \in 0..Len(e), d = SubSeq(e, 1, n) PROVE IsPrefix(d, e) /\ Len(d) = n
  <2>1. Len(SubSeq(e, 1, n)) = n BY Starts
  <2>2. Len(d) = n BY <1>3, <2>1
  <2> QED BY <1>1, <1>3, <2>2 DEF IsPrefix
<1> QED BY <1>2, <1>3

LEMMA DirsClosed ==
  ASSUME NEW files, files \subseteq Place
  PROVE  /\ \A f \in files : f.dir \in Dirs(files)
         /\ \A d \in Dirs(files) : d \in Seq(Names) /\ \A n \in 0..Len(d) : SubSeq(d, 1, n) \in Dirs(files)
         /\ \A d \in Dirs(files) : \E f \in files : \E n \in 0..Len(f.dir) : d = SubSeq(f.dir, 1, n)
<1>1. \A d : d \in Dirs(files) <=> \E f \in files : \E n \in 0..Len(f.dir) : d = SubSeq(f.dir, 1, n) BY DEF Dirs
<1>2. \A f \in files : f.dir \in Seq(Names) BY Placed
<1>3. ASSUME NEW f \in files PROVE f.dir \in Dirs(files)
  <2>1. Len(f.dir) \in 0..Len(f.dir) /\ f.dir = SubSeq(f.dir, 1, Len(f.dir)) BY <1>2, SubSeqFull, LenProperties
  <2> QED BY <1>1, <2>1
<1>4. ASSUME NEW d \in Dirs(files) PROVE d \in Seq(Names) /\ \A n \in 0..Len(d) : SubSeq(d, 1, n) \in Dirs(files)
  <2>1. PICK f \in files : \E m \in 0..Len(f.dir) : d = SubSeq(f.dir, 1, m) BY <1>1
  <2>2. PICK m \in 0..Len(f.dir) : d = SubSeq(f.dir, 1, m) BY <2>1
  <2>3. f.dir \in Seq(Names) BY <1>2
  <2>4. d \in Seq(Names) /\ Len(d) = m /\ \A n \in 0..m : SubSeq(d, 1, n) = SubSeq(f.dir, 1, n) BY <2>2, <2>3, Starts
  <2>5. ASSUME NEW n \in 0..Len(d) PROVE SubSeq(d, 1, n) \in Dirs(files)
    <3>1. n \in 0..Len(f.dir) BY <2>2, <2>3, <2>4, LenProperties
    <3>2. SubSeq(d, 1, n) = SubSeq(f.dir, 1, n) BY <2>4
    <3> QED BY <1>1, <3>1, <3>2
  <2> QED BY <2>4, <2>5
<1> QED BY <1>1, <1>3, <1>4

\* Between a linked directory and a listed one below it every directory is listed.
LEMMA ListedBetween ==
  ASSUME NEW files, files \subseteq Place, NEW ds, ds \subseteq Seq(Names),
         NEW e \in AllDirs(ds, Dirs(files), MaxDirDepth)
  PROVE  /\ e \in Seq(Names)
         /\ \E d \in ds : /\ IsPrefix(d, e) /\ Len(d) \in 0..Len(e) /\ d = SubSeq(e, 1, Len(d))
                          /\ \A n \in Len(d)..Len(e) : SubSeq(e, 1, n) \in AllDirs(ds, Dirs(files), MaxDirDepth)
<1> DEFINE listed == AllDirs(ds, Dirs(files), MaxDirDepth)
<1>1. \A x : x \in listed <=> x \in ds \/ (x \in Dirs(files) /\ \E d \in ds : IsPrefix(d, x) /\ Len(x) <= Len(d) + MaxDirDepth)
  BY DEF AllDirs
<1>2. MaxDirDepth \in Nat BY DocsAssumption DEF Repository
<1> HIDE DEF listed
<1>3. e \in listed BY DEF listed
<1>4. CASE e \in ds
  <2>1. e \in Seq(Names) /\ Len(e) \in Nat /\ e = SubSeq(e, 1, Len(e)) BY <1>4, LenProperties, SubSeqFull
  <2>2. IsPrefix(e, e) BY <2>1 DEF IsPrefix
  <2>3. \A n \in Len(e)..Len(e) : SubSeq(e, 1, n) \in listed
    <3>0. Len(e) \in Nat BY <2>1
    <3>1. \A n \in Len(e)..Len(e) : n = Len(e) BY <3>0
    <3>2. SubSeq(e, 1, Len(e)) \in listed BY <1>3, <2>1, Zenon
    <3> QED BY <3>1, <3>2, Zenon
  <2> QED BY <1>4, <2>1, <2>2, <2>3 DEF listed
<1>5. CASE e \notin ds
  <2>1. PICK d \in ds : IsPrefix(d, e) /\ Len(e) <= Len(d) + MaxDirDepth BY <1>1, <1>3, <1>5
  <2>2. e \in Dirs(files) BY <1>1, <1>3, <1>5
  <2>3. e \in Seq(Names) /\ \A n \in 0..Len(e) : SubSeq(e, 1, n) \in Dirs(files) BY <2>2, DirsClosed
  <2>4. d \in Seq(Names) /\ Len(d) \in Nat /\ Len(e) \in Nat BY <2>3, LenProperties
  <2>5. Len(d) \in 0..Len(e) /\ d = SubSeq(e, 1, Len(d)) BY <2>1, <2>3, <2>4, PrefixStarts
  <2>6. ASSUME NEW n \in Len(d)..Len(e) PROVE SubSeq(e, 1, n) \in listed
    <3>1. n \in 0..Len(e) /\ Len(d) \in 0..n BY <2>4, <2>5
    <3>2. SubSeq(e, 1, n) \in Seq(Names) /\ Len(SubSeq(e, 1, n)) = n /\ SubSeq(SubSeq(e, 1, n), 1, Len(d)) = SubSeq(e, 1, Len(d))
      BY <2>3, <3>1, Starts
    <3>3. d = SubSeq(SubSeq(e, 1, n), 1, Len(d)) BY <2>5, <3>2
    <3>4. IsPrefix(d, SubSeq(e, 1, n))
      <4>1. Len(d) \in 0..Len(SubSeq(e, 1, n)) BY <3>1, <3>2
      <4> QED BY <2>4, <3>2, <3>3, <4>1, PrefixStarts
    <3>5. Len(SubSeq(e, 1, n)) <= Len(d) + MaxDirDepth BY <1>2, <2>1, <2>4, <3>1, <3>2
    <3>6. SubSeq(e, 1, n) \in Dirs(files) BY <2>3, <3>1
    <3> QED BY <1>1, <3>4, <3>5, <3>6
  <2> QED BY <2>1, <2>3, <2>5, <2>6 DEF listed
<1> QED BY <1>4, <1>5

-----------------------------------------------------------------------------
(* What a rendering asks for *)

\* A link asks for a directory that is there and has no page of its own, and for
\* a file that is there.
LEMMA RewriteAsks ==
  ASSUME NEW t, NEW md, NEW l
  PROVE  /\ \A d \in rewrite(t, md, l).dirs : d \in Dirs(DOMAIN t) /\ README(d) \notin md
         /\ \A f \in rewrite(t, md, l).assets : f \in DOMAIN t
<1>1. CASE ~l.dir
  <2> DEFINE f == l.to
             dest == IF f \in DOMAIN t THEN f ELSE [f EXCEPT !.ext = "md"]
  <2>1. rewrite(t, md, l) = RewriteFile(t, md, f) BY <1>1 DEF rewrite
  <2>2. \/ rewrite(t, md, l).dirs = {} /\ rewrite(t, md, l).assets = {}
        \/ dest \in DOMAIN t /\ rewrite(t, md, l).dirs = {} /\ rewrite(t, md, l).assets = {dest}
    <3>1. CASE dest \notin DOMAIN t
      <4>1. RewriteFile(t, md, f) = Plain(ToFile(f)) BY <3>1 DEF RewriteFile
      <4> QED BY <2>1, <4>1 DEF Plain
    <3>2. CASE dest \in DOMAIN t /\ dest.ext = "md"
      <4>1. RewriteFile(t, md, f) = Plain(ToFile(IF dest \in md THEN SitePath(dest) ELSE f)) BY <3>2 DEF RewriteFile
      <4> QED BY <2>1, <4>1 DEF Plain
    <3>3. CASE dest \in DOMAIN t /\ dest.ext # "md"
      <4>1. RewriteFile(t, md, f) = [href |-> ToFile(dest), dirs |-> {}, assets |-> {dest}] BY <3>3 DEF RewriteFile
      <4> QED BY <2>1, <3>3, <4>1
    <3> QED BY <3>1, <3>2, <3>3
  <2> HIDE DEF dest, f
  <2> QED BY <2>2
<1>2. CASE l.dir /\ l.to.dir \in Dirs(DOMAIN t)
  <2>1. rewrite(t, md, l) = RewriteDir(t, md, l) BY <1>2 DEF rewrite
  <2>2. CASE README(l.to.dir) \in md
    <3>1. rewrite(t, md, l) = Plain(ToFile(SitePath(README(l.to.dir)))) BY <2>1, <2>2 DEF RewriteDir
    <3> QED BY <3>1 DEF Plain
  <2>3. CASE README(l.to.dir) \notin md
    <3>1. rewrite(t, md, l).dirs = {l.to.dir} /\ rewrite(t, md, l).assets = {} BY <2>1, <2>3 DEF RewriteDir
    <3> QED BY <1>2, <2>3, <3>1
  <2> QED BY <2>2, <2>3
<1>3. CASE l.dir /\ l.to.dir \notin Dirs(DOMAIN t)
  <2>1. rewrite(t, md, l) = Plain(ToDir(l.to.dir)) BY <1>3 DEF rewrite
  <2> QED BY <2>1 DEF Plain
<1> QED BY <1>1, <1>2, <1>3

\* The job of a build: what it asks for is what its documents' links ask for.
LEMMA JobIs ==
  ASSUME NEW t \in Trees, NEW t0 \in Trees, Rendered(t, t0)
  PROVE  LET j == Job(t, t0)
             docs == collect_docs(t0)
         IN  /\ j.docs = docs /\ docs \in Seq(DOMAIN t0) /\ docs # <<>> /\ IsInjective(docs)
             /\ DOMAIN docs = 1..Len(docs) /\ Len(docs) \in Nat /\ Len(docs) # 0
             /\ \A i \in DOMAIN docs : docs[i] \in DOMAIN t /\ docs[i] \in Place /\ docs[i].ext = "md"
             /\ j.dirs \subseteq Dirs(DOMAIN t) /\ j.dirs \subseteq Seq(Names) /\ j.assets \subseteq DOMAIN t
             /\ \A d \in j.dirs : README(d) \notin Range(docs)
             /\ \A i \in DOMAIN docs : \A l \in LinksOf[t[docs[i]]] :
                  rewrite(t, Range(docs), l).dirs \subseteq j.dirs /\ rewrite(t, Range(docs), l).assets \subseteq j.assets
             /\ \A i \in DOMAIN docs :
                  /\ j.rendered[i].links = {[link |-> l, href |-> rewrite(t, Range(docs), l).href] : l \in LinksOf[t[docs[i]]]}
                  /\ j.rendered[i].ids = IdsOf[t[docs[i]]]
<1> DEFINE docs == collect_docs(t0)
           md == Range(docs)
           j == Job(t, t0)
           links == UNION {LinksOf[t[d]] : d \in md}
<1>1. /\ j.docs = docs
      /\ j.dirs = UNION {rewrite(t, md, l).dirs : l \in links}
      /\ j.assets = UNION {rewrite(t, md, l).assets : l \in links}
      /\ j.rendered = [i \in DOMAIN docs |-> [links |-> {[link |-> l, href |-> rewrite(t, md, l).href] : l \in LinksOf[t[docs[i]]]},
                                              ids |-> IdsOf[t[docs[i]]]]]
  BY DEF Job, Rendering
<1>2. /\ docs \in Seq(DOMAIN t0) /\ IsInjective(docs) /\ \A f \in md : f \in DOMAIN t0 /\ f \in Place /\ f.ext = "md"
  BY CollectsOnce
<1>3. docs # <<>> /\ (\A f \in md : f \in DOMAIN t) BY DEF Rendered
<1>4. DOMAIN t \subseteq Place BY DocsAssumption DEF Repository
<1>5. \A d \in Dirs(DOMAIN t) : d \in Seq(Names) BY <1>4, DirsClosed
<1> HIDE DEF docs, j
<1>6. DOMAIN docs = 1..Len(docs) /\ Len(docs) \in Nat BY <1>2, LenProperties
<1>7. Len(docs) # 0
  <2>1. docs \in Seq(DOMAIN t0) /\ docs # <<>> BY <1>2, <1>3
  <2> QED BY <2>1, EmptySeq
<1>8. \A i \in DOMAIN docs : docs[i] \in md BY DEF Range
<1> HIDE DEF md
<1>9. \A l : /\ \A d \in rewrite(t, md, l).dirs : d \in Dirs(DOMAIN t) /\ README(d) \notin md
             /\ \A f \in rewrite(t, md, l).assets : f \in DOMAIN t
  BY RewriteAsks
<1>10. /\ \A d \in j.dirs : d \in Dirs(DOMAIN t) /\ README(d) \notin md
       /\ \A f \in j.assets : f \in DOMAIN t
  BY <1>1, <1>9
<1>11. ASSUME NEW i \in DOMAIN docs, NEW l \in LinksOf[t[docs[i]]]
       PROVE  rewrite(t, md, l).dirs \subseteq j.dirs /\ rewrite(t, md, l).assets \subseteq j.assets
  <2>1. l \in links BY <1>8
  <2> QED BY <1>1, <2>1
<1>12. \A i \in DOMAIN docs : /\ j.rendered[i].links = {[link |-> l, href |-> rewrite(t, md, l).href] : l \in LinksOf[t[docs[i]]]}
                              /\ j.rendered[i].ids = IdsOf[t[docs[i]]]
  BY <1>1
<1>13. \A i \in DOMAIN docs : docs[i] \in DOMAIN t /\ docs[i] \in Place /\ docs[i].ext = "md" BY <1>2, <1>3, <1>8
<1>14. j.dirs \subseteq Dirs(DOMAIN t) /\ j.dirs \subseteq Seq(Names) /\ j.assets \subseteq DOMAIN t BY <1>5, <1>10
<1>15. /\ j.docs = docs /\ docs \in Seq(DOMAIN t0) /\ docs # <<>> /\ IsInjective(docs) BY <1>1, <1>2, <1>3
<1> QED BY <1>6, <1>7, <1>10, <1>11, <1>12, <1>13, <1>14, <1>15 DEF j, docs, md

-----------------------------------------------------------------------------
(* What each step of a build has done *)

LEMMA DocPageIs ==
  ASSUME NEW j, NEW i
  PROVE  /\ DocPage(j, i).from = j.docs[i] /\ DocPage(j, i).kind = "doc" /\ DocPage(j, i).links = j.rendered[i].links
         /\ DocPage(j, i).ids = j.rendered[i].ids /\ DocPage(j, i).toc = _toc(j.rendered[i].ids)
         /\ DocPage(j, i).side = _sidebar(j.docs) /\ DocPage(j, i).pager = _pager(j.docs[i], j.docs)
BY DEF DocPage, page_html

LEMMA PagesOnce ==
  ASSUME NEW t \in Trees, NEW t0 \in Trees, Rendered(t, t0)
  PROVE  LET docs == collect_docs(t0)
         IN  \A i, k \in DOMAIN docs : SitePath(docs[i]) = SitePath(docs[k]) => i = k
<1> DEFINE docs == collect_docs(t0)
<1>1. IsInjective(docs) /\ \A i \in DOMAIN docs : docs[i] \in DOMAIN t /\ docs[i] \in Place /\ docs[i].ext = "md" BY JobIs
<1> HIDE DEF docs
<1>2. ASSUME NEW i \in DOMAIN docs, NEW k \in DOMAIN docs, SitePath(docs[i]) = SitePath(docs[k]) PROVE i = k
  <2>1. docs[i] = docs[k] BY <1>1, <1>2, PathsDiffer
  <2> QED BY <1>1, <2>1 DEF IsInjective
<1> QED BY <1>2 DEF docs

LEMMA PagesDone ==
  ASSUME NEW t \in Trees, NEW t0 \in Trees, Rendered(t, t0), NEW j, j = Job(t, t0), NEW site,
         site = Over([f \in {SitePath(d) : d \in Range(j.docs)} |-> DocPage(j, Max({i \in DOMAIN j.docs : SitePath(j.docs[i]) = f}))], Empty)
  PROVE  Kinds(site, {"doc"}) /\ HasDocs(j, site)
<1> DEFINE docs == collect_docs(t0)
           paths == {SitePath(d) : d \in Range(docs)}
           at(f) == Max({i \in DOMAIN docs : SitePath(docs[i]) = f})
<1>1. j.docs = docs /\ DOMAIN docs = 1..Len(docs) /\ Len(docs) \in Nat /\ \A i \in DOMAIN docs : docs[i] \in Place BY JobIs
<1>2. \A i, k \in DOMAIN docs : SitePath(docs[i]) = SitePath(docs[k]) => i = k BY PagesOnce
<1>3. DOMAIN Empty = {} BY DEF Empty
<1>4. DOMAIN site = paths /\ \A f \in paths : site[f] = DocPage(j, at(f)) BY <1>1, <1>3 DEF Over
<1> HIDE DEF docs
<1>5. \A f : f \in paths <=> \E i \in DOMAIN docs : f = SitePath(docs[i]) BY DEF Range
<1> HIDE DEF paths
<1>6. ASSUME NEW i \in DOMAIN docs PROVE at(SitePath(docs[i])) = i
  <2>1. {k \in DOMAIN docs : SitePath(docs[k]) = SitePath(docs[i])} = {i} BY <1>2
  <2>2. i \in Nat BY <1>1
  <2>3. Max({i}) = i BY <2>2 DEF Max
  <2> QED BY <2>1, <2>3
<1> HIDE DEF at
<1>7. ASSUME NEW i \in DOMAIN docs
      PROVE  SitePath(docs[i]) \in DOMAIN site /\ site[SitePath(docs[i])] = DocPage(j, i)
  <2>1. SitePath(docs[i]) \in paths BY <1>5
  <2>2. site[SitePath(docs[i])] = DocPage(j, at(SitePath(docs[i]))) BY <1>4, <2>1
  <2> QED BY <1>4, <1>6, <2>1, <2>2
<1>8. \A i : DocPage(j, i).kind = "doc" BY DocPageIs
<1>9. ASSUME NEW f \in DOMAIN site
      PROVE  /\ f \in Place /\ site[f].kind = "doc"
             /\ \E i \in DOMAIN docs : f = SitePath(docs[i]) /\ site[f] = DocPage(j, i)
  <2>1. PICK i \in DOMAIN docs : f = SitePath(docs[i]) BY <1>4, <1>5
  <2>2. docs[i] \in Place BY <1>1
  <2>3. f \in Place BY <2>1, <2>2, Placed
  <2>4. site[f] = DocPage(j, i) BY <1>7, <2>1
  <2> QED BY <1>8, <2>1, <2>3, <2>4
<1>10. Kinds(site, {"doc"}) BY <1>9 DEF Kinds
<1>11. HasDocs(j, site) BY <1>1, <1>7, <1>8, <1>9 DEF HasDocs
<1> QED BY <1>10, <1>11

\* No listing replaces a document's page: where an index page is rendered, the
\* directories above it have READMEs, and no listing is asked for.
LEMMA ListingsDone ==
  ASSUME NEW t \in Trees, NEW t0 \in Trees, Rendered(t, t0), NEW j, j = Job(t, t0), NEW now \in Trees,
         NEW site, Kinds(site, {"doc"}), HasDocs(j, site),
         NEW more, more = Over(generate_dir_indexes(now, j), site)
  PROVE  Kinds(more, {"doc", "dir"}) /\ HasDocs(j, more) /\ HasListings(j, more)
<1> DEFINE docs == collect_docs(t0)
           listed == AllDirs(j.dirs, Dirs(DOMAIN now), MaxDirDepth)
           new == {Index(d) : d \in listed}
<1>1. /\ j.docs = docs /\ j.dirs \subseteq Seq(Names)
      /\ \A d \in j.dirs : README(d) \notin Range(docs)
      /\ \A i \in DOMAIN docs : docs[i] \in Place
  BY JobIs
<1>2. DOMAIN now \subseteq Place BY DocsAssumption DEF Repository
<1>3. IndexesNest(t0) BY DocsAssumption DEF Repository
<1>4. /\ DOMAIN more = new \cup DOMAIN site
      /\ \A f \in new : /\ more[f].kind = "dir" /\ more[f].from = AsDir(f.dir) /\ more[f].side = _sidebar(docs)
      /\ \A f \in DOMAIN site : f \notin new => more[f] = site[f]
  <2> DEFINE g == generate_dir_indexes(now, j)
  <2>1. g = [f \in new |-> page_html(AsDir(f.dir), "dir", _dir_index_body(now, f.dir, listed, Range(j.docs), j.assets), {}, <<>>, j.docs)]
    BY DEF generate_dir_indexes
  <2>2. DOMAIN g = new /\ \A f \in new : g[f].kind = "dir" /\ g[f].from = AsDir(f.dir) /\ g[f].side = _sidebar(docs)
    <3> HIDE DEF new, g, docs
    <3> QED BY <1>1, <2>1 DEF page_html
  <2> HIDE DEF g, new
  <2>3. /\ DOMAIN Over(g, site) = new \cup DOMAIN site
        /\ \A f \in new \cup DOMAIN site : Over(g, site)[f] = IF f \in new THEN g[f] ELSE site[f]
    BY <2>2 DEF Over
  <2>4. more = Over(g, site) BY DEF g
  <2> QED BY <2>2, <2>3, <2>4
<1>5. \A d \in listed : /\ d \in Seq(Names)
                        /\ \E e \in j.dirs : /\ IsPrefix(e, d) /\ Len(e) \in 0..Len(d) /\ e = SubSeq(d, 1, Len(e))
                                             /\ \A n \in Len(e)..Len(d) : SubSeq(d, 1, n) \in listed
  <2> TAKE d \in listed
  <2>1. d \in AllDirs(j.dirs, Dirs(DOMAIN now), MaxDirDepth) OBVIOUS
  <2>2. j.dirs \subseteq Seq(Names) BY <1>1
  <2> QED BY <1>2, <2>1, <2>2, ListedBetween
<1>6. \A d \in j.dirs : d \in listed BY DEF AllDirs
<1> HIDE DEF listed, docs
<1>7. \A f \in new : \E d \in listed : f = Index(d) OBVIOUS
<1>8. \A d \in listed : Index(d) \in new OBVIOUS
<1> HIDE DEF new
<1>9. ASSUME NEW i \in DOMAIN docs PROVE SitePath(docs[i]) \notin new
  <2> SUFFICES ASSUME SitePath(docs[i]) \in new PROVE FALSE OBVIOUS
  <2>1. PICK d \in listed : SitePath(docs[i]) = Index(d) BY <1>7
  <2>2. d \in Seq(Names) /\ Len(d) \in Nat BY <1>5, LenProperties
  <2>3. SitePath(docs[i]).name = "index" /\ SitePath(docs[i]).dir = d BY <2>1, <2>2, IndexPlaced
  <2>4. docs[i] \in Place BY <1>1
  <2>5. docs[i].dir = d BY <2>3, <2>4, Placed
  <2>6. PICK e \in j.dirs : Len(e) \in 0..Len(d) /\ e = SubSeq(d, 1, Len(e)) BY <1>5
  <2>7. \A n \in 0..Len(docs[i].dir) : README(SubSeq(docs[i].dir, 1, n)) \in Range(docs)
    BY <1>3, <2>3 DEF IndexesNest, docs
  <2>8. README(SubSeq(d, 1, Len(e))) \in Range(docs) BY <2>5, <2>6, <2>7
  <2>9. README(e) \in Range(docs) BY <2>6, <2>8
  <2> QED BY <1>1, <2>9
<1>10. Kinds(more, {"doc", "dir"})
  <2>1. \A f \in new : f \in Place /\ more[f].kind = "dir"
    <3> TAKE f \in new
    <3>1. PICK d \in listed : f = Index(d) BY <1>7
    <3>2. d \in Seq(Names) BY <1>5
    <3> QED BY <1>4, <3>1, <3>2, IndexPlaced
  <2>2. \A f \in DOMAIN site : f \in Place /\ (f \notin new => more[f].kind = "doc") BY <1>4 DEF Kinds
  <2> QED BY <1>4, <2>1, <2>2 DEF Kinds
<1>11. \A f \in DOMAIN more : more[f].kind = "doc" => f \in DOMAIN site /\ f \notin new
  <2>1. "dir" # "doc" OBVIOUS
  <2> QED BY <1>4, <2>1
<1>12. \A f \in DOMAIN more : more[f].kind = "dir" => f \in new
  <2>1. \A f \in DOMAIN site : site[f].kind = "doc" BY DEF Kinds
  <2>2. "dir" # "doc" OBVIOUS
  <2> QED BY <1>4, <2>1, <2>2
<1>13. HasDocs(j, more)
  <2>1. ASSUME NEW f \in DOMAIN more, more[f].kind = "doc"
        PROVE  \E i \in DOMAIN j.docs : f = SitePath(j.docs[i]) /\ more[f] = DocPage(j, i)
    <3>1. f \in DOMAIN site /\ more[f] = site[f] BY <1>4, <1>11, <2>1
    <3>2. site[f].kind = "doc" BY <2>1, <3>1
    <3> QED BY <3>1, <3>2 DEF HasDocs
  <2>2. ASSUME NEW i \in DOMAIN j.docs
        PROVE  SitePath(j.docs[i]) \in DOMAIN more /\ more[SitePath(j.docs[i])].kind = "doc"
    <3>1. SitePath(j.docs[i]) \notin new BY <1>1, <1>9
    <3>2. SitePath(j.docs[i]) \in DOMAIN site /\ site[SitePath(j.docs[i])].kind = "doc" BY DEF HasDocs
    <3> QED BY <1>4, <3>1, <3>2
  <2> QED BY <2>1, <2>2 DEF HasDocs
<1>14. HasListings(j, more)
  <2>1. ASSUME NEW f \in DOMAIN more, more[f].kind = "dir"
        PROVE  /\ f = Index(f.dir) /\ more[f].from = AsDir(f.dir) /\ more[f].side = _sidebar(j.docs)
               /\ \E d \in j.dirs : /\ IsPrefix(d, f.dir)
                                    /\ \A n \in Len(d)..Len(f.dir) : Index(SubSeq(f.dir, 1, n)) \in DOMAIN more
    <3>1. f \in new BY <1>12, <2>1
    <3>2. PICK d \in listed : f = Index(d) BY <1>7, <3>1
    <3>3. d \in Seq(Names) BY <1>5
    <3>4. f.dir = d BY <3>2, <3>3, IndexPlaced
    <3>5. PICK e \in j.dirs : IsPrefix(e, d) /\ \A n \in Len(e)..Len(d) : SubSeq(d, 1, n) \in listed BY <1>5
    <3>6. \A n \in Len(e)..Len(d) : Index(SubSeq(d, 1, n)) \in DOMAIN more BY <1>4, <1>8, <3>5
    <3> QED BY <1>1, <1>4, <3>1, <3>2, <3>4, <3>5, <3>6
  <2>2. \A d \in j.dirs : Index(d) \in DOMAIN more BY <1>4, <1>6, <1>8
  <2> QED BY <2>1, <2>2 DEF HasListings
<1> QED BY <1>10, <1>13, <1>14

\* No copy replaces a page of a document.
LEMMA CopiesDone ==
  ASSUME NEW t \in Trees, NEW t0 \in Trees, Rendered(t, t0), NEW j, j = Job(t, t0),
         NEW site, Kinds(site, {"doc", "dir"}), HasDocs(j, site), HasListings(j, site),
         NEW more, more = Over(Copies(j.assets), site)
  PROVE  Complete(t, t0, more)
<1> DEFINE docs == collect_docs(t0)
<1>1. /\ j.docs = docs /\ j.assets \subseteq DOMAIN t
      /\ \A i \in DOMAIN docs : docs[i] \in DOMAIN t /\ docs[i].ext = "md"
  BY JobIs
<1>2. DOMAIN t \subseteq Place BY DocsAssumption DEF Repository
<1> HIDE DEF docs
<1>3. /\ DOMAIN more = j.assets \cup DOMAIN site
      /\ \A f \in j.assets : more[f].kind = "asset" /\ more[f].from = f
      /\ \A f \in DOMAIN site : f \notin j.assets => more[f] = site[f]
  <2> DEFINE g == Copies(j.assets)
  <2>1. DOMAIN g = j.assets /\ \A f \in j.assets : g[f].kind = "asset" /\ g[f].from = f BY DEF Copies
  <2>2. more = Over(g, site) OBVIOUS
  <2> HIDE DEF g
  <2>3. /\ DOMAIN Over(g, site) = j.assets \cup DOMAIN site
        /\ \A f \in j.assets \cup DOMAIN site : Over(g, site)[f] = IF f \in j.assets THEN g[f] ELSE site[f]
    BY <2>1 DEF Over
  <2> QED BY <2>1, <2>2, <2>3
<1>4. "asset" # "doc" /\ "asset" # "dir" OBVIOUS
<1>5. \A f \in DOMAIN site : f \in Place /\ (site[f].kind = "doc" \/ site[f].kind = "dir") BY DEF Kinds
<1>6. \A f \in DOMAIN more : more[f].kind # "asset" => f \in DOMAIN site /\ f \notin j.assets /\ more[f] = site[f]
  BY <1>3
<1>7. ASSUME NEW i \in DOMAIN docs PROVE SitePath(docs[i]) \notin j.assets
  BY <1>1, PathsDiffer
<1>8. Kinds(more, {"doc", "dir", "asset"})
  <2>1. \A f \in j.assets : f \in Place BY <1>1, <1>2
  <2> QED BY <1>3, <1>5, <2>1 DEF Kinds
<1>9. HasDocs(j, more)
  <2>1. ASSUME NEW f \in DOMAIN more, more[f].kind = "doc"
        PROVE  \E i \in DOMAIN j.docs : f = SitePath(j.docs[i]) /\ more[f] = DocPage(j, i)
    <3>1. f \in DOMAIN site /\ more[f] = site[f] BY <1>4, <1>6, <2>1
    <3> QED BY <2>1, <3>1 DEF HasDocs
  <2>2. ASSUME NEW i \in DOMAIN j.docs
        PROVE  SitePath(j.docs[i]) \in DOMAIN more /\ more[SitePath(j.docs[i])].kind = "doc"
    <3>1. SitePath(j.docs[i]) \notin j.assets BY <1>1, <1>7
    <3>2. SitePath(j.docs[i]) \in DOMAIN site /\ site[SitePath(j.docs[i])].kind = "doc" BY DEF HasDocs
    <3> QED BY <1>3, <3>1, <3>2
  <2> QED BY <2>1, <2>2 DEF HasDocs
<1>10. HasListings(j, more)
  <2>1. ASSUME NEW f \in DOMAIN more, more[f].kind = "dir"
        PROVE  /\ f = Index(f.dir) /\ more[f].from = AsDir(f.dir) /\ more[f].side = _sidebar(j.docs)
               /\ \E d \in j.dirs : /\ IsPrefix(d, f.dir)
                                    /\ \A n \in Len(d)..Len(f.dir) : Index(SubSeq(f.dir, 1, n)) \in DOMAIN more
    <3>1. f \in DOMAIN site /\ more[f] = site[f] BY <1>4, <1>6, <2>1
    <3>2. site[f].kind = "dir" BY <2>1, <3>1
    <3>3. f = Index(f.dir) /\ site[f].from = AsDir(f.dir) /\ site[f].side = _sidebar(j.docs) BY <3>1, <3>2 DEF HasListings
    <3>4. PICK d \in j.dirs : /\ IsPrefix(d, f.dir)
                              /\ \A n \in Len(d)..Len(f.dir) : Index(SubSeq(f.dir, 1, n)) \in DOMAIN site
      BY <3>1, <3>2 DEF HasListings
    <3>5. \A n \in Len(d)..Len(f.dir) : Index(SubSeq(f.dir, 1, n)) \in DOMAIN more BY <1>3, <3>4
    <3> QED BY <3>1, <3>3, <3>4, <3>5
  <2>2. \A d \in j.dirs : Index(d) \in DOMAIN more BY <1>3 DEF HasListings
  <2> QED BY <2>1, <2>2 DEF HasListings
<1>11. HasCopies(j, more)
  <2>1. \A f \in DOMAIN more : more[f].kind = "asset" => f \in j.assets BY <1>3, <1>4, <1>5
  <2> QED BY <1>3, <2>1 DEF HasCopies
<1> QED BY <1>8, <1>9, <1>10, <1>11 DEF Complete

-----------------------------------------------------------------------------
(* The invariant holds *)

LEMMA SiteInit == Init => SiteInv
<1> SUFFICES ASSUME Init PROVE SiteInv OBVIOUS
<1>1. MaxEdits \in Nat BY DocsAssumption DEF Repository
<1>2. TypeOK BY <1>1 DEF Init, TypeOK
<1>3. BuildInv BY DEF Init, BuildInv
<1> QED BY <1>2, <1>3 DEF SiteInv

\* A build that stops leaves no marker and no job.
LEMMA FailKeeps ==
  ASSUME SiteInv, pc # "idle", pc' = "idle", job' = NoJob, UNCHANGED <<tree, marked, ours, edits>>
  PROVE  SiteInv'
<1>1. ~marked BY DEF SiteInv, TypeOK
<1>2. TypeOK' BY <1>1 DEF SiteInv, TypeOK
<1>3. BuildInv' BY <1>1 DEF BuildInv
<1> QED BY <1>2, <1>3 DEF SiteInv

LEMMA StartKeeps ==
  ASSUME SiteInv, NEW clean \in BOOLEAN, Start(clean)
  PROVE  SiteInv'
<1> DEFINE docs == collect_docs(tree)
<1>1. pc = "idle" /\ docs # <<>> /\ tree' = tree /\ edits' = edits /\ tree \in Trees BY DEF Start, SiteInv, TypeOK
<1>2. CASE UNCHANGED <<out, marked, ours, pc, job>>
  <2>1. TypeOK' BY <1>1, <1>2 DEF SiteInv, TypeOK
  <2>2. BuildInv' BY <1>1, <1>2 DEF SiteInv, BuildInv
  <2> QED BY <2>1, <2>2 DEF SiteInv
<1>3. CASE pc' = "render" /\ job' = [NoJob EXCEPT !.docs = docs] /\ out' = Empty /\ marked' = FALSE /\ ours' = TRUE
  <2>1. job'.docs = docs /\ NoJob.docs = <<>> BY <1>3 DEF NoJob
  <2>2. job' # NoJob BY <1>1, <2>1
  <2>3. TypeOK' BY <1>1, <1>3, <2>2 DEF SiteInv, TypeOK
  <2>4. \E t0 \in Trees : job'.docs = collect_docs(t0) /\ collect_docs(t0) # <<>> BY <1>1, <2>1
  <2>5. BuildInv' BY <1>3, <2>4 DEF BuildInv
  <2> QED BY <2>3, <2>5 DEF SiteInv
<1> QED BY <1>2, <1>3 DEF Start

LEMMA RenderKeeps ==
  ASSUME SiteInv, RenderAll
  PROVE  SiteInv'
<1>1. pc = "render" /\ tree \in Trees /\ ~marked /\ ours BY DEF RenderAll, SiteInv, TypeOK, BuildInv
<1>2. CASE Fail BY <1>1, <1>2, FailKeeps DEF Fail
<1>3. CASE /\ Range(job.docs) \subseteq DOMAIN tree /\ pc' = "pages" /\ job' = Rendering(tree, job.docs)
           /\ UNCHANGED <<tree, out, marked, ours, edits>>
  <2>1. PICK t0 \in Trees : job.docs = collect_docs(t0) /\ collect_docs(t0) # <<>> BY <1>1 DEF SiteInv, BuildInv
  <2>2. out = Empty BY <1>1 DEF SiteInv, BuildInv
  <2>3. PICK t \in Trees : t = tree BY <1>1
  <2>4. Rendered(t, t0) /\ job' = Job(t, t0) BY <1>3, <2>1, <2>3 DEF Rendered, Job
  <2>5. job'.docs # NoJob.docs BY <2>4, JobIs DEF NoJob
  <2>6. job' # NoJob BY <2>5
  <2>7. TypeOK' BY <1>1, <1>3, <2>6 DEF SiteInv, TypeOK
  <2>8. BuildInv' BY <1>1, <1>3, <2>2, <2>4 DEF BuildInv
  <2> QED BY <2>7, <2>8 DEF SiteInv
<1> QED BY <1>2, <1>3 DEF RenderAll

LEMMA PagesKeep ==
  ASSUME SiteInv, WritePages
  PROVE  SiteInv'
<1>1. /\ pc = "pages" /\ pc' = "dirs" /\ job' = job /\ ~marked /\ ours /\ job # NoJob /\ UNCHANGED <<tree, marked, ours, edits>>
      /\ out' = Over([f \in {SitePath(d) : d \in Range(job.docs)} |-> DocPage(job, Max({i \in DOMAIN job.docs : SitePath(job.docs[i]) = f}))], out)
  BY DEF WritePages, SiteInv, TypeOK, BuildInv
<1>2. PICK t, t0 \in Trees : Rendered(t, t0) /\ job = Job(t, t0) /\ out = Empty BY <1>1 DEF SiteInv, BuildInv
<1>3. PICK j, site : job = j /\ site = out' OBVIOUS
<1>4. Kinds(site, {"doc"}) /\ HasDocs(j, site)
  <2>1. j = Job(t, t0) BY <1>2, <1>3
  <2>2. site = Over([f \in {SitePath(d) : d \in Range(j.docs)} |-> DocPage(j, Max({i \in DOMAIN j.docs : SitePath(j.docs[i]) = f}))], Empty)
    BY <1>1, <1>2, <1>3
  <2> QED BY <1>2, <2>1, <2>2, PagesDone
<1>5. TypeOK' BY <1>1 DEF SiteInv, TypeOK
<1>6. BuildInv' BY <1>1, <1>2, <1>3, <1>4 DEF BuildInv
<1> QED BY <1>5, <1>6 DEF SiteInv

LEMMA DirsKeep ==
  ASSUME SiteInv, WriteDirs
  PROVE  SiteInv'
<1>1. /\ pc = "dirs" /\ pc' = "assets" /\ job' = job /\ ~marked /\ ours /\ job # NoJob /\ UNCHANGED <<tree, marked, ours, edits>>
      /\ out' = Over(generate_dir_indexes(tree, job), out)
  BY DEF WriteDirs, SiteInv, TypeOK, BuildInv
<1>2. PICK t, t0 \in Trees : Rendered(t, t0) /\ job = Job(t, t0) /\ Kinds(out, {"doc"}) /\ HasDocs(job, out)
  BY <1>1 DEF SiteInv, BuildInv
<1>3. PICK j, old, site, now : job = j /\ old = out /\ site = out' /\ now = tree OBVIOUS
<1>4. Kinds(site, {"doc", "dir"}) /\ HasDocs(j, site) /\ HasListings(j, site)
  <2>1. j = Job(t, t0) /\ now \in Trees /\ Kinds(old, {"doc"}) /\ HasDocs(j, old) /\ site = Over(generate_dir_indexes(now, j), old)
    BY <1>1, <1>2, <1>3 DEF SiteInv, TypeOK
  <2> QED BY <1>2, <2>1, ListingsDone
<1>5. TypeOK' BY <1>1 DEF SiteInv, TypeOK
<1>6. BuildInv' BY <1>1, <1>2, <1>3, <1>4 DEF BuildInv
<1> QED BY <1>5, <1>6 DEF SiteInv

LEMMA CopiesKeep ==
  ASSUME SiteInv, CopyAssets
  PROVE  SiteInv'
<1>1. pc = "assets" /\ ~marked /\ ours /\ job # NoJob /\ UNCHANGED <<tree, marked, ours, edits>>
  BY DEF CopyAssets, SiteInv, TypeOK, BuildInv
<1>2. CASE pc' = "verify" /\ out' = Over(Copies(job.assets), out) /\ UNCHANGED job
  <2>1. PICK t, t0 \in Trees : /\ Rendered(t, t0) /\ job = Job(t, t0)
                               /\ Kinds(out, {"doc", "dir"}) /\ HasDocs(job, out) /\ HasListings(job, out)
    BY <1>1 DEF SiteInv, BuildInv
  <2>2. PICK j, old, site : job = j /\ old = out /\ site = out' OBVIOUS
  <2>3. Complete(t, t0, site)
    <3>1. /\ j = Job(t, t0) /\ Kinds(old, {"doc", "dir"}) /\ HasDocs(j, old) /\ HasListings(j, old)
          /\ site = Over(Copies(j.assets), old)
      BY <1>2, <2>1, <2>2
    <3> QED BY <2>1, <3>1, CopiesDone
  <2>4. TypeOK' BY <1>1, <1>2 DEF SiteInv, TypeOK
  <2>5. BuildInv' BY <1>1, <1>2, <2>1, <2>2, <2>3 DEF BuildInv
  <2> QED BY <2>4, <2>5 DEF SiteInv
<1>3. CASE pc' = "idle" /\ job' = NoJob BY <1>1, <1>3, FailKeeps
<1> QED BY <1>2, <1>3 DEF CopyAssets

LEMMA FinishKeeps ==
  ASSUME SiteInv, Finish
  PROVE  SiteInv'
<1>1. /\ pc = "verify" /\ pc' = "idle" /\ job' = NoJob /\ ours /\ UNCHANGED <<tree, out, ours, edits>>
      /\ marked' = (verify_links(out) = {})
  BY DEF Finish, SiteInv, TypeOK, BuildInv
<1>2. PICK t, t0 \in Trees : Complete(t, t0, out) BY <1>1 DEF SiteInv, BuildInv
<1>3. out # Absent
  <2>1. DOMAIN out \subseteq Place BY <1>2 DEF Complete, Kinds
  <2>2. None \notin Place BY DocsAssumption DEF Repository
  <2>3. DOMAIN Absent = {None} BY DEF Absent
  <2> QED BY <2>1, <2>2, <2>3
<1>4. TypeOK' BY <1>1, <1>3 DEF SiteInv, TypeOK
<1>5. BuildInv' BY <1>1, <1>2 DEF BuildInv
<1> QED BY <1>4, <1>5 DEF SiteInv

LEMMA EditKeeps ==
  ASSUME SiteInv, Edit
  PROVE  SiteInv'
<1>1. MaxEdits \in Nat BY DocsAssumption DEF Repository
<1>2. edits' \in 0..MaxEdits BY <1>1 DEF Edit, SiteInv, TypeOK
<1>3. pc' = pc /\ job' = job BY DEF Edit
<1>4. CASE tree' \in Trees \ {tree} /\ UNCHANGED <<out, marked, ours>>
  <2>1. TypeOK' BY <1>2, <1>3, <1>4 DEF SiteInv, TypeOK
  <2>2. BuildInv' BY <1>3, <1>4 DEF SiteInv, BuildInv
  <2> QED BY <2>1, <2>2 DEF SiteInv
<1>5. CASE pc = "idle" /\ out # Absent /\ out' = Absent /\ marked' = FALSE /\ UNCHANGED <<tree, ours>>
  <2>1. TypeOK' BY <1>2, <1>3, <1>5 DEF SiteInv, TypeOK
  <2>2. BuildInv' BY <1>3, <1>5 DEF BuildInv
  <2> QED BY <2>1, <2>2 DEF SiteInv
<1>6. CASE pc = "idle" /\ out = Absent /\ out' = Empty /\ ours' = FALSE /\ UNCHANGED <<tree, marked>>
  <2>1. ~marked BY <1>6 DEF SiteInv, TypeOK
  <2>2. TypeOK' BY <1>2, <1>3, <1>6, <2>1 DEF SiteInv, TypeOK
  <2>3. BuildInv' BY <1>3, <1>6, <2>1 DEF BuildInv
  <2> QED BY <2>2, <2>3 DEF SiteInv
<1> QED BY <1>4, <1>5, <1>6 DEF Edit

LEMMA SiteStep == SiteInv /\ [Next]_vars => SiteInv'
<1> SUFFICES ASSUME SiteInv, [Next]_vars PROVE SiteInv' OBVIOUS
<1>1. CASE \E clean \in BOOLEAN : Start(clean) BY <1>1, StartKeeps
<1>2. CASE RenderAll BY <1>2, RenderKeeps
<1>3. CASE WritePages BY <1>3, PagesKeep
<1>4. CASE WriteDirs BY <1>4, DirsKeep
<1>5. CASE CopyAssets BY <1>5, CopiesKeep
<1>6. CASE Finish BY <1>6, FinishKeeps
<1>7. CASE Interrupt BY <1>7, FailKeeps DEF Interrupt, Fail
<1>8. CASE Edit BY <1>8, EditKeeps
<1>9. CASE UNCHANGED vars
  <2>1. TypeOK' BY <1>9 DEF SiteInv, TypeOK, vars
  <2>2. BuildInv' BY <1>9 DEF SiteInv, BuildInv, vars
  <2> QED BY <2>1, <2>2 DEF SiteInv
<1> QED BY <1>1, <1>2, <1>3, <1>4, <1>5, <1>6, <1>7, <1>8, <1>9 DEF Next

THEOREM SiteInvHolds == Spec => []SiteInv
BY SiteInit, SiteStep, PTL DEF Spec

-----------------------------------------------------------------------------
(* What stands on a complete site *)

LEMMA Stands ==
  ASSUME NEW t \in Trees, NEW t0 \in Trees, NEW site, Complete(t, t0, site)
  PROVE  LET j == Job(t, t0)
             docs == collect_docs(t0)
         IN  /\ \A f \in DOMAIN site :
                  \/ \E k \in DOMAIN docs : f = SitePath(docs[k]) /\ site[f] = DocPage(j, k) /\ site[f].from = docs[k]
                  \/ /\ f = Index(f.dir) /\ site[f].from = AsDir(f.dir)
                     /\ \E d \in j.dirs : IsPrefix(d, f.dir) /\ \A n \in Len(d)..Len(f.dir) : Index(SubSeq(f.dir, 1, n)) \in DOMAIN site
                  \/ f \in j.assets /\ f \in DOMAIN t /\ site[f].from = f
             /\ \A k \in DOMAIN docs : /\ SitePath(docs[k]) \in DOMAIN site
                                       /\ site[SitePath(docs[k])] = DocPage(j, k)
                                       /\ site[SitePath(docs[k])].from = docs[k]
             /\ \A d \in j.dirs : Index(d) \in DOMAIN site
             /\ \A f \in j.assets : f \in DOMAIN site /\ site[f].from = f
<1> DEFINE j == Job(t, t0)
           docs == collect_docs(t0)
<1>1. Rendered(t, t0) /\ Kinds(site, {"doc", "dir", "asset"}) /\ HasDocs(j, site) /\ HasListings(j, site) /\ HasCopies(j, site)
  BY DEF Complete
<1>2. j.docs = docs /\ j.assets \subseteq DOMAIN t BY <1>1, JobIs
<1>3. \A i, k \in DOMAIN docs : SitePath(docs[i]) = SitePath(docs[k]) => i = k BY <1>1, PagesOnce
<1> HIDE DEF j, docs
<1>4. \A k : DocPage(j, k).from = docs[k] BY <1>2, DocPageIs
<1>5. ASSUME NEW f \in DOMAIN site
      PROVE  \/ \E k \in DOMAIN docs : f = SitePath(docs[k]) /\ site[f] = DocPage(j, k) /\ site[f].from = docs[k]
             \/ /\ f = Index(f.dir) /\ site[f].from = AsDir(f.dir)
                /\ \E d \in j.dirs : IsPrefix(d, f.dir) /\ \A n \in Len(d)..Len(f.dir) : Index(SubSeq(f.dir, 1, n)) \in DOMAIN site
             \/ f \in j.assets /\ f \in DOMAIN t /\ site[f].from = f
  <2>1. site[f].kind = "doc" \/ site[f].kind = "dir" \/ site[f].kind = "asset" BY <1>1 DEF Kinds
  <2>2. CASE site[f].kind = "doc"
    <3>1. PICK k \in DOMAIN j.docs : f = SitePath(j.docs[k]) /\ site[f] = DocPage(j, k) BY <1>1, <2>2 DEF HasDocs
    <3> QED BY <1>2, <1>4, <3>1
  <2>3. CASE site[f].kind = "dir" BY <1>1, <2>3 DEF HasListings
  <2>4. CASE site[f].kind = "asset"
    <3>1. f \in j.assets /\ site[f].from = f BY <1>1, <2>4 DEF HasCopies
    <3> QED BY <1>2, <3>1
  <2> QED BY <2>1, <2>2, <2>3, <2>4
<1>6. ASSUME NEW k \in DOMAIN docs
      PROVE  /\ SitePath(docs[k]) \in DOMAIN site /\ site[SitePath(docs[k])] = DocPage(j, k)
             /\ site[SitePath(docs[k])].from = docs[k]
  <2>1. SitePath(docs[k]) \in DOMAIN site /\ site[SitePath(docs[k])].kind = "doc" BY <1>1, <1>2 DEF HasDocs
  <2>2. PICK i \in DOMAIN docs : SitePath(docs[k]) = SitePath(docs[i]) /\ site[SitePath(docs[k])] = DocPage(j, i)
    BY <1>1, <1>2, <2>1 DEF HasDocs
  <2>3. i = k BY <1>3, <2>2
  <2> QED BY <1>4, <2>1, <2>2, <2>3
<1>7. \A d \in j.dirs : Index(d) \in DOMAIN site BY <1>1 DEF HasListings
<1>8. \A f \in j.assets : f \in DOMAIN site /\ site[f].from = f BY <1>1 DEF HasCopies
<1> QED BY <1>5, <1>6, <1>7, <1>8 DEF j, docs

\* A directory that only the site has carries its listing.
LEMMA NewDirs ==
  ASSUME NEW t \in Trees, NEW t0 \in Trees, NEW site, Complete(t, t0, site),
         NEW d \in Dirs(DOMAIN site), d \notin Dirs(DOMAIN t)
  PROVE  Index(d) \in DOMAIN site /\ site[Index(d)].from = AsDir(d)
<1> DEFINE j == Job(t, t0)
           docs == collect_docs(t0)
<1>1. DOMAIN t \subseteq Place BY DocsAssumption DEF Repository
<1>2. DOMAIN site \subseteq Place BY DEF Complete, Kinds
<1>3. Rendered(t, t0) BY DEF Complete
<1>4. /\ \A i \in DOMAIN docs : docs[i] \in DOMAIN t /\ docs[i] \in Place
      /\ j.dirs \subseteq Dirs(DOMAIN t) /\ j.dirs \subseteq Seq(Names)
  BY <1>3, JobIs
<1>5. \A f \in DOMAIN site :
        \/ \E k \in DOMAIN docs : f = SitePath(docs[k]) /\ site[f] = DocPage(j, k) /\ site[f].from = docs[k]
        \/ /\ f = Index(f.dir) /\ site[f].from = AsDir(f.dir)
           /\ \E e \in j.dirs : IsPrefix(e, f.dir) /\ \A n \in Len(e)..Len(f.dir) : Index(SubSeq(f.dir, 1, n)) \in DOMAIN site
        \/ f \in j.assets /\ f \in DOMAIN t /\ site[f].from = f
  BY Stands
<1> HIDE DEF j, docs
<1>6. d \in Seq(Names) /\ \E f \in DOMAIN site : \E n \in 0..Len(f.dir) : d = SubSeq(f.dir, 1, n) BY <1>2, DirsClosed
<1>7. PICK g \in DOMAIN site : \E n \in 0..Len(g.dir) : d = SubSeq(g.dir, 1, n) BY <1>6
<1>8. PICK n \in 0..Len(g.dir) : d = SubSeq(g.dir, 1, n) BY <1>7
<1>9. \A f \in DOMAIN t : f.dir \in Dirs(DOMAIN t) BY <1>1, DirsClosed
<1>10. \A e \in Dirs(DOMAIN t) : e \in Seq(Names) /\ \A m \in 0..Len(e) : SubSeq(e, 1, m) \in Dirs(DOMAIN t) BY <1>1, DirsClosed
<1>11. ~(g.dir \in Dirs(DOMAIN t)) BY <1>8, <1>10
<1>12. \A k \in DOMAIN docs : SitePath(docs[k]).dir \in Dirs(DOMAIN t) BY <1>4, <1>9, Placed
<1>13. PICK e \in j.dirs : IsPrefix(e, g.dir) /\ \A m \in Len(e)..Len(g.dir) : Index(SubSeq(g.dir, 1, m)) \in DOMAIN site
  BY <1>5, <1>9, <1>11, <1>12
<1>14. g.dir \in Seq(Names) /\ e \in Seq(Names) /\ e \in Dirs(DOMAIN t) BY <1>2, <1>4, Placed
<1>15. Len(e) \in 0..Len(g.dir) /\ e = SubSeq(g.dir, 1, Len(e)) /\ Len(e) \in Nat /\ Len(g.dir) \in Nat
  BY <1>13, <1>14, PrefixStarts, LenProperties
<1>16. ~(n <= Len(e))
  <2> SUFFICES ASSUME n <= Len(e) PROVE FALSE OBVIOUS
  <2>1. n \in 0..Len(e) BY <1>15
  <2>2. SubSeq(SubSeq(g.dir, 1, Len(e)), 1, n) = SubSeq(g.dir, 1, n) BY <1>14, <1>15, <2>1, Starts
  <2>3. d = SubSeq(e, 1, n) BY <1>8, <1>15, <2>2
  <2>4. SubSeq(e, 1, n) \in Dirs(DOMAIN t) BY <1>10, <1>14, <2>1
  <2> QED BY <2>3, <2>4
<1>17. n \in Len(e)..Len(g.dir) BY <1>15, <1>16
<1>18. Index(d) \in DOMAIN site BY <1>8, <1>13, <1>17
<1>19. Index(d).dir = d BY <1>6, IndexPlaced
<1>20. site[Index(d)].from = AsDir(d)
  <2>1. ~(Index(d).dir \in Dirs(DOMAIN t)) BY <1>19
  <2>2. site[Index(d)].from = AsDir(Index(d).dir) BY <1>5, <1>9, <1>12, <1>18, <2>1
  <2> QED BY <1>19, <2>2
<1> QED BY <1>18, <1>20

LEMMA HrefTargets ==
  /\ \A f : ToFile(f).dir = FALSE /\ ToFile(f).to = f
  /\ \A d : ToDir(d).dir = TRUE /\ ToDir(d).to.dir = d
<1>1. \A f : ToFile(f).dir = FALSE /\ ToFile(f).to = f BY DEF ToFile
<1>2. \A d, n, x : File(d, n, x).dir = d BY DEF File
<1>3. \A d : AsDir(d).dir = d BY <1>2, Zenon DEF AsDir
<1>4. \A d : ToDir(d).dir = TRUE /\ ToDir(d).to = AsDir(d) BY DEF ToDir
<1> QED BY <1>1, <1>3, <1>4

\* A link to a directory.
LEMMA DirLinksOpen ==
  ASSUME NEW t \in Trees, NEW t0 \in Trees, NEW site, Complete(t, t0, site),
         NEW i \in DOMAIN collect_docs(t0), NEW l \in LinksOf[t[collect_docs(t0)[i]]], l.dir, l.to.dir \in Seq(Names),
         NEW h, h = rewrite(t, Range(collect_docs(t0)), l).href, Exists(site, h)
  PROVE  LET there == IF h.dir THEN Index(h.to.dir) ELSE h.to
         IN  there \in DOMAIN site /\ site[there].from \in ShownFor(l.to.dir)
<1> DEFINE j == Job(t, t0)
           docs == collect_docs(t0)
           md == Range(docs)
           d == l.to.dir
           there == IF h.dir THEN Index(h.to.dir) ELSE h.to
<1>1. Rendered(t, t0) BY DEF Complete
<1>2. /\ \A k \in DOMAIN docs : docs[k] \in DOMAIN t /\ docs[k] \in Place /\ docs[k].ext = "md"
      /\ rewrite(t, md, l).dirs \subseteq j.dirs
  BY <1>1, JobIs
<1>3. /\ \A f \in DOMAIN site :
           \/ \E k \in DOMAIN docs : f = SitePath(docs[k]) /\ site[f].from = docs[k]
           \/ f = Index(f.dir) /\ site[f].from = AsDir(f.dir)
           \/ f \in j.assets /\ site[f].from = f
      /\ \A k \in DOMAIN docs : SitePath(docs[k]) \in DOMAIN site /\ site[SitePath(docs[k])].from = docs[k]
      /\ \A e \in j.dirs : Index(e) \in DOMAIN site
  BY Stands
<1>4. /\ Index(d).dir = d /\ Index(d).name = "index" /\ SitePath(README(d)) = Index(d)
      /\ README(d).dir = d
  BY IndexPlaced
<1>6. AsDir(d) \in ShownFor(d) /\ README(d) \in ShownFor(d) /\ Index(d) \in ShownFor(d) BY DEF ShownFor
<1>7. IndexesNest(t0) BY DocsAssumption DEF Repository
<1> HIDE DEF j
<1>8. CASE d \in Dirs(DOMAIN t) /\ README(d) \in md
  <2>1. h = ToFile(SitePath(README(d))) BY <1>8 DEF rewrite, RewriteDir, Plain
  <2>2. there = Index(d) BY <1>4, <2>1, HrefTargets
  <2>3. PICK k \in DOMAIN docs : README(d) = docs[k] BY <1>8 DEF Range
  <2>4. Index(d) \in DOMAIN site /\ site[Index(d)].from = README(d) BY <1>3, <1>4, <2>3
  <2> QED BY <1>6, <2>2, <2>4
<1>9. CASE d \in Dirs(DOMAIN t) /\ README(d) \notin md
  <2>1. rewrite(t, md, l) = [href |-> IF l.slash THEN ToDir(d) ELSE ToFile(Index(d)), dirs |-> {d}, assets |-> {}]
    BY <1>9 DEF rewrite, RewriteDir
  <2>2. h = ToDir(d) \/ h = ToFile(Index(d)) BY <2>1
  <2>3. there = Index(d) BY <2>2, HrefTargets
  <2>4. d \in j.dirs BY <1>2, <2>1
  <2>5. Index(d) \in DOMAIN site BY <1>3, <2>4
  <2>6. ~\E k \in DOMAIN docs : Index(d) = SitePath(docs[k])
    <3> SUFFICES ASSUME NEW k \in DOMAIN docs, Index(d) = SitePath(docs[k]) PROVE FALSE OBVIOUS
    <3>1. docs[k].dir = d
      <4>1. docs[k] \in Place BY <1>2
      <4>2. SitePath(docs[k]).dir = docs[k].dir BY <4>1, Placed
      <4> QED BY <1>4, <4>2
    <3>2. \A n \in 0..Len(docs[k].dir) : README(SubSeq(docs[k].dir, 1, n)) \in md BY <1>4, <1>7 DEF IndexesNest
    <3>3. Len(d) \in 0..Len(d) /\ SubSeq(d, 1, Len(d)) = d BY LenProperties, SubSeqFull
    <3>4. README(SubSeq(d, 1, Len(d))) \in md BY <3>1, <3>2, <3>3
    <3> QED BY <1>9, <3>3, <3>4
  <2>7. site[Index(d)].from = AsDir(d) \/ site[Index(d)].from = Index(d) BY <1>3, <1>4, <2>5, <2>6
  <2> QED BY <1>6, <2>3, <2>5, <2>7
<1>10. CASE d \notin Dirs(DOMAIN t)
  <2>1. h = ToDir(d) BY <1>10 DEF rewrite, Plain
  <2>2. there = Index(d) /\ h.dir /\ h.to.dir = d BY <2>1, HrefTargets
  <2>3. d \in Dirs(DOMAIN site) BY <2>2 DEF Exists
  <2>4. Index(d) \in DOMAIN site /\ site[Index(d)].from = AsDir(d) BY <1>10, <2>3, NewDirs
  <2> QED BY <1>6, <2>2, <2>4
<1> QED BY <1>8, <1>9, <1>10

\* A link to a file.
LEMMA FileLinksOpen ==
  ASSUME NEW t \in Trees, NEW t0 \in Trees, NEW site, Complete(t, t0, site),
         NEW i \in DOMAIN collect_docs(t0), NEW l \in LinksOf[t[collect_docs(t0)[i]]], ~l.dir, l.to \in Place,
         NEW h, h = rewrite(t, Range(collect_docs(t0)), l).href, Exists(site, h)
  PROVE  LET there == IF h.dir THEN Index(h.to.dir) ELSE h.to
         IN  there \in DOMAIN site /\ site[there].from \in Meant(l)
<1> DEFINE j == Job(t, t0)
           docs == collect_docs(t0)
           md == Range(docs)
           f == l.to
           dest == IF f \in DOMAIN t THEN f ELSE [f EXCEPT !.ext = "md"]
           there == IF h.dir THEN Index(h.to.dir) ELSE h.to
<1>1. Rendered(t, t0) BY DEF Complete
<1>2. /\ \A k \in DOMAIN docs : docs[k] \in DOMAIN t /\ docs[k] \in Place /\ docs[k].ext = "md"
      /\ rewrite(t, md, l).assets \subseteq j.assets /\ j.assets \subseteq DOMAIN t
  BY <1>1, JobIs
<1>3. /\ \A g \in DOMAIN site :
           \/ \E k \in DOMAIN docs : g = SitePath(docs[k]) /\ site[g].from = docs[k]
           \/ g = Index(g.dir) /\ site[g].from = AsDir(g.dir)
           \/ g \in j.assets /\ site[g].from = g
      /\ \A k \in DOMAIN docs : SitePath(docs[k]) \in DOMAIN site /\ site[SitePath(docs[k])].from = docs[k]
      /\ \A g \in j.assets : g \in DOMAIN site /\ site[g].from = g
  BY Stands
<1>4. /\ f \in Meant(l) /\ [f EXCEPT !.ext = "md"] \in Meant(l)
      /\ f = Index(f.dir) => AsDir(f.dir) \in Meant(l) /\ README(f.dir) \in Meant(l)
  BY DEF Meant, ShownFor
<1>5. dest \in Meant(l) BY <1>4
<1>6. \A g : ToFile(g).dir = FALSE /\ ToFile(g).to = g BY HrefTargets
<1>7. rewrite(t, md, l) = RewriteFile(t, md, f) BY DEF rewrite
\* The link is left as it is written: what stands there is what is meant.
<1>8. ASSUME h = ToFile(f), f \in DOMAIN t => f.ext = "md" /\ f \notin md,
             \A k \in DOMAIN docs : docs[k] # [f EXCEPT !.ext = "md"] \/ f \in DOMAIN t
      PROVE  there \in DOMAIN site /\ site[there].from \in Meant(l)
  <2>1. there = f /\ f \in DOMAIN site BY <1>6, <1>8 DEF Exists
  <2>2. CASE \E k \in DOMAIN docs : f = SitePath(docs[k]) /\ site[f].from = docs[k]
    <3>1. PICK k \in DOMAIN docs : f = SitePath(docs[k]) /\ site[f].from = docs[k] BY <2>2
    <3>2. docs[k] \in DOMAIN t /\ docs[k] \in Place /\ docs[k].ext = "md" BY <1>2
    <3>3. f \notin DOMAIN t BY <3>1, <3>2, PathsDiffer
    <3>4. f.dir = docs[k].dir /\ f.ext = "html" /\ f.name = (IF docs[k].name = "README" THEN "index" ELSE docs[k].name)
      BY <3>1, <3>2, Placed
    <3>5. docs[k].name = "README"
      <4> SUFFICES ASSUME docs[k].name # "README" PROVE FALSE OBVIOUS
      <4>1. f.name = docs[k].name BY <3>4
      <4>2. docs[k] = [f EXCEPT !.ext = "md"] BY <3>2, <3>4, <4>1 DEF Place
      <4> QED BY <1>8, <3>3, <4>2
    <3>6. docs[k] = README(f.dir) BY <3>2, <3>4, <3>5 DEF Place, README, File
    <3>7. f = Index(f.dir) BY <3>4, <3>5 DEF Place, Index, File
    <3> QED BY <1>4, <2>1, <3>1, <3>6, <3>7
  <2>3. CASE f = Index(f.dir) /\ site[f].from = AsDir(f.dir) BY <1>4, <2>1, <2>3
  <2>4. CASE f \in j.assets /\ site[f].from = f BY <1>4, <2>1, <2>4
  <2> QED BY <1>3, <2>1, <2>2, <2>3, <2>4
<1>9. CASE dest \notin DOMAIN t
  <2>1. RewriteFile(t, md, f) = Plain(ToFile(f)) BY <1>9 DEF RewriteFile
  <2>2. h = ToFile(f) BY <1>7, <2>1 DEF Plain
  <2>3. f \notin DOMAIN t /\ [f EXCEPT !.ext = "md"] \notin DOMAIN t BY <1>9
  <2>4. \A k \in DOMAIN docs : docs[k] # [f EXCEPT !.ext = "md"] BY <1>2, <2>3
  <2> QED BY <1>8, <2>2, <2>3, <2>4
<1>10. CASE dest \in DOMAIN t /\ dest.ext = "md" /\ dest \in md
  <2>1. RewriteFile(t, md, f) = Plain(ToFile(SitePath(dest))) BY <1>10 DEF RewriteFile
  <2>2. there = SitePath(dest) BY <1>6, <1>7, <2>1 DEF Plain
  <2>3. PICK k \in DOMAIN docs : dest = docs[k] BY <1>10 DEF Range
  <2>4. SitePath(dest) \in DOMAIN site /\ site[SitePath(dest)].from = dest BY <1>3, <2>3
  <2> QED BY <1>5, <2>2, <2>4
<1>11. CASE dest \in DOMAIN t /\ dest.ext = "md" /\ dest \notin md
  <2>1. RewriteFile(t, md, f) = Plain(ToFile(f)) BY <1>11 DEF RewriteFile
  <2>2. h = ToFile(f) BY <1>7, <2>1 DEF Plain
  <2>3. f \in DOMAIN t => f.ext = "md" /\ f \notin md BY <1>11
  <2>4. \A k \in DOMAIN docs : docs[k] \in md BY DEF Range
  <2>5. \A k \in DOMAIN docs : docs[k] # [f EXCEPT !.ext = "md"] \/ f \in DOMAIN t BY <1>11, <2>4
  <2> QED BY <1>8, <2>2, <2>3, <2>5
<1>12. CASE dest \in DOMAIN t /\ dest.ext # "md"
  <2>1. RewriteFile(t, md, f) = [href |-> ToFile(dest), dirs |-> {}, assets |-> {dest}] BY <1>12 DEF RewriteFile
  <2>2. there = dest /\ dest \in rewrite(t, md, l).assets BY <1>6, <1>7, <2>1
  <2>3. dest \in j.assets BY <1>2, <2>2
  <2>4. dest \in DOMAIN site /\ site[dest].from = dest BY <1>3, <2>3
  <2> QED BY <1>5, <2>2, <2>4
<1> QED BY <1>9, <1>10, <1>11, <1>12

-----------------------------------------------------------------------------
(* The theorems *)

\* In a site that carries the marker every link of every document opens what the
\* author linked.
LEMMA LinksOpen == SiteInv => LinksLeadHome
<1> SUFFICES ASSUME SiteInv, marked, NEW f \in DOMAIN out, out[f].kind = "doc", NEW x \in out[f].links
             PROVE  LET there == IF x.href.dir THEN Index(x.href.to.dir) ELSE x.href.to
                    IN  there \in DOMAIN out /\ out[there].from \in Meant(x.link)
  BY DEF LinksLeadHome
<1>1. verify_links(out) = {} /\ \E t, t0 \in Trees : Complete(t, t0, out) BY DEF SiteInv, BuildInv
<1>2. PICK t, t0 \in Trees : Complete(t, t0, out) BY <1>1
<1> DEFINE j == Job(t, t0)
           docs == collect_docs(t0)
           md == Range(docs)
<1>3. Rendered(t, t0) /\ HasDocs(j, out) BY <1>2 DEF Complete
<1>4. /\ j.docs = docs
      /\ \A i \in DOMAIN docs : docs[i] \in DOMAIN t
      /\ \A i \in DOMAIN docs : j.rendered[i].links = {[link |-> l, href |-> rewrite(t, md, l).href] : l \in LinksOf[t[docs[i]]]}
  BY <1>3, JobIs
<1> HIDE DEF j, docs, md
<1>5. PICK i \in DOMAIN docs : f = SitePath(docs[i]) /\ out[f] = DocPage(j, i) BY <1>3, <1>4 DEF HasDocs
<1>6. x \in {[link |-> l, href |-> rewrite(t, md, l).href] : l \in LinksOf[t[docs[i]]]}
  <2>1. DocPage(j, i).links = j.rendered[i].links BY DocPageIs
  <2> QED BY <1>4, <1>5, <2>1
<1>7. PICK l \in LinksOf[t[docs[i]]] : x.link = l /\ x.href = rewrite(t, md, l).href BY <1>6
<1>8. Exists(out, x.href)
  <2>1. "doc" # "asset" OBVIOUS
  <2>2. x.href \in Hrefs(out[f]) BY <2>1 DEF Hrefs
  <2> DEFINE broken(g) == {<<g, y>> : y \in {z \in Hrefs(out[g]) : ~Exists(out, z)}}
  <2>3. UNION {broken(g) : g \in DOMAIN out} = {} BY <1>1 DEF verify_links
  <2>4. ~Exists(out, x.href) => <<f, x.href>> \in broken(f) BY <2>2
  <2> HIDE DEF broken
  <2>5. broken(f) \subseteq UNION {broken(g) : g \in DOMAIN out} OBVIOUS
  <2> QED BY <2>3, <2>4, <2>5
<1>9. l.dir \in BOOLEAN /\ l.to.dir \in Seq(Names) /\ (IF l.dir THEN l.to = AsDir(l.to.dir) ELSE l.to \in Place)
  <2>1. t[docs[i]] \in Texts
    <3>1. t \in [DOMAIN t -> Texts] BY DocsAssumption DEF Repository
    <3> QED BY <1>4, <3>1
  <2>2. WellLinked(t[docs[i]]) BY <2>1, DocsAssumption DEF Repository
  <2> QED BY <2>2 DEF WellLinked
<1>10. PICK site : site = out OBVIOUS
<1>11. PICK h : h = x.href OBVIOUS
<1>12. /\ Complete(t, t0, site) /\ Exists(site, h) /\ h = rewrite(t, Range(collect_docs(t0)), l).href
       /\ i \in DOMAIN collect_docs(t0) /\ l \in LinksOf[t[collect_docs(t0)[i]]]
  BY <1>2, <1>7, <1>8, <1>10, <1>11 DEF docs, md
<1> DEFINE there == IF h.dir THEN Index(h.to.dir) ELSE h.to
<1>13. there \in DOMAIN site /\ site[there].from \in Meant(l)
  <2>1. CASE l.dir
    <3>1. there \in DOMAIN site /\ site[there].from \in ShownFor(l.to.dir) BY <1>9, <1>12, <2>1, DirLinksOpen
    <3>2. ShownFor(l.to.dir) \subseteq Meant(l) BY <2>1 DEF Meant
    <3> QED BY <3>1, <3>2
  <2>2. CASE ~l.dir
    <3>1. ~l.dir /\ l.to \in Place BY <1>9, <2>2
    <3> QED BY <1>12, <3>1, FileLinksOpen
  <2> QED BY <2>1, <2>2
<1> QED BY <1>7, <1>10, <1>11, <1>13

LEMMA PagerIs ==
  ASSUME NEW S, NEW docs \in Seq(S), IsInjective(docs), NEW i \in DOMAIN docs
  PROVE  /\ _pager(docs[i], docs).next = IF i + 1 \in DOMAIN docs THEN SitePath(docs[i + 1]) ELSE None
         /\ _pager(docs[i], docs).prev = IF i - 1 \in DOMAIN docs THEN SitePath(docs[i - 1]) ELSE None
<1>1. \E k \in DOMAIN docs : docs[k] = docs[i] OBVIOUS
<1>2. (CHOOSE k \in DOMAIN docs : docs[k] = docs[i]) = i BY DEF IsInjective
<1> QED BY <1>1, <1>2 DEF _pager

LEMMA OneBuildHolds == SiteInv => OneBuild
<1> SUFFICES ASSUME SiteInv, marked,
                    NEW f \in DOMAIN out, out[f].kind # "asset", NEW g \in DOMAIN out, out[g].kind # "asset"
             PROVE  /\ out[f].side = out[g].side
                    /\ out[f].kind = "doc" =>
                         \E k \in DOMAIN out[g].side : \E i \in DOMAIN out[g].side[k] : out[g].side[k][i] = out[f].from
  BY DEF OneBuild
<1>1. PICK t, t0 \in Trees : Complete(t, t0, out) BY DEF SiteInv, BuildInv
<1> DEFINE j == Job(t, t0)
           docs == collect_docs(t0)
<1>2. Rendered(t, t0) /\ Kinds(out, {"doc", "dir", "asset"}) /\ HasDocs(j, out) /\ HasListings(j, out)
  BY <1>1 DEF Complete
<1>3. j.docs = docs /\ docs \in Seq(DOMAIN t0) BY <1>2, JobIs
<1> HIDE DEF j, docs
<1>4. ASSUME NEW p \in DOMAIN out, out[p].kind # "asset" PROVE out[p].side = _sidebar(docs)
  <2>1. out[p].kind = "doc" \/ out[p].kind = "dir" BY <1>2, <1>4 DEF Kinds
  <2>2. CASE out[p].kind = "doc"
    <3>1. PICK i \in DOMAIN j.docs : out[p] = DocPage(j, i) BY <1>2, <2>2 DEF HasDocs
    <3>2. DocPage(j, i).side = _sidebar(j.docs) BY DocPageIs
    <3> QED BY <1>3, <3>1, <3>2
  <2>3. CASE out[p].kind = "dir" BY <1>2, <1>3, <2>3 DEF HasListings
  <2> QED BY <2>1, <2>2, <2>3
<1>5. out[f].side = _sidebar(docs) /\ out[g].side = _sidebar(docs) BY <1>4
<1>6. ASSUME out[f].kind = "doc"
      PROVE  \E k \in DOMAIN out[g].side : \E i \in DOMAIN out[g].side[k] : out[g].side[k][i] = out[f].from
  <2>1. PICK i \in DOMAIN docs : out[f] = DocPage(j, i) BY <1>2, <1>3, <1>6 DEF HasDocs
  <2>2. out[f].from = docs[i]
    <3>1. DocPage(j, i).from = j.docs[i] BY DocPageIs
    <3> QED BY <1>3, <2>1, <3>1
  <2>3. \E k \in DOMAIN _sidebar(docs) : \E m \in DOMAIN _sidebar(docs)[k] : _sidebar(docs)[k][m] = docs[i]
    BY <1>3, SidebarCovers
  <2> QED BY <1>5, <2>2, <2>3
<1> QED BY <1>5, <1>6

LEMMA PagerHolds == SiteInv => PagerChains
<1> DEFINE pages == {f \in DOMAIN out : out[f].kind = "doc"}
<1> SUFFICES ASSUME SiteInv, marked
             PROVE  /\ \A f \in pages : \A g \in pages : (out[f].pager.next = g) = (out[g].pager.prev = f)
                    /\ Cardinality({f \in pages : out[f].pager.next = None}) = 1
                    /\ \A f \in pages : out[f].pager.next \in pages \cup {None} /\ Range(out[f].toc) \subseteq Range(out[f].ids)
  BY DEF PagerChains
<1>1. PICK t, t0 \in Trees : Complete(t, t0, out) BY DEF SiteInv, BuildInv
<1> DEFINE j == Job(t, t0)
           docs == collect_docs(t0)
           P(i) == SitePath(docs[i])
<1>2. Rendered(t, t0) /\ DOMAIN out \subseteq Place /\ HasDocs(j, out) BY <1>1 DEF Complete, Kinds
<1>3. /\ j.docs = docs /\ docs \in Seq(DOMAIN t0) /\ IsInjective(docs)
      /\ DOMAIN docs = 1..Len(docs) /\ Len(docs) \in Nat /\ Len(docs) # 0
      /\ \A i \in DOMAIN docs : docs[i] \in Place
  BY <1>2, JobIs
<1>4. \A i, k \in DOMAIN docs : SitePath(docs[i]) = SitePath(docs[k]) => i = k BY <1>2, PagesOnce
<1>5. None \notin Place BY DocsAssumption DEF Repository
<1> HIDE DEF j, docs
<1>6. \A i, k \in DOMAIN docs : P(i) = P(k) => i = k BY <1>4
<1>7. \A i \in DOMAIN docs : P(i) \in Place /\ P(i) # None BY <1>3, <1>5, Placed
<1>8. ASSUME NEW f \in pages PROVE \E i \in DOMAIN docs : f = P(i) /\ out[f] = DocPage(j, i)
  BY <1>2, <1>3, <1>8 DEF HasDocs
<1>9. ASSUME NEW i \in DOMAIN docs PROVE P(i) \in pages /\ out[P(i)] = DocPage(j, i)
  <2>1. P(i) \in pages BY <1>2, <1>3 DEF HasDocs
  <2>2. PICK k \in DOMAIN docs : P(i) = P(k) /\ out[P(i)] = DocPage(j, k) BY <1>8, <2>1
  <2>3. i = k BY <1>6, <2>2
  <2> QED BY <2>1, <2>2, <2>3
<1>10. ASSUME NEW i \in DOMAIN docs
       PROVE  /\ out[P(i)].pager.next = IF i + 1 \in DOMAIN docs THEN P(i + 1) ELSE None
              /\ out[P(i)].pager.prev = IF i - 1 \in DOMAIN docs THEN P(i - 1) ELSE None
              /\ out[P(i)].toc = _toc(out[P(i)].ids)
  <2>1. /\ DocPage(j, i).pager = _pager(j.docs[i], j.docs) /\ DocPage(j, i).ids = j.rendered[i].ids
        /\ DocPage(j, i).toc = _toc(j.rendered[i].ids)
    BY DocPageIs
  <2>2. /\ _pager(docs[i], docs).next = IF i + 1 \in DOMAIN docs THEN P(i + 1) ELSE None
        /\ _pager(docs[i], docs).prev = IF i - 1 \in DOMAIN docs THEN P(i - 1) ELSE None
    BY <1>3, PagerIs
  <2>3. out[P(i)] = DocPage(j, i) BY <1>9
  <2> HIDE DEF P
  <2> QED BY <1>3, <2>1, <2>2, <2>3
<1>11. \A f \in pages : \E i \in DOMAIN docs : f = P(i) BY <1>8
<1>12. \A i \in DOMAIN docs : P(i) \in pages BY <1>9
<1> HIDE DEF pages, P
<1>13. ASSUME NEW f \in pages, NEW g \in pages PROVE (out[f].pager.next = g) = (out[g].pager.prev = f)
  <2>1. PICK i \in DOMAIN docs : f = P(i) BY <1>11
  <2>2. PICK k \in DOMAIN docs : g = P(k) BY <1>11
  <2>3. i \in Int /\ k \in Int BY <1>3
  <2>4. (out[f].pager.next = g) <=> i + 1 = k
    <3>1. CASE i + 1 \in DOMAIN docs
      <4>1. out[f].pager.next = P(i + 1) BY <1>10, <2>1, <3>1
      <4>2. P(i + 1) = P(k) <=> i + 1 = k BY <1>6, <3>1
      <4> QED BY <2>2, <4>1, <4>2
    <3>2. CASE i + 1 \notin DOMAIN docs
      <4>1. out[f].pager.next = None BY <1>10, <2>1, <3>2
      <4>2. g # None /\ i + 1 # k BY <1>7, <2>2, <3>2
      <4> QED BY <4>1, <4>2
    <3> QED BY <3>1, <3>2
  <2>5. (out[g].pager.prev = f) <=> k - 1 = i
    <3>1. CASE k - 1 \in DOMAIN docs
      <4>1. out[g].pager.prev = P(k - 1) BY <1>10, <2>2, <3>1
      <4>2. P(k - 1) = P(i) <=> k - 1 = i BY <1>6, <3>1
      <4> QED BY <2>1, <4>1, <4>2
    <3>2. CASE k - 1 \notin DOMAIN docs
      <4>1. out[g].pager.prev = None BY <1>10, <2>2, <3>2
      <4>2. f # None /\ k - 1 # i BY <1>7, <2>1, <3>2
      <4> QED BY <4>1, <4>2
    <3> QED BY <3>1, <3>2
  <2>6. i + 1 = k <=> k - 1 = i BY <2>3
  <2> QED BY <2>4, <2>5, <2>6
<1>14. Cardinality({f \in pages : out[f].pager.next = None}) = 1
  <2>1. Len(docs) \in DOMAIN docs /\ Len(docs) + 1 \notin DOMAIN docs BY <1>3
  <2>2. out[P(Len(docs))].pager.next = None BY <1>10, <2>1
  <2>3. ASSUME NEW f \in pages, out[f].pager.next = None PROVE f = P(Len(docs))
    <3>1. PICK i \in DOMAIN docs : f = P(i) BY <1>11
    <3>2. i + 1 \notin DOMAIN docs
      <4> SUFFICES ASSUME i + 1 \in DOMAIN docs PROVE FALSE OBVIOUS
      <4>1. out[f].pager.next = P(i + 1) BY <1>10, <3>1
      <4> QED BY <1>7, <2>3, <4>1
    <3>3. i = Len(docs) BY <1>3, <3>2
    <3> QED BY <3>1, <3>3
  <2>4. {f \in pages : out[f].pager.next = None} = {P(Len(docs))} BY <1>12, <2>1, <2>2, <2>3
  <2> QED BY <2>4, FS_Singleton
<1>15. ASSUME NEW f \in pages
       PROVE  out[f].pager.next \in pages \cup {None} /\ Range(out[f].toc) \subseteq Range(out[f].ids)
  <2>1. PICK i \in DOMAIN docs : f = P(i) BY <1>11
  <2>2. out[f].pager.next \in pages \cup {None} BY <1>10, <1>12, <2>1
  <2>3. out[f].toc = _toc(out[f].ids) BY <1>10, <2>1
  <2>4. Range(<<>>) = {} BY DEF Range
  <2>5. out[f].toc = <<>> \/ out[f].toc = out[f].ids BY <2>3 DEF _toc
  <2>6. Range(out[f].toc) \subseteq Range(out[f].ids) BY <2>4, <2>5
  <2> QED BY <2>2, <2>6
<1> QED BY <1>13, <1>14, <1>15

\* A site that carries its marker is one complete build: finished and made by a
\* build, its pages list the same documents, each of them there, and the pager is
\* one chain through them, whatever authors, interrupts and rebuilds do
\* (build, main, page_html, _pager).
THEOREM SiteIsWhole == Spec => []SiteWhole
<1>1. SiteInv => SiteWhole BY OneBuildHolds, PagerHolds DEF SiteWhole, SiteInv
<1> QED BY <1>1, SiteInvHolds, PTL

\* In a site that carries its marker every link of every document opens what its
\* author linked: no listing, copy or other document's page stands in its place
\* (rewrite, generate_dir_indexes, verify_links).
THEOREM LinksOpenWhatIsLinked == Spec => []LinksLeadHome
<1>1. SiteInv => LinksLeadHome BY LinksOpen
<1> QED BY <1>1, SiteInvHolds, PTL

=============================================================================
