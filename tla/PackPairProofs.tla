--------------------------- MODULE PackPairProofs ---------------------------
(***************************************************************************)
(* Theorems about PackPair, for every stream and every two packs of which  *)
(* one has the wider limits.                                               *)
(*                                                                         *)
(* The tight account is an engine of its own, so what RulesEngineProofs    *)
(* proves of one engine holds of it: T below is Tight with its theorems.   *)
(* The two are followed handler by handler: their records keep differing   *)
(* in flags only (SameMoney), and every list of verdicts pays what the     *)
(* wide pack owes (Paid).                                                  *)
(***************************************************************************)
EXTENDS PackPair, FiniteSetTheorems, SequenceTheorems, FunctionTheorems, TLAPS

T == INSTANCE RulesEngineProofs WITH
  Packs <- TightPacks, pack <- tPack, state <- tState, verdicts <- tVerdicts,
  alerts <- tAlerts, applied <- tApplied

\* T's operators are Tight's: the parts of the record.
LEMMA SameParts ==
  ASSUME NEW s, NEW e
  PROVE  /\ Tight!DedupKey(e) = T!DedupKey(e)
         /\ Tight!EquityOf(s) = T!EquityOf(s)
         /\ \A x, y : Tight!Pnl(x, y) = T!Pnl(x, y)
         /\ \A x : Tight!OrZero(x) = T!OrZero(x)
         /\ \A x, y : Tight!When(x, y) = T!When(x, y)
         /\ \A x, y : Tight!Verdict(s, x, y) = T!Verdict(s, x, y)
<1>1. Tight!EquityOf(s) = T!EquityOf(s)
  BY DEF Tight!EquityOf, T!EquityOf, Tight!Equity, T!Equity, Tight!Unrealized, T!Unrealized, Tight!Pnl, T!Pnl,
         Tight!MapThenSumSet, T!MapThenSumSet, Tight!MapThenFoldSet, T!MapThenFoldSet
<1>2. \A x, y : Tight!Pnl(x, y) = T!Pnl(x, y)
  BY DEF Tight!Pnl, T!Pnl
<1> QED BY <1>1, <1>2 DEF Tight!DedupKey, T!DedupKey, Tight!OrZero, T!OrZero, Tight!When, T!When, Tight!Verdict, T!Verdict

\* T's rules are Tight's.
LEMMA SameHits ==
  ASSUME NEW s
  PROVE  /\ Tight!TrailedHwm(s) = T!TrailedHwm(s)
         /\ Tight!DailyHit(s) <=> T!DailyHit(s)
         /\ Tight!EodHit(s) <=> T!EodHit(s)
         /\ Tight!OverallHit(s) <=> T!OverallHit(s)
         /\ Tight!TargetHit(s) <=> T!TargetHit(s)
         /\ Tight!WorstEquity(s) = T!WorstEquity(s)
<1>1. /\ \A p, x, y : Tight!BelowDailyFloor(p, x, y) <=> T!BelowDailyFloor(p, x, y)
      /\ \A p, x, y : Tight!BelowOverallFloor(p, x, y) <=> T!BelowOverallFloor(p, x, y)
      /\ \A p, x : Tight!AtTarget(p, x) <=> T!AtTarget(p, x)
  BY DEF Tight!BelowDailyFloor, T!BelowDailyFloor, Tight!BelowOverallFloor, T!BelowOverallFloor,
         Tight!BelowFloor, T!BelowFloor, Tight!AtTarget, T!AtTarget
<1>2. Tight!EquityOf(s) = T!EquityOf(s)
  BY SameParts
<1> QED BY <1>1, <1>2 DEF Tight!TrailedHwm, T!TrailedHwm, Tight!DailyHit, T!DailyHit, Tight!EodHit, T!EodHit,
         Tight!OverallHit, T!OverallHit, Tight!TargetHit, T!TargetHit, Tight!WorstEquity, T!WorstEquity

\* T's steps of apply are Tight's.
LEMMA SameSteps ==
  ASSUME NEW s, NEW e
  PROVE  /\ Tight!CheckRules(s) = T!CheckRules(s)
         /\ Tight!RuleVerdicts(s) = T!RuleVerdicts(s)
         /\ Tight!Settled(s, e) = T!Settled(s, e)
         /\ Tight!CloseAlerts(s, e) = T!CloseAlerts(s, e)
         /\ Tight!Opened(s, e) = T!Opened(s, e)
         /\ Tight!Arrived(e) = T!Arrived(e)
         /\ Tight!Booked(s, e) = T!Booked(s, e)
         /\ Tight!Fresh(e) <=> T!Fresh(e)
         /\ Tight!ClockAlerts(e) = T!ClockAlerts(e)
<1>1. Tight!CheckRules(s) = T!CheckRules(s)
  BY SameHits DEF Tight!CheckRules, T!CheckRules
<1>2. Tight!RuleVerdicts(s) = T!RuleVerdicts(s)
  BY SameHits DEF Tight!RuleVerdicts, T!RuleVerdicts, Tight!When, T!When, Tight!Verdict, T!Verdict
<1>3. Tight!Settled(s, e) = T!Settled(s, e)
  BY SameHits, SameParts DEF Tight!Settled, T!Settled
<1>4. Tight!CloseAlerts(s, e) = T!CloseAlerts(s, e) /\ Tight!ClockAlerts(e) = T!ClockAlerts(e)
  BY SameParts DEF Tight!CloseAlerts, T!CloseAlerts, Tight!ClockAlerts, T!ClockAlerts, Tight!Alert, T!Alert
<1>5. Tight!Opened(s, e) = T!Opened(s, e)
  BY SameParts DEF Tight!Opened, T!Opened
<1>6. Tight!Arrived(e) = T!Arrived(e) /\ (Tight!Fresh(e) <=> T!Fresh(e))
  BY SameParts DEF Tight!Arrived, T!Arrived, Tight!Fresh, T!Fresh
<1>7. Tight!Booked(s, e) = T!Booked(s, e)
  BY DEF Tight!Booked, T!Booked
<1> QED BY <1>1, <1>2, <1>3, <1>4, <1>5, <1>6, <1>7

\* T's drains are Tight's.
LEMMA SameDrains ==
  ASSUME NEW s, NEW o
  PROVE  /\ Tight!Drained(s, o) = T!Drained(s, o)
         /\ Tight!DrainVerdicts(s, o) = T!DrainVerdicts(s, o)
         /\ Tight!DrainAlerts(s, o) = T!DrainAlerts(s, o)
<1>1. /\ \A q : Tight!Parsed(q) = T!Parsed(q)
      /\ \A q : Tight!Drains(q) <=> T!Drains(q)
      /\ \A q : Tight!Drainer(q) = T!Drainer(q)
  BY DEF Tight!Parsed, T!Parsed, Tight!Drains, T!Drains, Tight!Drainer, T!Drainer, Tight!Min, T!Min
<1>2. Tight!Drained(s, o) = T!Drained(s, o)
  BY <1>1, SameSteps DEF Tight!Drained, T!Drained
<1>3. Tight!DrainVerdicts(s, o) = T!DrainVerdicts(s, o)
  BY <1>1, SameSteps DEF Tight!DrainVerdicts, T!DrainVerdicts
<1>4. Tight!DrainAlerts(s, o) = T!DrainAlerts(s, o)
  BY <1>1, SameSteps, SameParts DEF Tight!DrainAlerts, T!DrainAlerts, Tight!Alert, T!Alert
<1> QED BY <1>2, <1>3, <1>4

\* T's apply is Tight's.
LEMMA SameApply == ASSUME NEW e PROVE Tight!Apply(e) <=> T!Apply(e)
<1>a. \A s : Tight!CheckRules(s) = T!CheckRules(s)
  BY SameSteps
<1>b. \A s : Tight!RuleVerdicts(s) = T!RuleVerdicts(s)
  BY SameSteps
<1>c. \A s : Tight!Settled(s, e) = T!Settled(s, e)
  BY SameSteps
<1>d. \A s : Tight!CloseAlerts(s, e) = T!CloseAlerts(s, e)
  BY SameSteps
<1>e. \A s : Tight!Booked(s, e) = T!Booked(s, e)
  BY SameSteps
<1>f. /\ Tight!Opened(Tight!Arrived(e), e) = T!Opened(T!Arrived(e), e)
      /\ Tight!Arrived(e) = T!Arrived(e)
      /\ Tight!Fresh(e) <=> T!Fresh(e)
  BY SameSteps
<1>g. \A s : Tight!TrailedHwm(s) = T!TrailedHwm(s)
  BY SameHits
<1>h. /\ \A s, o : Tight!Drained(s, o) = T!Drained(s, o)
      /\ \A s, o : Tight!DrainVerdicts(s, o) = T!DrainVerdicts(s, o)
      /\ \A s, o : Tight!DrainAlerts(s, o) = T!DrainAlerts(s, o)
  BY SameDrains
<1>i. \A y : (Tight!EodHit(tState) <=> T!EodHit(tState)) /\ Tight!EquityOf(tState) = T!EquityOf(tState)
  BY SameHits, SameParts
<1>j. /\ \A x, y : Tight!When(x, y) = T!When(x, y)
      /\ \A x, y : Tight!Verdict(tState, x, y) = T!Verdict(tState, x, y)
  BY SameParts
<1>1. \A s, vs, as : Tight!Return(e, s, vs, as) <=> T!Return(e, s, vs, as)
  BY SameSteps DEF Tight!Return, T!Return
<1>2. \A k : Tight!Alert(k, e) = T!Alert(k, e)
  BY SameParts DEF Tight!Alert, T!Alert
<1>3. Tight!Duplicate(e) <=> T!Duplicate(e)
  BY SameSteps DEF Tight!Duplicate, T!Duplicate, Tight!vars, T!vars
<1>4. Tight!Mark(e) <=> T!Mark(e)
  BY <1>1, <1>a, <1>b, <1>e, <1>f DEF Tight!Mark, T!Mark
<1>5. Tight!NewsVerdicts(e) = T!NewsVerdicts(e)
  BY <1>j DEF Tight!NewsVerdicts, T!NewsVerdicts, Tight!SymbolInScope, T!SymbolInScope, 
     Tight!TierInScope, T!TierInScope
<1>6. Tight!OrderFilled(e) <=> T!OrderFilled(e)
  BY <1>1, <1>2, <1>5, <1>a, <1>b, <1>e, <1>f, <1>h DEF Tight!OrderFilled, T!OrderFilled
<1>7. Tight!TradeClosed(e) <=> T!TradeClosed(e)
  BY <1>1, <1>2, <1>a, <1>b, <1>c, <1>d, <1>e, <1>f DEF Tight!TradeClosed, T!TradeClosed
<1>8. Tight!BalanceAdjustment(e) <=> T!BalanceAdjustment(e)
  BY <1>1, <1>2, <1>a, <1>b, <1>e, <1>f, <1>g DEF Tight!BalanceAdjustment, T!BalanceAdjustment
<1>9. Tight!AccountStateReport(e) <=> T!AccountStateReport(e)
  BY <1>1, <1>2, <1>e, <1>f DEF Tight!AccountStateReport, T!AccountStateReport
<1>10. Tight!NewsWindow(e) <=> T!NewsWindow(e)
  <2> DEFINE Opening(a) == [a EXCEPT !.news_windows =
               @ \cup {[symbol |-> e.symbol, tier |-> e.tier, start |-> e.start, end |-> e.end]}]
             Pre == {o \in Orders : /\ tState.positions[o] # None
                                    /\ tState.positions[o].symbol = e.symbol
                                    /\ tState.positions[o].opened_ts < e.start}
             Flags(n, v) == [i \in 1..n |-> v]
             Scope == /\ tPack.news.enabled
                      /\ T!SymbolInScope(tPack.news, e.symbol)
                      /\ T!TierInScope(tPack.news, e.tier)
             Aside == Tight!Return(e, Opening(Tight!Arrived(e)), <<>>, {})
             Within == Tight!Return(e, Tight!Booked(Opening(Tight!Arrived(e)), e),
                                    Flags(Tight!Cardinality(Pre), Tight!Verdict(tState, "NewsPrePositioned", "Flagged")), {})
             AsideT == T!Return(e, Opening(T!Arrived(e)), <<>>, {})
             WithinT == T!Return(e, T!Booked(Opening(T!Arrived(e)), e),
                                 Flags(T!Cardinality(Pre), T!Verdict(tState, "NewsPrePositioned", "Flagged")), {})
  <2>1. T!NewsWindow(e) <=> /\ e.type = "news" /\ T!Fresh(e)
                            /\ (~Scope /\ AsideT) \/ (Scope /\ WithinT)
    BY Zenon DEF T!NewsWindow
  <2>2. /\ Tight!SymbolInScope(tPack.news, e.symbol) <=> T!SymbolInScope(tPack.news, e.symbol)
        /\ Tight!TierInScope(tPack.news, e.tier) <=> T!TierInScope(tPack.news, e.tier)
    BY DEF Tight!SymbolInScope, T!SymbolInScope, Tight!TierInScope, T!TierInScope
  <2>3. Tight!NewsWindow(e) <=> /\ e.type = "news" /\ Tight!Fresh(e)
                                /\ (~Scope /\ Aside) \/ (Scope /\ Within)
    BY <2>2, Zenon DEF Tight!NewsWindow
  <2>4. Aside <=> AsideT
    <3> HIDE DEF Opening
    <3> QED BY <1>1, <1>f
  <2>5. Within <=> WithinT
    <3> HIDE DEF Opening, Flags, Pre
    <3>1. \A x : Tight!Cardinality(x) = T!Cardinality(x)
      BY DEF Tight!Cardinality, T!Cardinality
    <3> QED BY <1>1, <1>e, <1>f, <1>j, <3>1
  <2> HIDE DEF Opening, Flags, Scope, Aside, AsideT, Within, WithinT
  <2> QED BY <1>f, <2>1, <2>3, <2>4, <2>5
<1>11. Tight!Rollover(e) <=> T!Rollover(e)
  BY <1>1, <1>e, <1>f, <1>g, <1>i DEF Tight!Rollover, T!Rollover, Tight!NewDay, T!NewDay,
    Tight!When, T!When, Tight!Verdict, T!Verdict
<1> QED BY <1>3, <1>4, <1>6, <1>7, <1>8, <1>9, <1>10, <1>11 DEF Tight!Apply, T!Apply

-----------------------------------------------------------------------------
(* Counting daily breaches *)

Listed(vs) == \E S : vs \in Seq(S)

Daily(vs) == Cardinality(Breaches(vs, "DailyMaxLoss"))

IsDaily(v) == v.rule = "DailyMaxLoss" /\ v.status = "Breach"

\* A list has a length, and finitely many daily breaches.
LEMMA ListedParts ==
  ASSUME NEW vs, Listed(vs)
  PROVE  Len(vs) \in Nat /\ DOMAIN vs = 1..Len(vs) /\ IsFiniteSet(Breaches(vs, "DailyMaxLoss")) /\ Daily(vs) \in Nat
<1>1. PICK S : vs \in Seq(S)
  BY DEF Listed
<1>2. Len(vs) \in Nat /\ DOMAIN vs = 1..Len(vs)
  BY <1>1, LenProperties
<1>3. Breaches(vs, "DailyMaxLoss") \subseteq 1..Len(vs)
  BY <1>2 DEF Breaches
<1>4. IsFiniteSet(1..Len(vs))
  BY <1>2, FS_Interval
<1> QED BY <1>2, <1>3, <1>4, FS_Subset, FS_CardinalityType DEF Daily

\* Two lists joined.
LEMMA JoinParts ==
  ASSUME NEW vs, NEW ws, Listed(vs), Listed(ws)
  PROVE  /\ Listed(vs \o ws) /\ Len(vs \o ws) = Len(vs) + Len(ws)
         /\ \A i \in 1..Len(vs) : (vs \o ws)[i] = vs[i]
         /\ \A i \in (Len(vs) + 1)..(Len(vs) + Len(ws)) : (vs \o ws)[i] = ws[i - Len(vs)]
<1>1. PICK S : vs \in Seq(S)
  BY DEF Listed
<1>2. PICK R : ws \in Seq(R)
  BY DEF Listed
<1>3. PICK Q : Q = S \cup R
  OBVIOUS
<1>4. S \subseteq Q /\ R \subseteq Q
  BY <1>3
<1>5. vs \in Seq(Q)
  BY <1>1, <1>4, SeqMonotonic
<1>6. ws \in Seq(Q)
  BY <1>2, <1>4, SeqMonotonic
<1>7. vs \o ws \in Seq(Q)
  BY <1>5, <1>6, ConcatProperties
<1> QED BY <1>5, <1>6, <1>7, ConcatProperties DEF Listed

\* The breaches of two lists joined are the breaches of both.
LEMMA DailyJoin ==
  ASSUME NEW vs, NEW ws, Listed(vs), Listed(ws)
  PROVE  Listed(vs \o ws) /\ Daily(vs \o ws) = Daily(vs) + Daily(ws)
<1>1. PICK u : u = vs \o ws
  OBVIOUS
<1>2. PICK l, m : l = Len(vs) /\ m = Len(ws)
  OBVIOUS
<1>3. l \in Nat /\ m \in Nat /\ DOMAIN vs = 1..l /\ DOMAIN ws = 1..m
  BY <1>2, ListedParts
<1>4. /\ Listed(u) /\ DOMAIN u = 1..(l + m)
      /\ \A i \in 1..l : u[i] = vs[i]
      /\ \A i \in (l + 1)..(l + m) : u[i] = ws[i - l]
  BY <1>1, <1>2, JoinParts, ListedParts
<1>5. PICK A, B, C : /\ A = {i \in 1..l : IsDaily(vs[i])}
                     /\ C = {i \in 1..m : IsDaily(ws[i])}
                     /\ B = {i \in (l + 1)..(l + m) : IsDaily(u[i])}
  OBVIOUS
<1>6. /\ Daily(vs) = Cardinality(A) /\ Daily(ws) = Cardinality(C)
      /\ Daily(u) = Cardinality(A \cup B)
  <2>1. Breaches(vs, "DailyMaxLoss") = A /\ Breaches(ws, "DailyMaxLoss") = C
    BY <1>3, <1>5 DEF Breaches, IsDaily
  <2>2. Breaches(u, "DailyMaxLoss") = A \cup B
    BY <1>3, <1>4, <1>5 DEF Breaches, IsDaily
  <2> QED BY <2>1, <2>2 DEF Daily
<1>7. IsFiniteSet(A) /\ IsFiniteSet(B) /\ A \cap B = {}
  <2>1. IsFiniteSet(1..l) /\ IsFiniteSet((l + 1)..(l + m))
    BY <1>3, FS_Interval
  <2>2. A \subseteq 1..l /\ B \subseteq (l + 1)..(l + m)
    BY <1>5
  <2>3. A \cap B = {}
    BY <1>3, <2>2
  <2> QED BY <2>1, <2>2, <2>3, FS_Subset
<1>8. Cardinality(C) = Cardinality(B) /\ IsFiniteSet(C)
  <2>1. PICK f : f = [i \in B |-> i - l]
    OBVIOUS
  <2>2. \A i \in B : i \in (l + 1)..(l + m) /\ i - l \in 1..m /\ i \in Int /\ IsDaily(ws[i - l])
    BY <1>3, <1>4, <1>5
  <2>3. f \in [B -> C]
    BY <1>5, <2>1, <2>2
  <2>4. \A i, j \in B : f[i] = f[j] => i = j
    BY <1>3, <2>1, <2>2
  <2>5. \A k \in C : \E i \in B : f[i] = k
    <3> SUFFICES ASSUME NEW k \in C PROVE \E i \in B : f[i] = k
      OBVIOUS
    <3>1. k \in 1..m /\ IsDaily(ws[k])
      BY <1>5
    <3>2. PICK i : i = l + k
      OBVIOUS
    <3>3. i \in (l + 1)..(l + m) /\ i - l = k
      BY <1>3, <3>1, <3>2
    <3>4. i \in B
      BY <1>4, <1>5, <3>1, <3>3
    <3> QED BY <2>1, <3>3, <3>4
  <2>6. f \in Bijection(B, C)
    BY <2>3, <2>4, <2>5, Fun_IsBij
  <2> QED BY <1>7, <2>6, FS_Bijection DEF ExistsBijection
<1>9. Cardinality(A \cup B) = Cardinality(A) + Cardinality(B)
  <2>1. Cardinality(A \cup B) = Cardinality(A) + Cardinality(B) - Cardinality(A \cap B)
    BY <1>7, FS_Union
  <2>2. Cardinality({}) = 0
    BY FS_EmptySet
  <2>3. Cardinality(A) \in Nat /\ Cardinality(B) \in Nat
    BY <1>7, FS_CardinalityType
  <2>4. PICK a, b : a = Cardinality(A) /\ b = Cardinality(B)
    OBVIOUS
  <2>5. Cardinality(A \cup B) = a + b - 0
    BY <1>7, <2>1, <2>2, <2>4
  <2>6. a + b - 0 = a + b
    BY <2>3, <2>4
  <2> QED BY <2>4, <2>5, <2>6
<1> QED BY <1>1, <1>4, <1>6, <1>8, <1>9

\* The lists of none and of one.
LEMMA DailyOne ==
  ASSUME NEW v
  PROVE  /\ Listed(<<>>) /\ Daily(<<>>) = 0
         /\ Listed(<<v>>) /\ Daily(<<v>>) = IF IsDaily(v) THEN 1 ELSE 0
<1>1. <<>> \in Seq({}) /\ DOMAIN <<>> = {}
  OBVIOUS
<1>2. <<v>> \in Seq({v}) /\ DOMAIN <<v>> = {1} /\ <<v>>[1] = v
  OBVIOUS
<1>3. Breaches(<<>>, "DailyMaxLoss") = {}
  BY <1>1 DEF Breaches
<1>4. Breaches(<<v>>, "DailyMaxLoss") = IF IsDaily(v) THEN {1} ELSE {}
  BY <1>2 DEF Breaches, IsDaily
<1>5. Cardinality({}) = 0 /\ Cardinality({1}) = 1
  BY FS_EmptySet, FS_Singleton
<1> QED BY <1>1, <1>2, <1>3, <1>4, <1>5 DEF Listed, Daily

-----------------------------------------------------------------------------
(* Two accounts under the two packs *)

\* What the two packs have in common, and how they differ.
PacksNest ==
  /\ lPack.trailing = tPack.trailing
  /\ lPack.daily_basis_equity = tPack.daily_basis_equity
  /\ lPack.daily_breach_intraday = tPack.daily_breach_intraday
  /\ lPack.start_balance = tPack.start_balance
  /\ lPack.news = tPack.news
  /\ tPack.daily_loss_pct \in Int /\ lPack.daily_loss_pct \in Int
  /\ tPack.daily_loss_pct <= lPack.daily_loss_pct

\* The two records differ in flags only, and an eod pack never raises the day's.
SameMoney(s, u) ==
  /\ T!Shaped(s) /\ T!Shaped(u) /\ T!SameBook(s, u)
  /\ u.hwm = s.hwm /\ u.day_counter = s.day_counter
  /\ u.seen_dedup_keys = s.seen_dedup_keys
  /\ u.day.start_equity = s.day.start_equity
  /\ u.day.worst_equity = s.day.worst_equity
  /\ u.day.traded = s.day.traded
  /\ s.day.daily_breached \in BOOLEAN /\ u.day.daily_breached \in BOOLEAN
  /\ ~tPack.daily_breach_intraday => ~s.day.daily_breached /\ ~u.day.daily_breached

\* The equity of both is the same, and so is what is derived from it alone.
LEMMA SameEquity ==
  ASSUME PacksNest, NEW s, NEW u, SameMoney(s, u)
  PROVE  /\ Loose!EquityOf(u) = T!EquityOf(s)
         /\ Loose!TrailedHwm(u) = T!TrailedHwm(s)
         /\ Loose!WorstEquity(u) = T!WorstEquity(s)
<1>1. \A b, p, l : Loose!Equity(b, p, l) = T!Equity(b, p, l)
  BY DEF Loose!Equity, T!Equity, Loose!Unrealized, T!Unrealized, Loose!Pnl, T!Pnl,
         Loose!MapThenSumSet, T!MapThenSumSet, Loose!MapThenFoldSet, T!MapThenFoldSet
<1>2. Loose!EquityOf(u) = T!EquityOf(s)
  BY <1>1 DEF SameMoney, T!SameBook, Loose!EquityOf, T!EquityOf
<1>3. Loose!TrailedHwm(u) = T!TrailedHwm(s)
  BY <1>2 DEF PacksNest, SameMoney, Loose!TrailedHwm, T!TrailedHwm
<1>4. Loose!WorstEquity(u) = T!WorstEquity(s)
  BY <1>2 DEF PacksNest, SameMoney, Loose!WorstEquity, T!WorstEquity
<1> QED BY <1>2, <1>3, <1>4

\* The account under the wide pack has breached its day only if the other has.
Behind(s, u) == u.day.daily_breached => s.day.daily_breached

Owed(s, u) == IF s.day.daily_breached /\ ~u.day.daily_breached THEN 1 ELSE 0

\* From records s and u to s2 and u2, returning vs and ws: the breach the wide
\* pack has not reported yet is the only one it may still report alone.
Paid(s, u, s2, u2, vs, ws) ==
  /\ Listed(vs) /\ Listed(ws)
  /\ s.day.start_equity \in Nat /\ Behind(s, u) =>
       Behind(s2, u2) /\ Daily(ws) + Owed(s2, u2) <= Daily(vs) + Owed(s, u)

\* What two steps pay, one after the other, their verdicts pay together.
LEMMA PaidThen ==
  ASSUME NEW s, NEW u, NEW s2, NEW u2, NEW s3, NEW u3, NEW vs, NEW ws, NEW vs2, NEW ws2,
         Paid(s, u, s2, u2, vs, ws), Paid(s2, u2, s3, u3, vs2, ws2),
         s2.day.start_equity = s.day.start_equity
  PROVE  Paid(s, u, s3, u3, vs \o vs2, ws \o ws2)
<1>1. /\ Listed(vs \o vs2) /\ Daily(vs \o vs2) = Daily(vs) + Daily(vs2)
      /\ Listed(ws \o ws2) /\ Daily(ws \o ws2) = Daily(ws) + Daily(ws2)
  BY DailyJoin DEF Paid
<1>2. ASSUME s.day.start_equity \in Nat, Behind(s, u)
      PROVE  /\ Behind(s3, u3)
             /\ Daily(ws \o ws2) + Owed(s3, u3) <= Daily(vs \o vs2) + Owed(s, u)
  <2>1. PICK a, b, c, d : a = Daily(vs) /\ b = Daily(ws) /\ c = Daily(vs2) /\ d = Daily(ws2)
    OBVIOUS
  <2>2. a \in Nat /\ b \in Nat /\ c \in Nat /\ d \in Nat
    BY <2>1, ListedParts DEF Paid
  <2>3. PICK x, y, z : x = Owed(s, u) /\ y = Owed(s2, u2) /\ z = Owed(s3, u3)
    OBVIOUS
  <2>4. x \in Nat /\ y \in Nat /\ z \in Nat
    BY <2>3 DEF Owed
  <2>5. Behind(s2, u2) /\ b + y <= a + x
    BY <1>2, <2>1, <2>3 DEF Paid
  <2>6. Behind(s3, u3) /\ d + z <= c + y
    BY <1>2, <2>1, <2>3, <2>5 DEF Paid
  <2>7. (b + d) + z <= (a + c) + x
    BY <2>2, <2>4, <2>5, <2>6
  <2> QED BY <1>1, <2>1, <2>3, <2>6, <2>7
<1> QED BY <1>1, <1>2 DEF Paid

\* The tight engine's assumptions are T's.
LEMMA Assumed == T!PackAssumption /\ T!EngineAssumption
BY PairAssumption DEF Tight!PackAssumption, T!PackAssumption, Tight!EngineAssumption, T!EngineAssumption,
   Tight!RulePacks, T!RulePacks, Tight!RawNews, T!RawNews, Tight!Positions, T!Positions

\* A wider percentage of a start that is not negative has the lower floor.
LEMMA FloorsNest ==
  ASSUME NEW x \in Int, NEW b \in Nat, NEW p \in Int, NEW q \in Int, p <= q,
         100 * x < b * (100 - q)
  PROVE  100 * x < b * (100 - p)
<1>1. b * (q - p) \in Nat
  <2>1. q - p \in Nat
    OBVIOUS
  <2> QED BY <2>1
<1>2. b * (100 - p) = b * (100 - q) + b * (q - p)
  OBVIOUS
<1>3. b * (100 - q) \in Int
  OBVIOUS
<1> QED BY <1>1, <1>2, <1>3

\* Of three lists joined, where only the first has daily breaches.
LEMMA DailyThrice ==
  ASSUME NEW a, NEW b, NEW c, Listed(a), Listed(b), Listed(c), Daily(b) = 0, Daily(c) = 0
  PROVE  Listed(a \o b \o c) /\ Daily(a \o b \o c) = Daily(a)
<1>1. Listed(a \o b) /\ Daily(a \o b) = Daily(a) + 0
  BY DailyJoin
<1>2. Listed((a \o b) \o c) /\ Daily((a \o b) \o c) = (Daily(a) + 0) + 0
  BY <1>1, DailyJoin
<1>3. (Daily(a) + 0) + 0 = Daily(a)
  BY ListedParts
<1> QED BY <1>2, <1>3

\* Of the rules' verdicts only the daily one is a daily breach.
LEMMA RulesDaily ==
  ASSUME NEW s
  PROVE  /\ Listed(T!RuleVerdicts(s)) /\ Listed(Loose!RuleVerdicts(s))
         /\ Daily(T!RuleVerdicts(s)) = IF T!DailyHit(s) THEN 1 ELSE 0
         /\ Daily(Loose!RuleVerdicts(s)) = IF Loose!DailyHit(s) THEN 1 ELSE 0
<1>1. /\ \A k : T!Verdict(s, "DailyMaxLoss", k).rule = "DailyMaxLoss" /\ T!Verdict(s, "DailyMaxLoss", k).status = k
      /\ \A k : ~IsDaily(T!Verdict(s, "MaxOverallLoss", k)) /\ ~IsDaily(T!Verdict(s, "ProfitTarget", k))
  BY DEF T!Verdict, IsDaily
<1>2. /\ \A k : Loose!Verdict(s, "DailyMaxLoss", k).rule = "DailyMaxLoss" /\ Loose!Verdict(s, "DailyMaxLoss", k).status = k
      /\ \A k : ~IsDaily(Loose!Verdict(s, "MaxOverallLoss", k)) /\ ~IsDaily(Loose!Verdict(s, "ProfitTarget", k))
  BY DEF Loose!Verdict, IsDaily
<1>3. /\ T!DailyHit(s) \in BOOLEAN /\ T!OverallHit(s) \in BOOLEAN /\ T!TargetHit(s) \in BOOLEAN
      /\ Loose!DailyHit(s) \in BOOLEAN /\ Loose!OverallHit(s) \in BOOLEAN /\ Loose!TargetHit(s) \in BOOLEAN
  BY DEF T!DailyHit, T!OverallHit, T!TargetHit, Loose!DailyHit, Loose!OverallHit, Loose!TargetHit
<1>4. Listed(T!RuleVerdicts(s)) /\ Daily(T!RuleVerdicts(s)) = IF T!DailyHit(s) THEN 1 ELSE 0
  <2>1. PICK a, b, c : /\ a = T!When(T!DailyHit(s), T!Verdict(s, "DailyMaxLoss", "Breach"))
                       /\ b = T!When(T!OverallHit(s), T!Verdict(s, "MaxOverallLoss", "Breach"))
                       /\ c = T!When(T!TargetHit(s), T!Verdict(s, "ProfitTarget", "TargetReached"))
    OBVIOUS
  <2>2. Listed(a) /\ Daily(a) = IF T!DailyHit(s) THEN 1 ELSE 0
    BY <1>1, <1>3, <2>1, DailyOne DEF IsDaily, T!When
  <2>3. Listed(b) /\ Daily(b) = 0
    BY <1>1, <1>3, <2>1, DailyOne DEF T!When
  <2>4. Listed(c) /\ Daily(c) = 0
    BY <1>1, <1>3, <2>1, DailyOne DEF T!When
  <2>5. T!RuleVerdicts(s) = a \o b \o c
    BY <2>1 DEF T!RuleVerdicts
  <2> QED BY <2>2, <2>3, <2>4, <2>5, DailyThrice
<1>5. Listed(Loose!RuleVerdicts(s)) /\ Daily(Loose!RuleVerdicts(s)) = IF Loose!DailyHit(s) THEN 1 ELSE 0
  <2>1. PICK a, b, c : /\ a = Loose!When(Loose!DailyHit(s), Loose!Verdict(s, "DailyMaxLoss", "Breach"))
                       /\ b = Loose!When(Loose!OverallHit(s), Loose!Verdict(s, "MaxOverallLoss", "Breach"))
                       /\ c = Loose!When(Loose!TargetHit(s), Loose!Verdict(s, "ProfitTarget", "TargetReached"))
    OBVIOUS
  <2>2. Listed(a) /\ Daily(a) = IF Loose!DailyHit(s) THEN 1 ELSE 0
    BY <1>2, <1>3, <2>1, DailyOne DEF IsDaily, Loose!When
  <2>3. Listed(b) /\ Daily(b) = 0
    BY <1>2, <1>3, <2>1, DailyOne DEF Loose!When
  <2>4. Listed(c) /\ Daily(c) = 0
    BY <1>2, <1>3, <2>1, DailyOne DEF Loose!When
  <2>5. Loose!RuleVerdicts(s) = a \o b \o c
    BY <2>1 DEF Loose!RuleVerdicts
  <2> QED BY <2>2, <2>3, <2>4, <2>5, DailyThrice
<1> QED BY <1>4, <1>5

\* Where the wide pack finds a daily loss the tight one has found it or does now.
LEMMA HitsNest ==
  ASSUME PacksNest, NEW s, NEW u, SameMoney(s, u), T!Typed(s), s.day.start_equity \in Nat
  PROVE  /\ Loose!DailyHit(u) => s.day.daily_breached \/ T!DailyHit(s)
         /\ Loose!EodHit(u) => T!EodHit(s)
<1>1. PICK b, p, q : b = s.day.start_equity /\ p = tPack.daily_loss_pct /\ q = lPack.daily_loss_pct
  OBVIOUS
<1>2. b \in Nat /\ p \in Int /\ q \in Int /\ p <= q
  BY <1>1 DEF PacksNest
<1>3. \A x \in Int : Loose!BelowDailyFloor(lPack, x, b) => T!BelowDailyFloor(tPack, x, b)
  <2> SUFFICES ASSUME NEW x \in Int, Loose!BelowDailyFloor(lPack, x, b)
               PROVE  T!BelowDailyFloor(tPack, x, b)
    OBVIOUS
  <2>1. 100 * x < b * (100 - q)
    BY <1>1 DEF Loose!BelowDailyFloor, Loose!BelowFloor
  <2>2. 100 * x < b * (100 - p)
    BY <1>2, <2>1, FloorsNest
  <2> QED BY <1>1, <2>2 DEF T!BelowDailyFloor, T!BelowFloor
<1>4. T!EquityOf(s) \in Int /\ s.balance \in Int /\ s.day.worst_equity \in Int
  BY Assumed, T!EquityInt DEF T!Typed
<1>5. u.balance = s.balance /\ Loose!EquityOf(u) = T!EquityOf(s)
  BY SameEquity DEF SameMoney, T!SameBook
<1>6. Loose!DailyHit(u) => s.day.daily_breached \/ T!DailyHit(s)
  BY <1>1, <1>3, <1>4, <1>5 DEF Loose!DailyHit, T!DailyHit, PacksNest, SameMoney
<1>7. Loose!EodHit(u) => T!EodHit(s)
  BY <1>1, <1>3, <1>4 DEF Loose!EodHit, T!EodHit, PacksNest, SameMoney
<1> QED BY <1>6, <1>7

\* check_rules pays as it goes.
LEMMA CheckedPair ==
  ASSUME PacksNest, NEW s, NEW u, SameMoney(s, u)
  PROVE  /\ SameMoney(T!CheckRules(s), Loose!CheckRules(u))
         /\ T!CheckRules(s).day.start_equity = s.day.start_equity
         /\ T!Typed(s) => Paid(s, u, T!CheckRules(s), Loose!CheckRules(u), T!RuleVerdicts(s), Loose!RuleVerdicts(u))
<1>1. PICK c, d : c = T!CheckRules(s) /\ d = Loose!CheckRules(u)
  OBVIOUS
<1>2. /\ T!Shaped(c) /\ T!SameBook(s, c) /\ c.hwm = s.hwm /\ c.day_counter = s.day_counter
      /\ c.seen_dedup_keys = s.seen_dedup_keys /\ c.day.start_equity = s.day.start_equity
      /\ c.day.worst_equity = T!WorstEquity(s) /\ c.day.traded = s.day.traded
      /\ c.day.daily_breached = (s.day.daily_breached \/ T!DailyHit(s))
  BY <1>1 DEF T!CheckRules, SameMoney, T!Shaped, T!SameBook, T!Fields, T!DayFields
<1>3. /\ T!Shaped(d) /\ T!SameBook(u, d) /\ d.hwm = u.hwm /\ d.day_counter = u.day_counter
      /\ d.seen_dedup_keys = u.seen_dedup_keys /\ d.day.start_equity = u.day.start_equity
      /\ d.day.worst_equity = Loose!WorstEquity(u) /\ d.day.traded = u.day.traded
      /\ d.day.daily_breached = (u.day.daily_breached \/ Loose!DailyHit(u))
  BY <1>1 DEF Loose!CheckRules, SameMoney, T!Shaped, T!SameBook, T!Fields, T!DayFields
<1>4. /\ ~tPack.daily_breach_intraday => ~T!DailyHit(s) /\ ~Loose!DailyHit(u)
      /\ T!DailyHit(s) => ~s.day.daily_breached
      /\ Loose!DailyHit(u) => ~u.day.daily_breached
  BY DEF T!DailyHit, Loose!DailyHit, PacksNest
<1>5. SameMoney(c, d)
  BY <1>2, <1>3, <1>4, SameEquity DEF SameMoney, T!SameBook
<1>6. ASSUME T!Typed(s), s.day.start_equity \in Nat, Behind(s, u)
      PROVE  /\ Behind(c, d)
             /\ Daily(Loose!RuleVerdicts(u)) + Owed(c, d) <= Daily(T!RuleVerdicts(s)) + Owed(s, u)
  <2>1. Loose!DailyHit(u) => s.day.daily_breached \/ T!DailyHit(s)
    BY <1>6, HitsNest
  <2>2. PICK h, k : /\ h = (IF T!DailyHit(s) THEN 1 ELSE 0) /\ h = Daily(T!RuleVerdicts(s))
                    /\ k = (IF Loose!DailyHit(u) THEN 1 ELSE 0) /\ k = Daily(Loose!RuleVerdicts(u))
    BY RulesDaily
  <2>3. Behind(c, d)
    BY <1>2, <1>3, <1>6, <2>1 DEF Behind
  <2>4. k + Owed(c, d) <= h + Owed(s, u)
    BY <1>2, <1>3, <1>4, <1>6, <2>1, <2>2 DEF Behind, Owed, SameMoney
  <2> QED BY <2>2, <2>3, <2>4
<1>7. T!Typed(s) => Paid(s, u, c, d, T!RuleVerdicts(s), Loose!RuleVerdicts(u))
  BY <1>6, RulesDaily DEF Paid
<1> QED BY <1>1, <1>2, <1>5, <1>7

\* Records with the day's start and flag of others.
SameDay(s, s2) ==
  /\ s2.day.start_equity = s.day.start_equity
  /\ s2.day.daily_breached = s.day.daily_breached

\* What moves no flag and reports no daily breach owes nothing more.
LEMMA QuietPaid ==
  ASSUME NEW s, NEW u, NEW s2, NEW u2, SameDay(s, s2), SameDay(u, u2),
         NEW vs, NEW ws, Listed(vs), Listed(ws), Daily(vs) = 0, Daily(ws) = 0
  PROVE  Paid(s, u, s2, u2, vs, ws)
BY DEF SameDay, Paid, Behind, Owed

\* Only start, flags and counts matter.
LEMMA PaidAlike ==
  ASSUME NEW s, NEW u, NEW s2, NEW u2, NEW vs, NEW ws, Paid(s, u, s2, u2, vs, ws),
         NEW s0, NEW u0, SameDay(s, s0), SameDay(u, u0),
         NEW s3, NEW u3, SameDay(s2, s3), SameDay(u2, u3)
  PROVE  Paid(s0, u0, s3, u3, vs, ws)
BY DEF SameDay, Paid, Behind, Owed

\* The bookkeeping at the end of apply keeps both accounts alike.
LEMMA BookedPair ==
  ASSUME NEW s, NEW u, SameMoney(s, u), NEW e
  PROVE  /\ SameMoney(T!Booked(s, e), Loose!Booked(u, e))
         /\ SameDay(s, T!Booked(s, e)) /\ SameDay(u, Loose!Booked(u, e))
<1>1. PICK t, v : t = T!Booked(s, e) /\ v = Loose!Booked(u, e)
  OBVIOUS
<1>2. /\ T!Shaped(t) /\ T!SameBook(s, t) /\ t.day = s.day /\ t.hwm = s.hwm
      /\ t.day_counter = s.day_counter /\ t.seen_dedup_keys = s.seen_dedup_keys
  BY <1>1 DEF T!Booked, SameMoney, T!Shaped, T!SameBook, T!Fields
<1>3. /\ T!Shaped(v) /\ T!SameBook(u, v) /\ v.day = u.day /\ v.hwm = u.hwm
      /\ v.day_counter = u.day_counter /\ v.seen_dedup_keys = u.seen_dedup_keys
  BY <1>1 DEF Loose!Booked, SameMoney, T!Shaped, T!SameBook, T!Fields
<1>4. SameMoney(t, v) /\ SameDay(s, t) /\ SameDay(u, v)
  BY <1>2, <1>3 DEF SameMoney, T!SameBook, SameDay
<1> QED BY <1>1, <1>4

\* An arriving event's dedup key is seen by both accounts or by neither.
LEMMA ArrivedPair ==
  ASSUME SameMoney(tState, lState), NEW e
  PROVE  /\ SameMoney(T!Arrived(e), Loose!Arrived(e))
         /\ SameDay(tState, T!Arrived(e)) /\ SameDay(lState, Loose!Arrived(e))
         /\ Loose!Fresh(e) <=> T!Fresh(e)
<1>1. PICK t, v : t = T!Arrived(e) /\ v = Loose!Arrived(e)
  OBVIOUS
<1>2. Loose!DedupKey(e) = T!DedupKey(e)
  BY DEF Loose!DedupKey, T!DedupKey
<1>3. /\ T!Shaped(t) /\ T!SameBook(tState, t) /\ t.day = tState.day /\ t.hwm = tState.hwm
      /\ t.day_counter = tState.day_counter
      /\ t.seen_dedup_keys = tState.seen_dedup_keys \cup {T!DedupKey(e)}
  BY <1>1 DEF T!Arrived, SameMoney, T!Shaped, T!SameBook, T!Fields
<1>4. /\ T!Shaped(v) /\ T!SameBook(lState, v) /\ v.day = lState.day /\ v.hwm = lState.hwm
      /\ v.day_counter = lState.day_counter
      /\ v.seen_dedup_keys = lState.seen_dedup_keys \cup {Loose!DedupKey(e)}
  BY <1>1 DEF Loose!Arrived, SameMoney, T!Shaped, T!SameBook, T!Fields
<1>5. SameMoney(t, v) /\ SameDay(tState, t) /\ SameDay(lState, v)
  BY <1>2, <1>3, <1>4 DEF SameMoney, T!SameBook, SameDay
<1>6. Loose!Fresh(e) <=> T!Fresh(e)
  BY <1>2 DEF Loose!Fresh, T!Fresh, SameMoney
<1> QED BY <1>1, <1>5, <1>6

\* The high-water marks follow an equity that is the same.
LEMMA RaisedPair ==
  ASSUME PacksNest, NEW s, NEW u, SameMoney(s, u)
  PROVE  /\ SameMoney([s EXCEPT !.hwm = T!TrailedHwm(s)], [u EXCEPT !.hwm = Loose!TrailedHwm(u)])
         /\ SameDay(s, [s EXCEPT !.hwm = T!TrailedHwm(s)])
         /\ SameDay(u, [u EXCEPT !.hwm = Loose!TrailedHwm(u)])
<1>1. PICK h : h = T!TrailedHwm(s) /\ h = Loose!TrailedHwm(u)
  BY SameEquity
<1>2. PICK t, v : t = [s EXCEPT !.hwm = h] /\ v = [u EXCEPT !.hwm = h]
  OBVIOUS
<1>3. /\ T!Shaped(t) /\ T!SameBook(s, t) /\ t.day = s.day /\ t.hwm = h
      /\ t.day_counter = s.day_counter /\ t.seen_dedup_keys = s.seen_dedup_keys
      /\ T!Shaped(v) /\ T!SameBook(u, v) /\ v.day = u.day /\ v.hwm = h
      /\ v.day_counter = u.day_counter /\ v.seen_dedup_keys = u.seen_dedup_keys
  BY <1>2 DEF SameMoney, T!Shaped, T!SameBook, T!Fields
<1>4. SameMoney(t, v) /\ SameDay(s, t) /\ SameDay(u, v)
  BY <1>3 DEF SameMoney, T!SameBook, SameDay
<1> QED BY <1>1, <1>2, <1>4

\* Both packs book a close alike.
LEMMA SettledIs ==
  ASSUME NEW s, NEW c
  PROVE  /\ T!Settled(s, c) = [T!Booking(s, c) EXCEPT !.hwm = T!TrailedHwm(T!Booking(s, c))]
         /\ Loose!Settled(s, c) = [T!Booking(s, c) EXCEPT !.hwm = Loose!TrailedHwm(T!Booking(s, c))]
<1>1. T!Settled(s, c) = [T!Booking(s, c) EXCEPT !.hwm = T!TrailedHwm(T!Booking(s, c))]
  BY DEF T!Settled, T!Booking
<1>2. /\ \A p, x : Loose!Pnl(p, x) = T!Pnl(p, x)
      /\ \A x : Loose!OrZero(x) = T!OrZero(x)
  BY DEF Loose!Pnl, T!Pnl, Loose!OrZero, T!OrZero
<1>3. Loose!Settled(s, c) = [T!Booking(s, c) EXCEPT !.hwm = Loose!TrailedHwm(T!Booking(s, c))]
  BY <1>2 DEF Loose!Settled, T!Booking
<1> QED BY <1>1, <1>3

\* Settling a close keeps them alike.
LEMMA SettledPair ==
  ASSUME PacksNest, NEW s, NEW u, SameMoney(s, u), NEW c
  PROVE  /\ SameMoney(T!Settled(s, c), Loose!Settled(u, c))
         /\ SameDay(s, T!Settled(s, c)) /\ SameDay(u, Loose!Settled(u, c))
<1>1. PICK t, v : t = T!Booking(s, c) /\ v = T!Booking(u, c)
  OBVIOUS
<1>2. /\ T!Shaped(t) /\ t.hwm = s.hwm /\ t.day_counter = s.day_counter
      /\ t.seen_dedup_keys = s.seen_dedup_keys /\ t.deferred_closes = s.deferred_closes
      /\ t.balance = s.balance + T!Pnl(s.positions[c.order], c.px) + T!OrZero(c.fee)
      /\ t.positions = [s.positions EXCEPT ![c.order] = None]
      /\ t.last_px = [s.last_px EXCEPT ![c.symbol] = c.px]
      /\ t.day = [s.day EXCEPT !.traded = TRUE]
  BY <1>1 DEF T!Booking, SameMoney, T!Shaped, T!Fields, T!DayFields
<1>3. /\ T!Shaped(v) /\ v.hwm = u.hwm /\ v.day_counter = u.day_counter
      /\ v.seen_dedup_keys = u.seen_dedup_keys /\ v.deferred_closes = u.deferred_closes
      /\ v.balance = u.balance + T!Pnl(u.positions[c.order], c.px) + T!OrZero(c.fee)
      /\ v.positions = [u.positions EXCEPT ![c.order] = None]
      /\ v.last_px = [u.last_px EXCEPT ![c.symbol] = c.px]
      /\ v.day = [u.day EXCEPT !.traded = TRUE]
  BY <1>1 DEF T!Booking, SameMoney, T!Shaped, T!Fields, T!DayFields
<1>4. SameMoney(t, v) /\ SameDay(s, t) /\ SameDay(u, v)
  <2>1. /\ t.day.start_equity = s.day.start_equity /\ t.day.worst_equity = s.day.worst_equity
        /\ t.day.traded = TRUE /\ t.day.daily_breached = s.day.daily_breached
        /\ v.day.start_equity = u.day.start_equity /\ v.day.worst_equity = u.day.worst_equity
        /\ v.day.traded = TRUE /\ v.day.daily_breached = u.day.daily_breached
    BY <1>2, <1>3 DEF SameMoney, T!Shaped, T!DayFields
  <2> QED BY <1>2, <1>3, <2>1 DEF SameMoney, T!SameBook, SameDay
<1>5. PICK x, y : x = T!Settled(s, c) /\ y = Loose!Settled(u, c)
  OBVIOUS
<1>6. x = [t EXCEPT !.hwm = T!TrailedHwm(t)] /\ y = [v EXCEPT !.hwm = Loose!TrailedHwm(v)]
  BY <1>1, <1>5, SettledIs
<1>7. SameMoney(x, y) /\ SameDay(t, x) /\ SameDay(v, y)
  BY <1>4, <1>6, RaisedPair
<1> QED BY <1>4, <1>5, <1>7 DEF SameDay

\* A fill keeps them alike.
LEMMA OpenedPair ==
  ASSUME NEW s, NEW u, SameMoney(s, u), NEW e
  PROVE  /\ SameMoney(T!Opened(s, e), Loose!Opened(u, e))
         /\ SameDay(s, T!Opened(s, e)) /\ SameDay(u, Loose!Opened(u, e))
<1>1. PICK t, v : t = T!Opened(s, e) /\ v = Loose!Opened(u, e)
  OBVIOUS
<1>2. PICK p : p = [symbol |-> e.symbol, side |-> e.side, volume |-> e.volume,
                    entry_px |-> e.px, opened_ts |-> e.ts]
  OBVIOUS
<1>3. Loose!OrZero(e.comm) = T!OrZero(e.comm)
  BY DEF Loose!OrZero, T!OrZero
<1>4. /\ T!Shaped(t) /\ t.hwm = s.hwm /\ t.day_counter = s.day_counter /\ t.day = s.day
      /\ t.seen_dedup_keys = s.seen_dedup_keys /\ t.deferred_closes = s.deferred_closes
      /\ t.balance = s.balance + T!OrZero(e.comm)
      /\ t.positions = [s.positions EXCEPT ![e.order] = p]
      /\ t.last_px = [s.last_px EXCEPT ![e.symbol] = e.px]
  BY <1>1, <1>2 DEF T!Opened, SameMoney, T!Shaped, T!Fields
<1>5. /\ T!Shaped(v) /\ v.hwm = u.hwm /\ v.day_counter = u.day_counter /\ v.day = u.day
      /\ v.seen_dedup_keys = u.seen_dedup_keys /\ v.deferred_closes = u.deferred_closes
      /\ v.balance = u.balance + T!OrZero(e.comm)
      /\ v.positions = [u.positions EXCEPT ![e.order] = p]
      /\ v.last_px = [u.last_px EXCEPT ![e.symbol] = e.px]
  BY <1>1, <1>2, <1>3 DEF Loose!Opened, SameMoney, T!Shaped, T!Fields
<1>6. SameMoney(t, v) /\ SameDay(s, t) /\ SameDay(u, v)
  BY <1>4, <1>5 DEF SameMoney, T!SameBook, SameDay
<1> QED BY <1>1, <1>6

\* The rules see of a record what the deferred closes are no part of.
LEMMA CheckAlike ==
  ASSUME NEW x, NEW y, T!Shaped(x), T!Shaped(y), T!RulesSee(x, y)
  PROVE  /\ SameDay(T!CheckRules(x), T!CheckRules(y))
         /\ SameDay(Loose!CheckRules(x), Loose!CheckRules(y))
<1>1. /\ T!EquityOf(x) = T!EquityOf(y) /\ Loose!EquityOf(x) = Loose!EquityOf(y)
  BY DEF T!RulesSee, T!EquityOf, Loose!EquityOf
<1>2. T!DailyHit(x) = T!DailyHit(y) /\ Loose!DailyHit(x) = Loose!DailyHit(y)
  BY <1>1 DEF T!RulesSee, T!DailyHit, Loose!DailyHit
<1>3. PICK c, d : c = T!CheckRules(x) /\ d = T!CheckRules(y)
  OBVIOUS
<1>4. /\ c.day.start_equity = x.day.start_equity /\ d.day.start_equity = y.day.start_equity
      /\ c.day.daily_breached = (x.day.daily_breached \/ T!DailyHit(x))
      /\ d.day.daily_breached = (y.day.daily_breached \/ T!DailyHit(y))
  BY <1>3 DEF T!CheckRules, T!Shaped, T!Fields, T!DayFields
<1>5. PICK f, g : f = Loose!CheckRules(x) /\ g = Loose!CheckRules(y)
  OBVIOUS
<1>6. /\ f.day.start_equity = x.day.start_equity /\ g.day.start_equity = y.day.start_equity
      /\ f.day.daily_breached = (x.day.daily_breached \/ Loose!DailyHit(x))
      /\ g.day.daily_breached = (y.day.daily_breached \/ Loose!DailyHit(y))
  BY <1>5 DEF Loose!CheckRules, T!Shaped, T!Fields, T!DayFields
<1>7. SameDay(c, d) /\ SameDay(f, g)
  BY <1>2, <1>4, <1>6 DEF SameDay, T!RulesSee
<1> QED BY <1>3, <1>5, <1>7

\* Nor does settling a close look at the deferred ones.
LEMMA SettledAlike ==
  ASSUME NEW s, NEW t, T!Shaped(s), T!Shaped(t), T!RulesSee(s, t), NEW c
  PROVE  /\ T!Shaped(T!Settled(s, c)) /\ T!Shaped(T!Settled(t, c))
         /\ T!RulesSee(T!Settled(s, c), T!Settled(t, c))
         /\ T!Shaped(Loose!Settled(s, c)) /\ T!Shaped(Loose!Settled(t, c))
         /\ T!RulesSee(Loose!Settled(s, c), Loose!Settled(t, c))
<1>1. PICK u, v : u = T!Booking(s, c) /\ v = T!Booking(t, c)
  OBVIOUS
<1>2. T!Shaped(u) /\ T!Shaped(v) /\ T!RulesSee(u, v)
  BY <1>1 DEF T!Booking, T!Shaped, T!Fields, T!DayFields, T!RulesSee
<1>3. T!EquityOf(u) = T!EquityOf(v) /\ Loose!EquityOf(u) = Loose!EquityOf(v)
  BY <1>2 DEF T!RulesSee, T!EquityOf, Loose!EquityOf
<1>4. T!TrailedHwm(u) = T!TrailedHwm(v) /\ Loose!TrailedHwm(u) = Loose!TrailedHwm(v)
  BY <1>2, <1>3 DEF T!RulesSee, T!TrailedHwm, Loose!TrailedHwm
<1>5. ASSUME NEW h
      PROVE  /\ T!Shaped([u EXCEPT !.hwm = h]) /\ T!Shaped([v EXCEPT !.hwm = h])
             /\ T!RulesSee([u EXCEPT !.hwm = h], [v EXCEPT !.hwm = h])
  BY <1>2 DEF T!Shaped, T!Fields, T!RulesSee
<1> QED BY <1>1, <1>4, <1>5, SettledIs

\* A fill drains the closes that overtook it alike, and pays for the one it settles.
LEMMA DrainedPair ==
  ASSUME PacksNest, NEW s, NEW u, SameMoney(s, u), T!Typed(s), NEW o \in Orders, s.positions[o] # None
  PROVE  /\ SameMoney(T!Drained(s, o), Loose!Drained(u, o))
         /\ T!Drained(s, o).day.start_equity = s.day.start_equity
         /\ Paid(s, u, T!Drained(s, o), Loose!Drained(u, o), T!DrainVerdicts(s, o), Loose!DrainVerdicts(u, o))
<1>1. PICK q : q = s.deferred_closes[o] /\ q = u.deferred_closes[o]
  BY DEF SameMoney, T!SameBook
<1>2. q \in Seq(T!ClosesFor(o))
  BY <1>1 DEF T!Typed
<1>3. Loose!Drains(q) = T!Drains(q) /\ Loose!Drainer(q) = T!Drainer(q)
  BY DEF Loose!Parsed, T!Parsed, Loose!Drains, T!Drains, Loose!Drainer, T!Drainer, Loose!Min, T!Min
<1>4. PICK t, v : t = [s EXCEPT !.deferred_closes[o] = <<>>] /\ v = [u EXCEPT !.deferred_closes[o] = <<>>]
  OBVIOUS
<1>5. /\ T!Shaped(t) /\ T!RulesSee(s, t) /\ t.seen_dedup_keys = s.seen_dedup_keys
      /\ t.deferred_closes = [s.deferred_closes EXCEPT ![o] = <<>>]
  BY <1>4 DEF SameMoney, T!Shaped, T!Fields, T!RulesSee
<1>6. /\ T!Shaped(v) /\ T!RulesSee(u, v) /\ v.seen_dedup_keys = u.seen_dedup_keys
      /\ v.deferred_closes = [u.deferred_closes EXCEPT ![o] = <<>>]
  BY <1>4 DEF SameMoney, T!Shaped, T!Fields, T!RulesSee
<1>7. SameMoney(t, v) /\ SameDay(s, t) /\ SameDay(u, v)
  BY <1>5, <1>6 DEF SameMoney, T!SameBook, T!RulesSee, SameDay
<1>8. CASE T!Drains(q)
  <2>1. PICK c \in T!ClosesFor(o) : c = T!Drainer(q) /\ c.px # Bad
    BY <1>2, <1>8, Assumed, T!DrainerIs
  <2>2. PICK x, y : x = T!Settled(s, c) /\ y = Loose!Settled(u, c)
    OBVIOUS
  <2>3. T!Typed(x)
    BY <2>1, <2>2, Assumed, T!SettledTyped
  <2>4. SameMoney(x, y) /\ SameDay(s, x) /\ SameDay(u, y)
    BY <2>2, SettledPair
  <2>5. Paid(x, y, T!CheckRules(x), Loose!CheckRules(y), T!RuleVerdicts(x), Loose!RuleVerdicts(y))
    BY <2>3, <2>4, CheckedPair
  <2>6. PICK z, w : z = T!Settled(t, c) /\ w = Loose!Settled(v, c)
    OBVIOUS
  <2>7. SameMoney(z, w) /\ SameDay(t, z)
    BY <1>7, <2>6, SettledPair
  <2>8. SameMoney(T!CheckRules(z), Loose!CheckRules(w)) /\ T!CheckRules(z).day.start_equity = z.day.start_equity
    BY <2>7, CheckedPair
  <2>9. /\ T!Shaped(x) /\ T!Shaped(z) /\ T!RulesSee(x, z)
        /\ T!Shaped(y) /\ T!Shaped(w) /\ T!RulesSee(y, w)
    BY <1>5, <1>6, <2>2, <2>6, SettledAlike DEF SameMoney
  <2>10. /\ SameDay(T!CheckRules(x), T!CheckRules(z))
         /\ SameDay(Loose!CheckRules(y), Loose!CheckRules(w))
    BY <2>9, CheckAlike
  <2>11. SameDay(x, s) /\ SameDay(y, u)
    BY <2>4 DEF SameDay
  <2>12. Paid(s, u, T!CheckRules(z), Loose!CheckRules(w), T!RuleVerdicts(x), Loose!RuleVerdicts(y))
    BY <2>5, <2>10, <2>11, PaidAlike
  <2>13. /\ T!Drained(s, o) = T!CheckRules(z) /\ T!DrainVerdicts(s, o) = T!RuleVerdicts(x)
    BY <1>1, <1>4, <1>8, <2>1, <2>2, <2>6 DEF T!Drained, T!DrainVerdicts
  <2>14. /\ Loose!Drained(u, o) = Loose!CheckRules(w) /\ Loose!DrainVerdicts(u, o) = Loose!RuleVerdicts(y)
    BY <1>1, <1>3, <1>4, <1>8, <2>1, <2>2, <2>6 DEF Loose!Drained, Loose!DrainVerdicts
  <2> QED BY <1>7, <2>7, <2>8, <2>12, <2>13, <2>14 DEF SameDay
<1>9. CASE ~T!Drains(q)
  <2>1. T!Drained(s, o) = t /\ T!DrainVerdicts(s, o) = <<>>
    BY <1>1, <1>4, <1>9 DEF T!Drained, T!DrainVerdicts
  <2>2. Loose!Drained(u, o) = v /\ Loose!DrainVerdicts(u, o) = <<>>
    BY <1>1, <1>3, <1>4, <1>9 DEF Loose!Drained, Loose!DrainVerdicts
  <2>3. Paid(s, u, t, v, <<>>, <<>>)
    BY <1>7, QuietPaid, DailyOne
  <2> QED BY <1>7, <2>1, <2>2, <2>3 DEF SameDay
<1> QED BY <1>8, <1>9

-----------------------------------------------------------------------------
(* One event given to both *)

\* Both accounts took a step that keeps their money the same and pays.
Moved ==
  /\ SameMoney(tState', lState')
  /\ \E vs, ws : /\ tVerdicts' = tVerdicts \o vs /\ lVerdicts' = lVerdicts \o ws
                 /\ Paid(tState, lState, tState', lState', vs, ws)

\* A step is known by what it leaves and reports.
LEMMA MoveIs ==
  ASSUME NEW x, NEW y, NEW vs, NEW ws, tState' = x, lState' = y,
         tVerdicts' = tVerdicts \o vs, lVerdicts' = lVerdicts \o ws,
         SameMoney(x, y), Paid(tState, lState, x, y, vs, ws)
  PROVE  Moved
BY Zenon DEF Moved

\* The rules checked on records of the present day, and the event booked.
LEMMA CheckedMove ==
  ASSUME PacksNest, NEW s, NEW u, SameMoney(s, u), T!Typed(s),
         SameDay(tState, s), SameDay(lState, u), NEW e,
         tState' = T!Booked(T!CheckRules(s), e), tVerdicts' = tVerdicts \o T!RuleVerdicts(s),
         lState' = Loose!Booked(Loose!CheckRules(u), e), lVerdicts' = lVerdicts \o Loose!RuleVerdicts(u)
  PROVE  Moved
<1>1. PICK c, d, vs, ws : /\ c = T!CheckRules(s) /\ d = Loose!CheckRules(u)
                          /\ vs = T!RuleVerdicts(s) /\ ws = Loose!RuleVerdicts(u)
  OBVIOUS
<1>2. SameMoney(c, d) /\ Paid(s, u, c, d, vs, ws)
  BY <1>1, CheckedPair
<1>3. PICK x, y : x = T!Booked(c, e) /\ y = Loose!Booked(d, e)
  OBVIOUS
<1>4. SameMoney(x, y) /\ SameDay(c, x) /\ SameDay(d, y)
  BY <1>2, <1>3, BookedPair
<1>5. SameDay(s, tState) /\ SameDay(u, lState)
  BY DEF SameDay
<1>6. Paid(tState, lState, x, y, vs, ws)
  BY <1>2, <1>4, <1>5, PaidAlike
<1> QED BY <1>1, <1>3, <1>4, <1>6, MoveIs

\* Records of the present day, and no rule checked.
LEMMA QuietMove ==
  ASSUME NEW s, NEW u, SameMoney(s, u), SameDay(tState, s), SameDay(lState, u),
         NEW vs, NEW ws, Listed(vs), Listed(ws), Daily(vs) = 0, Daily(ws) = 0, NEW e,
         \/ tState' = s /\ lState' = u
         \/ tState' = T!Booked(s, e) /\ lState' = Loose!Booked(u, e),
         tVerdicts' = tVerdicts \o vs, lVerdicts' = lVerdicts \o ws
  PROVE  Moved
<1>1. CASE tState' = s /\ lState' = u
  BY <1>1, QuietPaid, MoveIs
<1>2. CASE tState' = T!Booked(s, e) /\ lState' = Loose!Booked(u, e)
  <2>1. PICK x, y : x = T!Booked(s, e) /\ y = Loose!Booked(u, e)
    OBVIOUS
  <2>2. SameMoney(x, y) /\ SameDay(s, x) /\ SameDay(u, y)
    BY <2>1, BookedPair
  <2>3. SameDay(tState, x) /\ SameDay(lState, y)
    BY <2>2 DEF SameDay
  <2>4. Paid(tState, lState, x, y, vs, ws)
    BY <2>3, QuietPaid
  <2> QED BY <1>2, <2>1, <2>2, <2>4, MoveIs
<1> QED BY <1>1, <1>2

\* Both accounts meet the same event the same way.
LEMMA ArrivedMeets ==
  ASSUME SameMoney(tState, lState), T!Typed(tState), NEW e
  PROVE  /\ T!Typed(T!Arrived(e)) /\ SameMoney(T!Arrived(e), Loose!Arrived(e))
         /\ SameDay(tState, T!Arrived(e)) /\ SameDay(lState, Loose!Arrived(e))
         /\ T!Arrived(e).positions = tState.positions
         /\ Loose!Arrived(e).positions = tState.positions
         /\ lState.positions = tState.positions
<1>1. T!Typed(T!Arrived(e))
  BY Assumed, T!ArrivedTyped
<1>2. T!Arrived(e).positions = tState.positions
  BY Assumed, T!ArrivedKeeps DEF T!Typed, T!SameBook
<1>3. PICK a, b : a = T!Arrived(e) /\ b = Loose!Arrived(e)
  OBVIOUS
<1>4. SameMoney(a, b) /\ SameDay(tState, a) /\ SameDay(lState, b)
  BY <1>3, ArrivedPair
<1>5. b.positions = a.positions /\ lState.positions = tState.positions
  BY <1>4 DEF SameMoney, T!SameBook
<1> QED BY <1>1, <1>2, <1>3, <1>4, <1>5

\* A mark.
LEMMA MarkPair ==
  ASSUME PacksNest, SameMoney(tState, lState), T!Typed(tState), NEW e \in Stream, T!Mark(e), Loose!Mark(e)
  PROVE  Moved
<1>1. PICK a, b : a = T!Arrived(e) /\ b = Loose!Arrived(e)
  OBVIOUS
<1>2. T!Typed(a) /\ SameMoney(a, b) /\ SameDay(tState, a) /\ SameDay(lState, b)
  BY <1>1, ArrivedMeets
<1>3. CASE e.px = Bad
  <2>1. /\ tState' = T!Booked(a, e) /\ tVerdicts' = tVerdicts \o <<>>
        /\ lState' = Loose!Booked(b, e) /\ lVerdicts' = lVerdicts \o <<>>
    BY <1>1, <1>3 DEF T!Mark, T!Return, Loose!Mark, Loose!Return
  <2> QED BY <1>2, <2>1, DailyOne, QuietMove
<1>4. CASE e.px # Bad
  <2>1. PICK s, u : s = [a EXCEPT !.last_px[e.symbol] = e.px] /\ u = [b EXCEPT !.last_px[e.symbol] = e.px]
    OBVIOUS
  <2>2. e.px \in Int /\ e.symbol \in Symbols
    BY <1>4, Assumed DEF T!Mark, T!EngineAssumption
  <2>3. /\ T!Shaped(s) /\ s.hwm = a.hwm /\ s.day = a.day
        /\ s.balance = a.balance /\ s.positions = a.positions
        /\ s.last_px = [a.last_px EXCEPT ![e.symbol] = e.px]
        /\ s.deferred_closes = a.deferred_closes /\ s.seen_dedup_keys = a.seen_dedup_keys
        /\ s.day_counter = a.day_counter /\ s.seq_applied = a.seq_applied
        /\ s.overall_breached = a.overall_breached
        /\ s.target_reached = a.target_reached
    BY <1>2, <2>1 DEF T!Typed, T!Shaped, T!Fields
  <2>4. /\ T!Shaped(u) /\ u.hwm = b.hwm /\ u.day = b.day
        /\ u.balance = b.balance /\ u.positions = b.positions
        /\ u.last_px = [b.last_px EXCEPT ![e.symbol] = e.px]
        /\ u.deferred_closes = b.deferred_closes /\ u.seen_dedup_keys = b.seen_dedup_keys
        /\ u.day_counter = b.day_counter
    BY <1>2, <2>1 DEF SameMoney, T!Shaped, T!Fields
  <2>5. T!Typed(s)
    BY <1>2, <2>2, <2>3 DEF T!Typed, T!OpenOrders
  <2>6. SameMoney(s, u) /\ SameDay(tState, s) /\ SameDay(lState, u)
    BY <1>2, <2>3, <2>4 DEF SameMoney, T!SameBook, SameDay
  <2>7. tState' = T!Booked(T!CheckRules(s), e) /\ tVerdicts' = tVerdicts \o T!RuleVerdicts(s)
    BY <1>1, <1>4, <2>1 DEF T!Mark, T!Return
  <2>8. lState' = Loose!Booked(Loose!CheckRules(u), e) /\ lVerdicts' = lVerdicts \o Loose!RuleVerdicts(u)
    BY <1>1, <1>4, <2>1 DEF Loose!Mark, Loose!Return
  <2> QED BY <2>5, <2>6, <2>7, <2>8, CheckedMove
<1> QED BY <1>3, <1>4

\* An account report.
LEMMA ReportPair ==
  ASSUME PacksNest, SameMoney(tState, lState), T!Typed(tState), NEW e \in Stream,
         T!AccountStateReport(e), Loose!AccountStateReport(e)
  PROVE  Moved
<1>1. PICK a, b : a = T!Arrived(e) /\ b = Loose!Arrived(e)
  OBVIOUS
<1>2. T!Typed(a) /\ SameMoney(a, b) /\ SameDay(tState, a) /\ SameDay(lState, b)
  BY <1>1, ArrivedMeets
<1>3. /\ tState' = T!Booked(a, e) /\ tVerdicts' = tVerdicts \o <<>>
      /\ lState' = Loose!Booked(b, e) /\ lVerdicts' = lVerdicts \o <<>>
  BY <1>1 DEF T!AccountStateReport, T!Return, Loose!AccountStateReport, Loose!Return
<1> QED BY <1>2, <1>3, DailyOne, QuietMove

\* A balance adjustment.
LEMMA AdjustmentPair ==
  ASSUME PacksNest, SameMoney(tState, lState), T!Typed(tState), NEW e \in Stream,
         T!BalanceAdjustment(e), Loose!BalanceAdjustment(e)
  PROVE  Moved
<1>1. PICK a, b : a = T!Arrived(e) /\ b = Loose!Arrived(e)
  OBVIOUS
<1>2. T!Typed(a) /\ SameMoney(a, b) /\ SameDay(tState, a) /\ SameDay(lState, b)
  BY <1>1, ArrivedMeets
<1>3. CASE e.amount = Bad
  <2>1. /\ tState' = a /\ tVerdicts' = tVerdicts \o <<>>
        /\ lState' = b /\ lVerdicts' = lVerdicts \o <<>>
    BY <1>1, <1>3 DEF T!BalanceAdjustment, T!Return, Loose!BalanceAdjustment, Loose!Return
  <2> QED BY <1>2, <2>1, DailyOne, QuietMove
<1>4. CASE e.amount # Bad
  <2>1. PICK s, u : s = [a EXCEPT !.balance = @ + e.amount] /\ u = [b EXCEPT !.balance = @ + e.amount]
    OBVIOUS
  <2>2. e.amount \in Int
    BY <1>4, Assumed DEF T!BalanceAdjustment, T!EngineAssumption
  <2>3. /\ T!Shaped(s) /\ s.hwm = a.hwm /\ s.day = a.day
        /\ s.balance = a.balance + e.amount /\ s.positions = a.positions
        /\ s.last_px = a.last_px
        /\ s.deferred_closes = a.deferred_closes /\ s.seen_dedup_keys = a.seen_dedup_keys
        /\ s.day_counter = a.day_counter /\ s.seq_applied = a.seq_applied
        /\ s.overall_breached = a.overall_breached
        /\ s.target_reached = a.target_reached
    BY <1>2, <2>1 DEF T!Typed, T!Shaped, T!Fields
  <2>4. /\ T!Shaped(u) /\ u.hwm = b.hwm /\ u.day = b.day
        /\ u.balance = b.balance + e.amount /\ u.positions = b.positions
        /\ u.last_px = b.last_px
        /\ u.deferred_closes = b.deferred_closes /\ u.seen_dedup_keys = b.seen_dedup_keys
        /\ u.day_counter = b.day_counter
    BY <1>2, <2>1 DEF SameMoney, T!Shaped, T!Fields
  <2>5. T!Typed(s)
    BY <1>2, <2>2, <2>3 DEF T!Typed, T!OpenOrders
  <2>6. SameMoney(s, u) /\ SameDay(tState, s) /\ SameDay(lState, u)
    BY <1>2, <2>3, <2>4 DEF SameMoney, T!SameBook, SameDay
  <2>7. PICK x, y : x = [s EXCEPT !.hwm = T!TrailedHwm(s)] /\ y = [u EXCEPT !.hwm = Loose!TrailedHwm(u)]
    OBVIOUS
  <2>8. T!Typed(x)
    BY <2>5, <2>7, Assumed, T!RaisedTyped
  <2>9. SameMoney(x, y) /\ SameDay(s, x) /\ SameDay(u, y)
    BY <2>6, <2>7, RaisedPair
  <2>10. SameDay(tState, x) /\ SameDay(lState, y)
    BY <2>6, <2>9 DEF SameDay
  <2>11. tState' = T!Booked(T!CheckRules(x), e) /\ tVerdicts' = tVerdicts \o T!RuleVerdicts(x)
    BY <1>1, <1>4, <2>1, <2>7 DEF T!BalanceAdjustment, T!Return
  <2>12. lState' = Loose!Booked(Loose!CheckRules(y), e) /\ lVerdicts' = lVerdicts \o Loose!RuleVerdicts(y)
    BY <1>1, <1>4, <2>1, <2>7 DEF Loose!BalanceAdjustment, Loose!Return
  <2> QED BY <2>8, <2>9, <2>10, <2>11, <2>12, CheckedMove
<1> QED BY <1>3, <1>4

\* A close: deferred, malformed, or settled.
LEMMA ClosePair ==
  ASSUME PacksNest, SameMoney(tState, lState), T!Typed(tState), NEW e \in Stream,
         T!TradeClosed(e), Loose!TradeClosed(e)
  PROVE  Moved
<1>1. PICK a, b : a = T!Arrived(e) /\ b = Loose!Arrived(e)
  OBVIOUS
<1>2. /\ T!Typed(a) /\ SameMoney(a, b) /\ SameDay(tState, a) /\ SameDay(lState, b)
      /\ a.positions = tState.positions /\ lState.positions = tState.positions
  BY <1>1, ArrivedMeets
<1>3. e.type = "close" /\ e.order \in Orders /\ e \in T!ClosesFor(e.order)
  BY Assumed DEF T!TradeClosed, T!EngineAssumption, T!ClosesFor
<1>4. CASE tState.positions[e.order] = None
  <2>1. PICK s, u : /\ s = [a EXCEPT !.deferred_closes[e.order] = Append(@, e)]
                    /\ u = [b EXCEPT !.deferred_closes[e.order] = Append(@, e)]
    OBVIOUS
  <2>2. /\ T!Shaped(s) /\ s.hwm = a.hwm /\ s.day = a.day /\ s.balance = a.balance
        /\ s.positions = a.positions /\ s.last_px = a.last_px
        /\ s.deferred_closes = [a.deferred_closes EXCEPT ![e.order] = Append(@, e)]
        /\ s.seen_dedup_keys = a.seen_dedup_keys /\ s.day_counter = a.day_counter
    BY <1>2, <2>1 DEF SameMoney, T!Shaped, T!Fields
  <2>3. /\ T!Shaped(u) /\ u.hwm = b.hwm /\ u.day = b.day /\ u.balance = b.balance
        /\ u.positions = b.positions /\ u.last_px = b.last_px
        /\ u.deferred_closes = [b.deferred_closes EXCEPT ![e.order] = Append(@, e)]
        /\ u.seen_dedup_keys = b.seen_dedup_keys /\ u.day_counter = b.day_counter
    BY <1>2, <2>1 DEF SameMoney, T!Shaped, T!Fields
  <2>4. SameMoney(s, u) /\ SameDay(tState, s) /\ SameDay(lState, u)
    BY <1>2, <2>2, <2>3 DEF SameMoney, T!SameBook, SameDay
  <2>5. tState' = s /\ tVerdicts' = tVerdicts \o <<>>
    BY <1>1, <1>4, <2>1 DEF T!TradeClosed, T!Return
  <2>6. lState' = u /\ lVerdicts' = lVerdicts \o <<>>
    BY <1>1, <1>2, <1>4, <2>1 DEF Loose!TradeClosed, Loose!Return
  <2> QED BY <2>4, <2>5, <2>6, DailyOne, QuietMove
<1>5. CASE tState.positions[e.order] # None /\ e.px = Bad
  <2>1. tState' = T!Booked(a, e) /\ tVerdicts' = tVerdicts \o <<>>
    BY <1>1, <1>5 DEF T!TradeClosed, T!Return
  <2>2. lState' = Loose!Booked(b, e) /\ lVerdicts' = lVerdicts \o <<>>
    BY <1>1, <1>2, <1>5 DEF Loose!TradeClosed, Loose!Return
  <2> QED BY <1>2, <2>1, <2>2, DailyOne, QuietMove
<1>6. CASE tState.positions[e.order] # None /\ e.px # Bad
  <2>1. PICK s, u : s = T!Settled(a, e) /\ u = Loose!Settled(b, e)
    OBVIOUS
  <2>2. T!Typed(s)
    BY <1>2, <1>3, <1>6, <2>1, Assumed, T!SettledTyped
  <2>3. SameMoney(s, u) /\ SameDay(a, s) /\ SameDay(b, u)
    BY <1>2, <2>1, SettledPair
  <2>4. SameDay(tState, s) /\ SameDay(lState, u)
    BY <1>2, <2>3 DEF SameDay
  <2>5. tState' = T!Booked(T!CheckRules(s), e) /\ tVerdicts' = tVerdicts \o T!RuleVerdicts(s)
    BY <1>1, <1>6, <2>1 DEF T!TradeClosed, T!Return
  <2>6. lState' = Loose!Booked(Loose!CheckRules(u), e) /\ lVerdicts' = lVerdicts \o Loose!RuleVerdicts(u)
    BY <1>1, <1>2, <1>6, <2>1 DEF Loose!TradeClosed, Loose!Return
  <2> QED BY <2>2, <2>3, <2>4, <2>5, <2>6, CheckedMove
<1> QED BY <1>4, <1>5, <1>6


\* News verdicts are no daily breaches.
LEMMA NewsQuiet ==
  ASSUME NEW e
  PROVE  /\ Listed(T!NewsVerdicts(e)) /\ Daily(T!NewsVerdicts(e)) = 0
         /\ Listed(Loose!NewsVerdicts(e)) /\ Daily(Loose!NewsVerdicts(e)) = 0
<1>1. \A k : ~IsDaily(T!Verdict(tState, "NewsRule", k)) /\ ~IsDaily(Loose!Verdict(lState, "NewsRule", k))
  BY DEF T!Verdict, Loose!Verdict, IsDaily
<1>2. \/ T!NewsVerdicts(e) = <<>>
      \/ \E k : T!NewsVerdicts(e) = <<T!Verdict(tState, "NewsRule", k)>>
  BY DEF T!NewsVerdicts, T!When
<1>3. \/ Loose!NewsVerdicts(e) = <<>>
      \/ \E k : Loose!NewsVerdicts(e) = <<Loose!Verdict(lState, "NewsRule", k)>>
  BY DEF Loose!NewsVerdicts, Loose!When
<1>4. Listed(T!NewsVerdicts(e)) /\ Daily(T!NewsVerdicts(e)) = 0
  <2>1. PICK v : ~IsDaily(v) /\ (T!NewsVerdicts(e) = <<>> \/ T!NewsVerdicts(e) = <<v>>)
    BY <1>1, <1>2
  <2> QED BY <2>1, DailyOne
<1>5. Listed(Loose!NewsVerdicts(e)) /\ Daily(Loose!NewsVerdicts(e)) = 0
  <2>1. PICK v : ~IsDaily(v) /\ (Loose!NewsVerdicts(e) = <<>> \/ Loose!NewsVerdicts(e) = <<v>>)
    BY <1>1, <1>3
  <2> QED BY <2>1, DailyOne
<1> QED BY <1>4, <1>5

\* So are n copies of another verdict.
LEMMA CopiesQuiet ==
  ASSUME NEW n \in Nat, NEW v, ~IsDaily(v)
  PROVE  Listed([i \in 1..n |-> v]) /\ Daily([i \in 1..n |-> v]) = 0
<1>1. PICK f : f = [i \in 1..n |-> v]
  OBVIOUS
<1>2. f \in Seq({v}) /\ DOMAIN f = 1..n /\ \A i \in 1..n : f[i] = v
  BY <1>1
<1>3. Breaches(f, "DailyMaxLoss") = {}
  BY <1>2 DEF Breaches, IsDaily
<1>4. Listed(f) /\ Daily(f) = 0
  BY <1>2, <1>3, FS_EmptySet DEF Listed, Daily
<1> QED BY <1>1, <1>4

\* A fill: malformed, of an open order, or opening one and draining its closes.
LEMMA FillPair ==
  ASSUME PacksNest, SameMoney(tState, lState), T!Typed(tState), NEW e \in Stream,
         T!OrderFilled(e), Loose!OrderFilled(e)
  PROVE  Moved
<1>1. PICK a, b : a = T!Arrived(e) /\ b = Loose!Arrived(e)
  OBVIOUS
<1>2. /\ T!Typed(a) /\ SameMoney(a, b) /\ SameDay(tState, a) /\ SameDay(lState, b)
      /\ lState.positions = tState.positions
  BY <1>1, ArrivedMeets
<1>3. e.type = "fill" /\ e.order \in Orders
  BY Assumed DEF T!OrderFilled, T!EngineAssumption
<1>4. CASE e.px = Bad
  <2>1. tState' = a /\ tVerdicts' = tVerdicts \o <<>>
    BY <1>1, <1>4 DEF T!OrderFilled, T!Return
  <2>2. lState' = b /\ lVerdicts' = lVerdicts \o <<>>
    BY <1>1, <1>4 DEF Loose!OrderFilled, Loose!Return
  <2> QED BY <1>2, <2>1, <2>2, DailyOne, QuietMove
<1>5. CASE e.px # Bad /\ tState.positions[e.order] # None
  <2>1. tState' = a /\ tVerdicts' = tVerdicts \o T!NewsVerdicts(e)
    BY <1>1, <1>5 DEF T!OrderFilled, T!Return
  <2>2. lState' = b /\ lVerdicts' = lVerdicts \o Loose!NewsVerdicts(e)
    BY <1>1, <1>2, <1>5 DEF Loose!OrderFilled, Loose!Return
  <2> QED BY <1>2, <2>1, <2>2, NewsQuiet, QuietMove
<1>6. CASE e.px # Bad /\ tState.positions[e.order] = None
  <2>1. PICK s, u : s = T!Opened(a, e) /\ u = Loose!Opened(b, e)
    OBVIOUS
  <2>2. T!Typed(s) /\ s.positions[e.order] # None
    BY <1>2, <1>3, <1>6, <2>1, Assumed, T!OpenedTyped
  <2>3. SameMoney(s, u) /\ SameDay(a, s) /\ SameDay(b, u)
    BY <1>2, <2>1, OpenedPair
  <2>4. SameDay(tState, s) /\ SameDay(lState, u)
    BY <1>2, <2>3 DEF SameDay
  <2>5. PICK x, y, dx, dy : /\ x = T!Drained(s, e.order) /\ y = Loose!Drained(u, e.order)
                            /\ dx = T!DrainVerdicts(s, e.order) /\ dy = Loose!DrainVerdicts(u, e.order)
    OBVIOUS
  <2>6. /\ SameMoney(x, y) /\ x.day.start_equity = s.day.start_equity
        /\ Paid(s, u, x, y, dx, dy)
    BY <1>3, <2>2, <2>3, <2>5, DrainedPair
  <2>7. T!Typed(x)
    BY <1>3, <2>2, <2>5, Assumed, T!DrainedTyped
  <2>8. PICK c, d, rx, ry : /\ c = T!CheckRules(x) /\ d = Loose!CheckRules(y)
                            /\ rx = T!RuleVerdicts(x) /\ ry = Loose!RuleVerdicts(y)
    OBVIOUS
  <2>9. SameMoney(c, d) /\ Paid(x, y, c, d, rx, ry)
    BY <2>6, <2>7, <2>8, CheckedPair
  <2>10. PICK nx, ny : nx = T!NewsVerdicts(e) /\ ny = Loose!NewsVerdicts(e)
    OBVIOUS
  <2>11. Paid(tState, lState, s, u, nx, ny)
    BY <2>4, <2>10, NewsQuiet, QuietPaid
  <2>12. Paid(tState, lState, x, y, nx \o dx, ny \o dy)
    BY <2>4, <2>6, <2>11, PaidThen DEF SameDay
  <2>13. Paid(tState, lState, c, d, (nx \o dx) \o rx, (ny \o dy) \o ry)
    BY <2>4, <2>6, <2>9, <2>12, PaidThen DEF SameDay
  <2>14. PICK g, h : g = T!Booked(c, e) /\ h = Loose!Booked(d, e)
    OBVIOUS
  <2>15. SameMoney(g, h) /\ SameDay(c, g) /\ SameDay(d, h)
    BY <2>9, <2>14, BookedPair
  <2>16. SameDay(tState, tState) /\ SameDay(lState, lState)
    BY DEF SameDay
  <2>17. Paid(tState, lState, g, h, (nx \o dx) \o rx, (ny \o dy) \o ry)
    BY <2>13, <2>15, <2>16, PaidAlike
  <2>18. tState' = g /\ tVerdicts' = tVerdicts \o (nx \o dx \o rx)
    BY <1>1, <1>6, <2>1, <2>5, <2>8, <2>10, <2>14 DEF T!OrderFilled, T!Return
  <2>19. lState' = h /\ lVerdicts' = lVerdicts \o (ny \o dy \o ry)
    BY <1>1, <1>2, <1>6, <2>1, <2>5, <2>8, <2>10, <2>14 DEF Loose!OrderFilled, Loose!Return
  <2> QED BY <2>15, <2>17, <2>18, <2>19, MoveIs
<1> QED BY <1>4, <1>5, <1>6

\* A news window: both packs have it in scope, or neither.
LEMMA NewsPair ==
  ASSUME PacksNest, SameMoney(tState, lState), T!Typed(tState),
         NEW e \in Stream, T!NewsWindow(e), Loose!NewsWindow(e)
  PROVE  Moved
<1>1. PICK a, b : a = T!Arrived(e) /\ b = Loose!Arrived(e)
  OBVIOUS
<1>2. /\ T!Typed(a) /\ SameMoney(a, b) /\ SameDay(tState, a) /\ SameDay(lState, b)
      /\ lState.positions = tState.positions
  BY <1>1, ArrivedMeets
<1>3. PICK w : w = [symbol |-> e.symbol, tier |-> e.tier, start |-> e.start, end |-> e.end]
  OBVIOUS
<1>4. PICK s, u : /\ s = [a EXCEPT !.news_windows = @ \cup {w}]
                  /\ u = [b EXCEPT !.news_windows = @ \cup {w}]
  OBVIOUS
<1>5. /\ T!Shaped(s) /\ T!SameBook(a, s) /\ s.hwm = a.hwm /\ s.day = a.day
      /\ s.seen_dedup_keys = a.seen_dedup_keys /\ s.day_counter = a.day_counter
      /\ T!Shaped(u) /\ T!SameBook(b, u) /\ u.hwm = b.hwm /\ u.day = b.day
      /\ u.seen_dedup_keys = b.seen_dedup_keys /\ u.day_counter = b.day_counter
  BY <1>2, <1>4 DEF SameMoney, T!Shaped, T!Fields, T!SameBook
<1>6. SameMoney(s, u) /\ SameDay(tState, s) /\ SameDay(lState, u)
  BY <1>2, <1>5 DEF SameMoney, T!SameBook, SameDay
<1>7. PICK pre : pre = {o \in Orders : /\ tState.positions[o] # None
                                       /\ tState.positions[o].symbol = e.symbol
                                       /\ tState.positions[o].opened_ts < e.start}
  OBVIOUS
<1>8. PICK n : n = Cardinality(pre) /\ n \in Nat
  <2>1. T!OpenOrders(tState) = {o \in Orders : tState.positions[o] # None}
    BY DEF T!OpenOrders
  <2>2. pre \subseteq T!OpenOrders(tState)
    BY <1>7, <2>1
  <2>3. IsFiniteSet(T!OpenOrders(tState))
    BY DEF T!Typed, T!IsFiniteSet, IsFiniteSet
  <2>4. IsFiniteSet(pre)
    BY <2>2, <2>3, FS_Subset
  <2> QED BY <2>4, FS_CardinalityType
<1>9. /\ \A x : T!Cardinality(x) = Cardinality(x)
      /\ \A x : Loose!Cardinality(x) = Cardinality(x)
  BY DEF T!Cardinality, Loose!Cardinality, Cardinality
<1>10. PICK v, z : /\ v = T!Verdict(tState, "NewsPrePositioned", "Flagged")
                   /\ z = Loose!Verdict(lState, "NewsPrePositioned", "Flagged")
  OBVIOUS
<1>11. ~IsDaily(v) /\ ~IsDaily(z)
  BY <1>10 DEF T!Verdict, Loose!Verdict, IsDaily
<1>12. /\ \A q, y : Loose!SymbolInScope(q, y) = T!SymbolInScope(q, y)
       /\ \A q, t : Loose!TierInScope(q, t) = T!TierInScope(q, t)
  BY DEF Loose!SymbolInScope, T!SymbolInScope, Loose!TierInScope, T!TierInScope
<1>13. PICK f, g : f = [i \in 1..n |-> v] /\ g = [i \in 1..n |-> z]
  OBVIOUS
<1>14. Listed(f) /\ Daily(f) = 0 /\ Listed(g) /\ Daily(g) = 0
  BY <1>8, <1>11, <1>13, CopiesQuiet
<1> DEFINE Scope == /\ tPack.news.enabled
                    /\ T!SymbolInScope(tPack.news, e.symbol)
                    /\ T!TierInScope(tPack.news, e.tier)
<1>15. \/ ~Scope /\ tState' = s /\ tVerdicts' = tVerdicts \o <<>>
       \/ Scope /\ tState' = T!Booked(s, e) /\ tVerdicts' = tVerdicts \o f
  <2>1. T!Cardinality(pre) = n
    BY <1>8, <1>9
  <2>2. f = [i \in 1..T!Cardinality(pre) |-> v]
    BY <1>13, <2>1
  <2> QED BY <1>1, <1>3, <1>4, <1>7, <1>10, <2>2, Zenon DEF T!NewsWindow, T!Return
<1>16. \/ ~Scope /\ lState' = u /\ lVerdicts' = lVerdicts \o <<>>
       \/ Scope /\ lState' = Loose!Booked(u, e) /\ lVerdicts' = lVerdicts \o g
  <2>1. Loose!Cardinality(pre) = n
    BY <1>8, <1>9
  <2>2. g = [i \in 1..Loose!Cardinality(pre) |-> z]
    BY <1>13, <2>1
  <2>3. pre = {o \in Orders : /\ lState.positions[o] # None
                              /\ lState.positions[o].symbol = e.symbol
                              /\ lState.positions[o].opened_ts < e.start}
    BY <1>2, <1>7
  <2>4. Scope <=> /\ lPack.news.enabled
                  /\ Loose!SymbolInScope(lPack.news, e.symbol)
                  /\ Loose!TierInScope(lPack.news, e.tier)
    <3>1. /\ Loose!SymbolInScope(lPack.news, e.symbol) = T!SymbolInScope(tPack.news, e.symbol)
          /\ Loose!TierInScope(lPack.news, e.tier) = T!TierInScope(tPack.news, e.tier)
      BY <1>12 DEF PacksNest
    <3> QED BY <3>1 DEF PacksNest
  <2> HIDE DEF Scope
  <2> QED BY <1>1, <1>3, <1>4, <1>10, <2>2, <2>3, <2>4, Zenon DEF Loose!NewsWindow, Loose!Return
<1> HIDE DEF Scope
<1>17. CASE ~Scope
  BY <1>6, <1>15, <1>16, <1>17, DailyOne, QuietMove
<1>18. CASE Scope
  BY <1>6, <1>14, <1>15, <1>16, <1>18, QuietMove
<1> QED BY <1>17, <1>18

\* A new day: an eod pack judges the one that ends, and nothing is owed after it.
LEMMA RolloverPair ==
  ASSUME PacksNest, SameMoney(tState, lState), T!Typed(tState), NEW e \in Stream,
         T!Rollover(e), Loose!Rollover(e)
  PROVE  Moved
<1>1. PICK a, b : a = T!Arrived(e) /\ b = Loose!Arrived(e)
  OBVIOUS
<1>2. /\ T!Typed(a) /\ SameMoney(a, b) /\ SameDay(tState, a) /\ SameDay(lState, b)
      /\ lState.day.traded = tState.day.traded
  BY <1>1, ArrivedMeets DEF SameMoney
<1>3. PICK h, q : /\ h = T!TrailedHwm(tState) /\ h = Loose!TrailedHwm(lState)
                  /\ q = T!EquityOf(tState) /\ q = Loose!EquityOf(lState)
  BY SameEquity
<1>4. PICK k, m : /\ k = (IF tState.day.traded THEN a.day_counter + 1 ELSE a.day_counter)
                  /\ m = T!NewDay(e.date, q)
  OBVIOUS
<1>5. Loose!NewDay(e.date, q) = m
  BY <1>4 DEF Loose!NewDay, T!NewDay
<1>6. PICK s, u : /\ s = [a EXCEPT !.day_counter = k, !.hwm = h, !.day = m]
                  /\ u = [b EXCEPT !.day_counter = k, !.hwm = h, !.day = m]
  OBVIOUS
<1>7. /\ T!Shaped(s) /\ T!SameBook(a, s) /\ s.hwm = h /\ s.day = m /\ s.day_counter = k
      /\ s.seen_dedup_keys = a.seen_dedup_keys
      /\ T!Shaped(u) /\ T!SameBook(b, u) /\ u.hwm = h /\ u.day = m /\ u.day_counter = k
      /\ u.seen_dedup_keys = b.seen_dedup_keys
      /\ m.daily_breached = FALSE
  BY <1>2, <1>4, <1>6 DEF SameMoney, T!Shaped, T!Fields, T!DayFields, T!SameBook, T!NewDay
<1>8. SameMoney(s, u)
  BY <1>2, <1>7 DEF SameMoney, T!SameBook
<1>9. PICK v, z, i, j : /\ v = T!Verdict(tState, "DailyMaxLoss", "Breach")
                        /\ z = Loose!Verdict(lState, "DailyMaxLoss", "Breach")
                        /\ i = T!Verdict(tState, "Rollover", "Info")
                        /\ j = Loose!Verdict(lState, "Rollover", "Info")
  OBVIOUS
<1>10. ~IsDaily(i) /\ ~IsDaily(j) /\ IsDaily(v) /\ IsDaily(z)
  BY <1>9 DEF T!Verdict, Loose!Verdict, IsDaily
<1>11. PICK vd, wd : vd = T!When(T!EodHit(tState), v) /\ wd = Loose!When(Loose!EodHit(lState), z)
  OBVIOUS
<1>12. /\ Listed(vd) /\ Daily(vd) = IF T!EodHit(tState) THEN 1 ELSE 0
       /\ Listed(wd) /\ Daily(wd) = IF Loose!EodHit(lState) THEN 1 ELSE 0
  BY <1>10, <1>11, DailyOne DEF T!When, Loose!When
<1>13. PICK vs, ws : vs = vd \o <<i>> /\ ws = wd \o <<j>>
  OBVIOUS
<1>14. Listed(<<i>>) /\ Daily(<<i>>) = 0 /\ Listed(<<j>>) /\ Daily(<<j>>) = 0
  BY <1>10, DailyOne
<1>15. /\ Listed(vs) /\ Daily(vs) = (IF T!EodHit(tState) THEN 1 ELSE 0) + 0
       /\ Listed(ws) /\ Daily(ws) = (IF Loose!EodHit(lState) THEN 1 ELSE 0) + 0
  BY <1>12, <1>13, <1>14, DailyJoin
<1>16. Paid(tState, lState, s, u, vs, ws)
  <2>1. Owed(tState, lState) \in {0, 1}
    BY DEF Owed
  <2>2. Owed(s, u) = 0 /\ Behind(s, u)
    BY <1>7 DEF Owed, Behind
  <2>3. tState.day.start_equity \in Nat => (Loose!EodHit(lState) => T!EodHit(tState))
    BY HitsNest
  <2>4. tState.day.start_equity \in Nat => Daily(ws) + Owed(s, u) <= Daily(vs) + Owed(tState, lState)
    BY <1>15, <2>1, <2>2, <2>3
  <2> QED BY <1>15, <2>2, <2>4 DEF Paid
<1>17. PICK g, y : g = T!Booked(s, e) /\ y = Loose!Booked(u, e)
  OBVIOUS
<1>18. SameMoney(g, y) /\ SameDay(s, g) /\ SameDay(u, y)
  BY <1>8, <1>17, BookedPair
<1>19. SameDay(tState, tState) /\ SameDay(lState, lState)
  BY DEF SameDay
<1>20. Paid(tState, lState, g, y, vs, ws)
  BY <1>16, <1>18, <1>19, PaidAlike
<1>21. tState' = g /\ tVerdicts' = tVerdicts \o vs
  BY <1>1, <1>3, <1>4, <1>6, <1>9, <1>11, <1>13, <1>17 DEF T!Rollover, T!Return
<1>22. lState' = y /\ lVerdicts' = lVerdicts \o ws
  <2>1. k = (IF lState.day.traded THEN b.day_counter + 1 ELSE b.day_counter)
    BY <1>2, <1>4 DEF SameMoney
  <2> QED BY <1>1, <1>3, <1>5, <1>6, <1>9, <1>11, <1>13, <1>17, <2>1 DEF Loose!Rollover, Loose!Return
<1> QED BY <1>18, <1>20, <1>21, <1>22, MoveIs

\* Which action takes an event depends on its type and its dedup key alone.
LEMMA Kinds ==
  ASSUME NEW e
  PROVE  /\ T!Duplicate(e) => ~T!Fresh(e)
         /\ T!Mark(e) => T!Fresh(e) /\ e.type = "mark"
         /\ T!OrderFilled(e) => T!Fresh(e) /\ e.type = "fill"
         /\ T!TradeClosed(e) => T!Fresh(e) /\ e.type = "close"
         /\ T!BalanceAdjustment(e) => T!Fresh(e) /\ e.type = "adjustment"
         /\ T!AccountStateReport(e) => T!Fresh(e) /\ e.type = "report"
         /\ T!NewsWindow(e) => T!Fresh(e) /\ e.type = "news"
         /\ T!Rollover(e) => T!Fresh(e) /\ e.type = "rollover"
         /\ Loose!Duplicate(e) => ~Loose!Fresh(e)
         /\ Loose!Mark(e) => Loose!Fresh(e) /\ e.type = "mark"
         /\ Loose!OrderFilled(e) => Loose!Fresh(e) /\ e.type = "fill"
         /\ Loose!TradeClosed(e) => Loose!Fresh(e) /\ e.type = "close"
         /\ Loose!BalanceAdjustment(e) => Loose!Fresh(e) /\ e.type = "adjustment"
         /\ Loose!AccountStateReport(e) => Loose!Fresh(e) /\ e.type = "report"
         /\ Loose!NewsWindow(e) => Loose!Fresh(e) /\ e.type = "news"
         /\ Loose!Rollover(e) => Loose!Fresh(e) /\ e.type = "rollover"
<1>1. /\ T!Duplicate(e) => ~T!Fresh(e)
      /\ Loose!Duplicate(e) => ~Loose!Fresh(e)
  BY DEF T!Duplicate, Loose!Duplicate
<1>2. /\ T!Mark(e) => T!Fresh(e) /\ e.type = "mark"
      /\ Loose!Mark(e) => Loose!Fresh(e) /\ e.type = "mark"
  BY Zenon DEF T!Mark, Loose!Mark
<1>3. /\ T!OrderFilled(e) => T!Fresh(e) /\ e.type = "fill"
      /\ Loose!OrderFilled(e) => Loose!Fresh(e) /\ e.type = "fill"
  BY Zenon DEF T!OrderFilled, Loose!OrderFilled
<1>4. /\ T!TradeClosed(e) => T!Fresh(e) /\ e.type = "close"
      /\ Loose!TradeClosed(e) => Loose!Fresh(e) /\ e.type = "close"
  BY Zenon DEF T!TradeClosed, Loose!TradeClosed
<1>5. /\ T!BalanceAdjustment(e) => T!Fresh(e) /\ e.type = "adjustment"
      /\ Loose!BalanceAdjustment(e) => Loose!Fresh(e) /\ e.type = "adjustment"
  BY Zenon DEF T!BalanceAdjustment, Loose!BalanceAdjustment
<1>6. /\ T!AccountStateReport(e) => T!Fresh(e) /\ e.type = "report"
      /\ Loose!AccountStateReport(e) => Loose!Fresh(e) /\ e.type = "report"
  BY Zenon DEF T!AccountStateReport, Loose!AccountStateReport
<1>7. /\ T!NewsWindow(e) => T!Fresh(e) /\ e.type = "news"
      /\ Loose!NewsWindow(e) => Loose!Fresh(e) /\ e.type = "news"
  BY Zenon DEF T!NewsWindow, Loose!NewsWindow
<1>8. /\ T!Rollover(e) => T!Fresh(e) /\ e.type = "rollover"
      /\ Loose!Rollover(e) => Loose!Fresh(e) /\ e.type = "rollover"
  BY Zenon DEF T!Rollover, Loose!Rollover
<1> QED BY <1>1, <1>2, <1>3, <1>4, <1>5, <1>6, <1>7, <1>8, Zenon

\* One delivery: a duplicate for both, or the same handler for both.
LEMMA ApplyPair ==
  ASSUME PacksNest, SameMoney(tState, lState), T!Typed(tState),
         NEW e \in Stream, T!Apply(e), Loose!Apply(e)
  PROVE  Moved \/ UNCHANGED <<tState, lState, tVerdicts, lVerdicts>>
<1>0. Loose!Fresh(e) <=> T!Fresh(e)
  BY ArrivedPair
<1>1. CASE T!Duplicate(e)
  <2>1. ~Loose!Fresh(e)
    BY <1>0, <1>1, Kinds
  <2>2. Loose!Duplicate(e)
    BY <2>1, Kinds DEF Loose!Apply
  <2> QED BY <1>1, <2>2 DEF T!Duplicate, Loose!Duplicate, T!vars, Loose!vars
<1>2. CASE T!Mark(e)
  <2>1. Loose!Mark(e)
    BY <1>0, <1>2, Kinds DEF Loose!Apply
  <2> QED BY <1>2, <2>1, MarkPair
<1>3. CASE T!OrderFilled(e)
  <2>1. Loose!OrderFilled(e)
    BY <1>0, <1>3, Kinds DEF Loose!Apply
  <2> QED BY <1>3, <2>1, FillPair
<1>4. CASE T!TradeClosed(e)
  <2>1. Loose!TradeClosed(e)
    BY <1>0, <1>4, Kinds DEF Loose!Apply
  <2> QED BY <1>4, <2>1, ClosePair
<1>5. CASE T!BalanceAdjustment(e)
  <2>1. Loose!BalanceAdjustment(e)
    BY <1>0, <1>5, Kinds DEF Loose!Apply
  <2> QED BY <1>5, <2>1, AdjustmentPair
<1>6. CASE T!AccountStateReport(e)
  <2>1. Loose!AccountStateReport(e)
    BY <1>0, <1>6, Kinds DEF Loose!Apply
  <2> QED BY <1>6, <2>1, ReportPair
<1>7. CASE T!NewsWindow(e)
  <2>1. Loose!NewsWindow(e)
    BY <1>0, <1>7, Kinds DEF Loose!Apply
  <2> QED BY <1>7, <2>1, NewsPair
<1>8. CASE T!Rollover(e)
  <2>1. Loose!Rollover(e)
    BY <1>0, <1>8, Kinds DEF Loose!Apply
  <2> QED BY <1>8, <2>1, RolloverPair
<1> QED BY <1>1, <1>2, <1>3, <1>4, <1>5, <1>6, <1>7, <1>8 DEF T!Apply

-----------------------------------------------------------------------------
(* The pair as a whole *)

\* The packs differ in limits only, the accounts in flags only.
PairInv == PacksNest /\ SameMoney(tState, lState) /\ T!Sound(tState)

\* The wide pack's daily breaches, and the one it still owes, are covered.
Counted ==
  /\ Listed(tVerdicts) /\ Listed(lVerdicts)
  /\ Behind(tState, lState)
  /\ Daily(lVerdicts) + Owed(tState, lState) <= Daily(tVerdicts)

\* No day begins with negative equity.
SolventDays == tState.day.start_equity \in Nat

\* Both accounts begin with the same money and no verdict.
LEMMA PairStarts == ASSUME Init PROVE PairInv /\ Counted
<1>1. PICK p \in TightPacks : ~Tight!PackError(p) /\ tPack = Tight!Compile(p)
  BY DEF Init, Tight!Init
<1>2. PICK r \in LoosePacks : lPack = Loose!Compile(r)
  BY DEF Init, Loose!Init
<1>3. PICK d, o : lPack = [tPack EXCEPT !.daily_loss_pct = d, !.overall_loss_pct = o]
  BY DEF Init, Wider
<1>4. /\ lPack.trailing = tPack.trailing
      /\ lPack.daily_basis_equity = tPack.daily_basis_equity
      /\ lPack.daily_breach_intraday = tPack.daily_breach_intraday
      /\ lPack.start_balance = tPack.start_balance
      /\ lPack.news = tPack.news
  BY <1>1, <1>3 DEF Tight!Compile
<1>5. tPack.daily_loss_pct \in Int /\ lPack.daily_loss_pct \in Int
  <2>1. p.max_daily_loss_pct \in Int /\ tPack.daily_loss_pct = p.max_daily_loss_pct
    BY <1>1, PairAssumption DEF Tight!EngineAssumption, Tight!RulePacks, Tight!Compile
  <2>2. r.max_daily_loss_pct \in Int /\ lPack.daily_loss_pct = r.max_daily_loss_pct
    BY <1>2, PairAssumption DEF Loose!EngineAssumption, Loose!RulePacks, Loose!Compile
  <2> QED BY <2>1, <2>2
<1>6. PacksNest
  BY <1>4, <1>5 DEF PacksNest, Init, Wider
<1>7. tState = T!NewAccount(tPack) /\ lState = T!NewAccount(lPack)
  BY DEF Init, Tight!Init, Loose!Init, Tight!NewAccount, T!NewAccount, Loose!NewAccount,
         Tight!NewDay, T!NewDay, Loose!NewDay
<1>8. T!Shaped(tState) /\ T!Shaped(lState)
  BY <1>7, Assumed, T!NewAccountShaped
<1>9. SameMoney(tState, lState)
  BY <1>4, <1>7, <1>8 DEF SameMoney, T!SameBook, T!NewAccount, T!NewDay
<1>10. T!Init
  <2>1. \A q : Tight!Compile(q) = T!Compile(q)
    BY DEF Tight!Compile, T!Compile, Tight!NoNews, T!NoNews, Tight!CompiledNews, T!CompiledNews
  <2>2. \A q : Tight!PackError(q) <=> T!PackError(q)
    BY DEF Tight!PackError, T!PackError
  <2> QED BY <1>7, <2>1, <2>2 DEF Init, Tight!Init, T!Init
<1>11. T!Sound(tState)
  BY <1>10, Assumed, T!NewAccountSound
<1>12. Counted
  <2>1. tVerdicts = <<>> /\ lVerdicts = <<>>
    BY DEF Init, Tight!Init, Loose!Init
  <2>2. tState.day.daily_breached = FALSE /\ lState.day.daily_breached = FALSE
    BY <1>7 DEF T!NewAccount, T!NewDay
  <2>3. Listed(<<>>) /\ Daily(<<>>) = 0
    BY DailyOne
  <2>4. Owed(tState, lState) = 0 /\ Behind(tState, lState)
    BY <2>2 DEF Owed, Behind
  <2>5. /\ Listed(tVerdicts) /\ Listed(lVerdicts)
        /\ Daily(tVerdicts) = 0 /\ Daily(lVerdicts) = 0
    BY <2>1, <2>3
  <2> QED BY <2>4, <2>5 DEF Counted
<1> QED BY <1>6, <1>9, <1>11, <1>12 DEF PairInv

\* A delivery to both leaves the packs alone, and the tight account sound.
LEMMA PacksKept ==
  ASSUME PairInv, Next
  PROVE  /\ tPack' = tPack /\ lPack' = lPack /\ T!Sound(tState)'
         /\ Moved \/ UNCHANGED <<tState, lState, tVerdicts, lVerdicts>>
<1>1. PICK e \in Stream : Tight!Apply(e) /\ Loose!Apply(e)
  BY DEF Next
<1>2. T!Apply(e)
  BY <1>1, SameApply
<1>3. tPack' = tPack
  BY <1>2, Assumed, T!PackKept
<1>4. lPack' = lPack
  BY <1>1 DEF Loose!Apply, Loose!Duplicate, Loose!vars, Loose!Mark, Loose!OrderFilled, Loose!TradeClosed,
     Loose!BalanceAdjustment, Loose!AccountStateReport, Loose!NewsWindow, Loose!Rollover, Loose!Return
<1>5. T!Next
  BY <1>2 DEF T!Next
<1>6. T!Sound(tState)'
  BY <1>5, Assumed, T!SoundStep DEF PairInv
<1>7. T!Typed(tState)
  BY DEF PairInv, T!Sound
<1>8. Moved \/ UNCHANGED <<tState, lState, tVerdicts, lVerdicts>>
  BY <1>1, <1>2, <1>7, ApplyPair DEF PairInv
<1> QED BY <1>3, <1>4, <1>6, <1>8

\* The pair stays so in every step.
LEMMA PairStep == ASSUME PairInv, [Next]_vars PROVE PairInv'
<1>1. CASE Next
  <2>1. /\ tPack' = tPack /\ lPack' = lPack /\ T!Sound(tState)'
        /\ Moved \/ UNCHANGED <<tState, lState, tVerdicts, lVerdicts>>
    BY <1>1, PacksKept
  <2>2. SameMoney(tState', lState')
    BY <2>1 DEF Moved, PairInv
  <2>3. SameMoney(tState, lState)'
    BY <2>1, <2>2 DEF SameMoney, T!Shaped, T!SameBook, T!Fields, T!DayFields
  <2>4. PacksNest'
    BY <2>1 DEF PairInv, PacksNest
  <2> QED BY <2>1, <2>3, <2>4 DEF PairInv
<1>2. CASE UNCHANGED vars
  <2>1. T!Sound(tState)'
    <3>1. UNCHANGED T!vars
      BY <1>2 DEF vars, T!vars
    <3> QED BY <3>1, Assumed, T!SoundStep DEF PairInv
  <2>2. SameMoney(tState, lState)' /\ PacksNest'
    BY <1>2 DEF vars, PairInv, SameMoney, T!Shaped, T!SameBook, T!Fields, T!DayFields, PacksNest
  <2> QED BY <2>1, <2>2 DEF PairInv
<1> QED BY <1>1, <1>2

\* What a step reports of the two packs keeps the wide one's count covered.
LEMMA CountStep == ASSUME PairInv, Counted, SolventDays, [Next]_vars PROVE Counted'
<1>1. CASE UNCHANGED <<tState, lState, tVerdicts, lVerdicts>>
  BY <1>1 DEF Counted, Behind, Owed, Daily, Breaches, Listed
<1>2. CASE Moved
  <2>1. PICK vs, ws : /\ tVerdicts' = tVerdicts \o vs /\ lVerdicts' = lVerdicts \o ws
                      /\ Paid(tState, lState, tState', lState', vs, ws)
    BY <1>2 DEF Moved
  <2>2. PICK a, b, m, n : a = Daily(tVerdicts) /\ b = Daily(lVerdicts) /\ m = Daily(vs) /\ n = Daily(ws)
    OBVIOUS
  <2>3. a \in Nat /\ b \in Nat /\ m \in Nat /\ n \in Nat
    BY <2>1, <2>2, ListedParts DEF Counted, Paid
  <2>4. /\ Listed(tVerdicts \o vs) /\ Daily(tVerdicts \o vs) = a + m
        /\ Listed(lVerdicts \o ws) /\ Daily(lVerdicts \o ws) = b + n
    BY <2>1, <2>2, DailyJoin DEF Counted, Paid
  <2>5. PICK x, y : x = Owed(tState, lState) /\ y = Owed(tState', lState')
    OBVIOUS
  <2>6. x \in Nat /\ y \in Nat
    BY <2>5 DEF Owed
  <2>7. b + x <= a
    BY <2>2, <2>5 DEF Counted
  <2>8. Behind(tState', lState') /\ n + y <= m + x
    BY <2>1, <2>2, <2>5 DEF Paid, Counted, SolventDays
  <2>9. (b + n) + y <= a + m
    BY <2>3, <2>6, <2>7, <2>8
  <2>10. Listed(tVerdicts') /\ Listed(lVerdicts') /\ Daily(tVerdicts') = a + m /\ Daily(lVerdicts') = b + n
    BY <2>1, <2>4
  <2>11. Daily(lVerdicts') + Owed(tState', lState') <= Daily(tVerdicts')
    BY <2>5, <2>9, <2>10
  <2> QED BY <2>8, <2>10, <2>11 DEF Counted, Behind, Owed, Daily, Breaches, Listed
<1>3. Moved \/ UNCHANGED <<tState, lState, tVerdicts, lVerdicts>>
  BY PacksKept DEF vars
<1> QED BY <1>1, <1>2, <1>3

\* Whatever the stream and its order, two packs that differ in their loss limits
\* only leave the same money, books, marks, high-water mark and day snapshot:
\* no limit feeds back into the ledger (apply).
THEOREM LedgersAgree == Spec => []SameLedger
<1>1. Init => PairInv
  BY PairStarts
<1>2. PairInv /\ [Next]_vars => PairInv'
  BY PairStep
<1>3. PairInv => SameLedger
  BY DEF PairInv, SameMoney, T!SameBook, SameLedger
<1> QED BY <1>1, <1>2, <1>3, PTL DEF Spec

\* And if no day begins with negative equity, the pack with the wider limits
\* never reports more daily-loss breaches, at any prefix of the stream, intraday
\* and at the end of the day alike (check_rules, roll_day): a breach it reports
\* was reported on the same day under the tight pack, or is reported with it.
THEOREM PacksAreCompared == Spec /\ []SolventDays => []PacksCompare
<1>1. Init => PairInv /\ Counted
  BY PairStarts
<1>2. PairInv /\ [Next]_vars => PairInv'
  BY PairStep
<1>3. PairInv /\ Counted /\ SolventDays /\ [Next]_vars => Counted'
  BY CountStep
<1>4. PairInv /\ Counted => PacksCompare
  <2>1. PairInv => SameLedger
    BY DEF PairInv, SameMoney, T!SameBook, SameLedger
  <2>2. Counted => DailyMonotone
    <3>1. Owed(tState, lState) \in Nat
      BY DEF Owed
    <3>2. Counted => Daily(lVerdicts) \in Nat /\ Daily(tVerdicts) \in Nat
      BY ListedParts DEF Counted
    <3>3. Counted => Daily(lVerdicts) <= Daily(tVerdicts)
      BY <3>1, <3>2 DEF Counted
    <3> QED BY <3>3 DEF DailyMonotone, Daily
  <2> QED BY <2>1, <2>2 DEF PacksCompare
<1> QED BY <1>1, <1>2, <1>3, <1>4, PTL DEF Spec

=============================================================================
