-------------------------- MODULE RulesEngineProofs --------------------------
(***************************************************************************)
(* Theorems about RulesEngine, for every stream of events, every set of    *)
(* packs, orders and symbols.                                              *)
(*                                                                         *)
(* The first part uses of the equity only that it is a function of         *)
(* balance, positions and marks; where its value matters (the extremes,    *)
(* the ledger) it is the Total defined below.                              *)
(***************************************************************************)
EXTENDS RulesEngine, FiniteSetTheorems, WellFoundedInduction, SequenceTheorems, TLAPS

\* The shape of an account record; what its numbers are does not matter.
Fields == {"balance", "hwm", "day", "day_counter", "positions", "last_px", "overall_breached",
           "target_reached", "news_windows", "deferred_closes", "seen_dedup_keys", "seq_applied",
           "last_broker_ts"}

DayFields == {"date", "start_equity", "worst_equity", "traded", "daily_breached"}

Shaped(s) ==
  /\ DOMAIN s = Fields
  /\ DOMAIN s.day = DayFields
  /\ DOMAIN s.positions = Orders
  /\ DOMAIN s.deferred_closes = Orders

\* Two account records that agree on what the equity and the deferred buffer
\* are made of.
SameBook(s, t) ==
  /\ t.balance = s.balance
  /\ t.positions = s.positions
  /\ t.last_px = s.last_px
  /\ t.deferred_closes = s.deferred_closes

\* A new account has the shape.
LEMMA NewAccountShaped == ASSUME NEW p PROVE Shaped(NewAccount(p))
BY DEF Shaped, NewAccount, NewDay, Fields, DayFields

\* check_rules moves flags and the worst equity only.
LEMMA CheckRulesKeeps ==
  ASSUME NEW s, Shaped(s)
  PROVE  /\ Shaped(CheckRules(s))
         /\ SameBook(s, CheckRules(s))
         /\ CheckRules(s).day.start_equity = s.day.start_equity
         /\ CheckRules(s).day.date = s.day.date
         /\ CheckRules(s).day.daily_breached = (s.day.daily_breached \/ DailyHit(s))
<1>1. /\ DOMAIN CheckRules(s) = Fields
      /\ SameBook(s, CheckRules(s))
  BY DEF CheckRules, Shaped, Fields, SameBook
<1>2. /\ DOMAIN CheckRules(s).day = DayFields
      /\ CheckRules(s).day.start_equity = s.day.start_equity
      /\ CheckRules(s).day.date = s.day.date
  BY DEF CheckRules, Shaped, Fields, DayFields
<1>3. CheckRules(s).day.daily_breached = (s.day.daily_breached \/ DailyHit(s))
  BY DEF CheckRules, Shaped, Fields, DayFields
<1> QED BY <1>1, <1>2, <1>3 DEF Shaped, SameBook

\* The bookkeeping moves seq_applied and last_broker_ts only.
LEMMA BookedKeeps ==
  ASSUME NEW s, NEW e, Shaped(s)
  PROVE  Shaped(Booked(s, e)) /\ SameBook(s, Booked(s, e)) /\ Booked(s, e).day = s.day
BY DEF Booked, Shaped, Fields, SameBook

\* Recording a dedup key moves nothing else.
LEMMA ArrivedKeeps ==
  ASSUME NEW e, Shaped(state)
  PROVE  Shaped(Arrived(e)) /\ SameBook(state, Arrived(e)) /\ Arrived(e).day = state.day
BY DEF Arrived, Shaped, Fields, SameBook

\* Settling a close frees its own order and no deferred close.
LEMMA SettledKeeps ==
  ASSUME NEW s, NEW c, Shaped(s)
  PROVE  /\ Shaped(Settled(s, c))
         /\ Settled(s, c).deferred_closes = s.deferred_closes
         /\ \A o \in Orders : Settled(s, c).positions[o] # None => s.positions[o] # None
         /\ Settled(s, c).day.start_equity = s.day.start_equity
         /\ Settled(s, c).day.daily_breached = s.day.daily_breached
<1> DEFINE t == [s EXCEPT !.balance = @ + Pnl(s.positions[c.order], c.px) + OrZero(c.fee),
                          !.positions[c.order] = None,
                          !.last_px[c.symbol] = c.px,
                          !.day.traded = TRUE]
<1>1. /\ Shaped(t)
      /\ t.deferred_closes = s.deferred_closes
      /\ t.positions = [s.positions EXCEPT ![c.order] = None]
      /\ t.day = [s.day EXCEPT !.traded = TRUE]
  BY DEF Shaped, Fields, DayFields
<1>2. Settled(s, c) = [t EXCEPT !.hwm = TrailedHwm(t)]
  BY DEF Settled
<1> HIDE DEF t
<1>3. /\ Shaped(Settled(s, c))
      /\ Settled(s, c).deferred_closes = s.deferred_closes
      /\ Settled(s, c).positions = [s.positions EXCEPT ![c.order] = None]
      /\ Settled(s, c).day = [s.day EXCEPT !.traded = TRUE]
  BY <1>1, <1>2 DEF Shaped, Fields
<1> QED BY <1>3 DEF Shaped, DayFields

\* After the drain the order has no deferred close; no other order is touched
\* except that the drained close may free its own.
LEMMA DrainedKeeps ==
  ASSUME NEW s, NEW o \in Orders, Shaped(s)
  PROVE  /\ Shaped(Drained(s, o))
         /\ Drained(s, o).deferred_closes = [s.deferred_closes EXCEPT ![o] = <<>>]
         /\ \A p \in Orders : Drained(s, o).positions[p] # None => s.positions[p] # None
<1> DEFINE t == [s EXCEPT !.deferred_closes[o] = <<>>]
           q == s.deferred_closes[o]
<1>1. /\ Shaped(t)
      /\ t.deferred_closes = [s.deferred_closes EXCEPT ![o] = <<>>]
      /\ t.positions = s.positions
  BY DEF Shaped, Fields
<1>2. CASE Drains(q)
  <2>1. Drained(s, o) = CheckRules(Settled(t, Drainer(q)))
    BY <1>2 DEF Drained
  <2> HIDE DEF t, q
  <2>2. /\ Shaped(Settled(t, Drainer(q)))
        /\ Settled(t, Drainer(q)).deferred_closes = t.deferred_closes
        /\ \A p \in Orders : Settled(t, Drainer(q)).positions[p] # None => t.positions[p] # None
    BY <1>1, SettledKeeps
  <2>3. /\ Shaped(CheckRules(Settled(t, Drainer(q))))
        /\ SameBook(Settled(t, Drainer(q)), CheckRules(Settled(t, Drainer(q))))
    BY <2>2, CheckRulesKeeps
  <2> QED BY <1>1, <2>1, <2>2, <2>3 DEF SameBook
<1>3. CASE ~Drains(q)
  <2>1. Drained(s, o) = t
    BY <1>3 DEF Drained
  <2> HIDE DEF t, q
  <2> QED BY <1>1, <2>1
<1> QED BY <1>2, <1>3

-----------------------------------------------------------------------------
(* No deferred close waits for an open position *)

Waitless(s) == \A o \in Orders : s.positions[o] # None => s.deferred_closes[o] = <<>>

CloseInv == Shaped(state) /\ Waitless(state)

\* Every event keeps the shape of the account and leaves no close waiting.
LEMMA CloseInvStep ==
  ASSUME CloseInv, NEW e \in Stream, Apply(e)
  PROVE  CloseInv'
<1> USE DEF CloseInv
<1>0. /\ Shaped(Arrived(e)) /\ SameBook(state, Arrived(e)) /\ Arrived(e).day = state.day
  BY ArrivedKeeps
<1>a. ASSUME NEW s, Shaped(s), Waitless(s)
      PROVE  /\ Shaped(CheckRules(s)) /\ Waitless(CheckRules(s))
             /\ Shaped(Booked(s, e)) /\ Waitless(Booked(s, e))
             /\ Shaped(Booked(CheckRules(s), e)) /\ Waitless(Booked(CheckRules(s), e))
  <2>1. Shaped(CheckRules(s)) /\ SameBook(s, CheckRules(s))
    BY <1>a, CheckRulesKeeps
  <2>2. /\ Shaped(Booked(s, e)) /\ SameBook(s, Booked(s, e))
        /\ Shaped(Booked(CheckRules(s), e)) /\ SameBook(CheckRules(s), Booked(CheckRules(s), e))
    BY <1>a, <2>1, BookedKeeps
  <2> QED BY <1>a, <2>1, <2>2 DEF SameBook, Waitless
<1>b. Waitless(Arrived(e)) /\ Shaped(Booked(Arrived(e), e)) /\ Waitless(Booked(Arrived(e), e))
  <2>1. Waitless(Arrived(e))
    BY <1>0 DEF SameBook, Waitless
  <2> QED BY <1>0, <2>1, <1>a
<1>1. CASE Duplicate(e)
  BY <1>1 DEF Duplicate, vars, Shaped, Waitless
<1>2. CASE Mark(e)
  <2> DEFINE s == [Arrived(e) EXCEPT !.last_px[e.symbol] = e.px]
  <2>1. Shaped(s) /\ Waitless(s)
    BY <1>0, <1>b DEF Shaped, Fields, Waitless
  <2>2. state' = Booked(Arrived(e), e) \/ state' = Booked(CheckRules(s), e)
    BY <1>2 DEF Mark, Return
  <2> HIDE DEF s
  <2> QED BY <2>1, <2>2, <1>a, <1>b DEF Shaped, Waitless
<1>3. CASE OrderFilled(e)
  <2> DEFINE s == Opened(Arrived(e), e)
             t == Drained(s, e.order)
  <2>0. e.order \in Orders
    BY <1>3, EngineAssumption DEF OrderFilled
  <2>1. CASE state' = Arrived(e)
    BY <2>1, <1>0, <1>b DEF Shaped, Waitless
  <2>2. CASE state' = Booked(CheckRules(t), e)
    <3>1. /\ Shaped(s)
          /\ s.deferred_closes = state.deferred_closes
          /\ \A p \in Orders : p # e.order => s.positions[p] = state.positions[p]
      <4>1. s = [Arrived(e) EXCEPT !.positions = s.positions, !.last_px = s.last_px,
                                   !.balance = s.balance]
        BY <1>0 DEF Opened, Shaped, Fields
      <4>2. s.positions = [Arrived(e).positions EXCEPT ![e.order] =
                [symbol |-> e.symbol, side |-> e.side, volume |-> e.volume,
                 entry_px |-> e.px, opened_ts |-> e.ts]]
        BY <1>0 DEF Opened, Shaped, Fields
      <4> HIDE DEF s
      <4> QED BY <1>0, <4>1, <4>2, <2>0 DEF Shaped, Fields, SameBook
    <3> HIDE DEF s
    <3>2. /\ Shaped(t)
          /\ t.deferred_closes = [s.deferred_closes EXCEPT ![e.order] = <<>>]
          /\ \A p \in Orders : t.positions[p] # None => s.positions[p] # None
      BY <3>1, <2>0, DrainedKeeps
    <3> HIDE DEF t
    <3>3. Waitless(t)
      BY <3>1, <3>2, <2>0 DEF Waitless, Shaped
    <3> QED BY <2>2, <3>2, <3>3, <1>a DEF Shaped, Waitless
  <2> QED BY <1>3, <2>1, <2>2 DEF OrderFilled, Return
<1>4. CASE TradeClosed(e)
  <2>0. e.order \in Orders
    BY <1>4, EngineAssumption DEF TradeClosed
  <2>1. CASE /\ state.positions[e.order] = None
             /\ state' = [Arrived(e) EXCEPT !.deferred_closes[e.order] = Append(@, e)]
    BY <2>0, <2>1, <1>0 DEF Shaped, Fields, SameBook, Waitless
  <2>2. CASE state' = Booked(Arrived(e), e)
    BY <2>2, <1>b DEF Shaped, Waitless
  <2>3. CASE state' = Booked(CheckRules(Settled(Arrived(e), e)), e)
    <3>1. Shaped(Settled(Arrived(e), e)) /\ Waitless(Settled(Arrived(e), e))
      BY <1>0, <1>b, SettledKeeps DEF Waitless
    <3> QED BY <2>3, <3>1, <1>a DEF Shaped, Waitless
  <2> QED BY <1>4, <2>1, <2>2, <2>3 DEF TradeClosed, Return
<1>5. CASE BalanceAdjustment(e)
  <2> DEFINE t == [Arrived(e) EXCEPT !.balance = @ + e.amount]
             s == [t EXCEPT !.hwm = TrailedHwm(t)]
  <2>1. Shaped(t) /\ Waitless(t)
    BY <1>0, <1>b DEF Shaped, Fields, Waitless
  <2>2. state' = Arrived(e) \/ state' = Booked(CheckRules(s), e)
    BY <1>5 DEF BalanceAdjustment, Return
  <2> HIDE DEF t
  <2>3. Shaped(s) /\ Waitless(s)
    BY <2>1 DEF Shaped, Fields, Waitless
  <2> HIDE DEF s
  <2> QED BY <2>2, <2>3, <1>0, <1>a, <1>b DEF Shaped, Waitless
<1>6. CASE AccountStateReport(e)
  BY <1>6, <1>b DEF AccountStateReport, Return, Shaped, Waitless
<1>7. CASE NewsWindow(e)
  <2> DEFINE s == [Arrived(e) EXCEPT !.news_windows =
               @ \cup {[symbol |-> e.symbol, tier |-> e.tier, start |-> e.start, end |-> e.end]}]
  <2>1. Shaped(s) /\ Waitless(s)
    BY <1>0, <1>b DEF Shaped, Fields, Waitless
  <2>2. state' = s \/ state' = Booked(s, e)
    BY <1>7 DEF NewsWindow, Return
  <2> HIDE DEF s
  <2> QED BY <2>1, <2>2, <1>a DEF Shaped, Waitless
<1>8. CASE Rollover(e)
  <2> DEFINE s == [Arrived(e) EXCEPT !.day_counter = IF state.day.traded THEN @ + 1 ELSE @,
                                     !.hwm = TrailedHwm(state),
                                     !.day = NewDay(e.date, EquityOf(state))]
  <2>1. Shaped(s) /\ Waitless(s)
    BY <1>0, <1>b DEF Shaped, Fields, DayFields, NewDay, Waitless
  <2>2. state' = Booked(s, e)
    BY <1>8 DEF Rollover, Return
  <2> HIDE DEF s
  <2> QED BY <2>1, <2>2, <1>a DEF Shaped, Waitless
<1> QED BY <1>1, <1>2, <1>3, <1>4, <1>5, <1>6, <1>7, <1>8 DEF Apply

\* For every stream, delivered in any order and any number of times, no close
\* waits in the deferred buffer while its position is open.
THEOREM DeferredClosesDrain == Spec => []NoCloseWaitsForOpen
<1>1. Init => CloseInv
  <2> SUFFICES ASSUME Init PROVE CloseInv OBVIOUS
  <2>1. Shaped(state)
    BY NewAccountShaped DEF Init
  <2>2. \A o \in Orders : state.deferred_closes[o] = <<>>
    BY DEF Init, NewAccount
  <2> QED BY <2>1, <2>2 DEF CloseInv, Waitless
<1>2. CloseInv /\ [Next]_vars => CloseInv'
  <2> SUFFICES ASSUME CloseInv, [Next]_vars PROVE CloseInv' OBVIOUS
  <2>1. CASE Next
    BY <2>1, CloseInvStep DEF Next
  <2>2. CASE UNCHANGED vars
    BY <2>2 DEF CloseInv, Shaped, Waitless, vars
  <2> QED BY <2>1, <2>2
<1>3. CloseInv => NoCloseWaitsForOpen
  BY DEF CloseInv, Waitless, NoCloseWaitsForOpen
<1> QED BY <1>1, <1>2, <1>3, PTL DEF Spec

-----------------------------------------------------------------------------
(* No daily loss goes unnoticed *)

\* A sum over no positions.
LEMMA EmptySum == ASSUME NEW op(_) PROVE MapThenSumSet(op, {}) = 0
BY DEF MapThenSumSet, MapThenFoldSet

\* DailyLossNoticed of an account record.
Noticed(s) ==
  (/\ pack.daily_breach_intraday /\ pack.daily_basis_equity
   /\ s.day.start_equity \in Nat
   /\ BelowDailyFloor(pack, EquityOf(s), s.day.start_equity))
  => s.day.daily_breached

DailyInv == CloseInv /\ pack.daily_loss_pct \in Nat /\ Noticed(state)

\* A percentage of a non-negative start is never above it.
LEMMA FloorBelowStart ==
  ASSUME NEW x \in Nat, NEW pct \in Nat
  PROVE  ~BelowFloor(x, x, pct)
<1>1. x * pct \in Nat
  OBVIOUS
<1>2. x * (100 - pct) = 100 * x - x * pct
  OBVIOUS
<1> QED BY <1>1, <1>2 DEF BelowFloor

\* check_rules leaves no daily loss unnoticed.
LEMMA CheckRulesNotices ==
  ASSUME NEW s, Shaped(s)
  PROVE  Noticed(CheckRules(s))
<1> DEFINE t == CheckRules(s)
<1>1. /\ EquityOf(t) = EquityOf(s)
      /\ t.day.start_equity = s.day.start_equity
      /\ t.day.daily_breached = (s.day.daily_breached \/ DailyHit(s))
  BY CheckRulesKeeps DEF SameBook, EquityOf
<1> HIDE DEF t
<1>2. ASSUME pack.daily_breach_intraday, pack.daily_basis_equity,
             BelowDailyFloor(pack, EquityOf(s), s.day.start_equity)
      PROVE  s.day.daily_breached \/ DailyHit(s)
  BY <1>2 DEF DailyHit
<1>3. Noticed(t)
  BY <1>1, <1>2 DEF Noticed
<1> QED BY <1>3 DEF t

\* What changes neither the book nor the day changes nothing for the rule.
LEMMA SameNoticed ==
  ASSUME NEW s, NEW t, SameBook(s, t), t.day = s.day, Noticed(s)
  PROVE  Noticed(t)
BY DEF SameBook, EquityOf, Noticed

\* Every event leaves the day's loss noticed.
LEMMA NoticedStep ==
  ASSUME DailyInv, NEW e \in Stream, Apply(e)
  PROVE  Noticed(state')
<1>0. /\ Shaped(state) /\ Noticed(state)
      /\ Shaped(Arrived(e)) /\ SameBook(state, Arrived(e)) /\ Arrived(e).day = state.day
  BY ArrivedKeeps DEF DailyInv, CloseInv
<1>a. ASSUME NEW s, Shaped(s)
      PROVE  Noticed(Booked(CheckRules(s), e))
  <2>1. Noticed(CheckRules(s)) /\ Shaped(CheckRules(s))
    BY <1>a, CheckRulesNotices, CheckRulesKeeps
  <2>2. /\ SameBook(CheckRules(s), Booked(CheckRules(s), e))
        /\ Booked(CheckRules(s), e).day = CheckRules(s).day
    BY <2>1, BookedKeeps
  <2> QED BY <2>1, <2>2, SameNoticed
<1>b. ASSUME NEW s, Shaped(s), Noticed(s)
      PROVE  Noticed(Booked(s, e))
  <2>1. SameBook(s, Booked(s, e)) /\ Booked(s, e).day = s.day
    BY <1>b, BookedKeeps
  <2> QED BY <1>b, <2>1, SameNoticed
<1>c. Noticed(Arrived(e)) /\ Noticed(Booked(Arrived(e), e))
  <2>1. Noticed(Arrived(e))
    BY <1>0, SameNoticed
  <2> QED BY <1>0, <2>1, <1>b
<1>1. CASE Duplicate(e)
  <2>1. state' = state
    BY <1>1 DEF Duplicate, vars
  <2> QED BY <2>1, <1>0
<1>2. CASE Mark(e)
  <2> DEFINE s == [Arrived(e) EXCEPT !.last_px[e.symbol] = e.px]
  <2>1. Shaped(s)
    BY <1>0 DEF Shaped, Fields
  <2>2. state' = Booked(Arrived(e), e) \/ state' = Booked(CheckRules(s), e)
    BY <1>2 DEF Mark, Return
  <2> HIDE DEF s
  <2> QED BY <2>1, <2>2, <1>a, <1>c
<1>3. CASE OrderFilled(e)
  <2> DEFINE s == Opened(Arrived(e), e)
             t == Drained(s, e.order)
  <2>0. e.order \in Orders
    BY <1>3, EngineAssumption DEF OrderFilled
  <2>1. Shaped(s)
    BY <1>0 DEF Opened, Shaped, Fields
  <2>2. state' = Arrived(e) \/ state' = Booked(CheckRules(t), e)
    BY <1>3 DEF OrderFilled, Return
  <2> HIDE DEF s
  <2>3. Shaped(t)
    BY <2>0, <2>1, DrainedKeeps
  <2> HIDE DEF t
  <2> QED BY <2>2, <2>3, <1>a, <1>c
<1>4. CASE TradeClosed(e)
  <2> DEFINE d == [Arrived(e) EXCEPT !.deferred_closes[e.order] = Append(@, e)]
  <2>1. \/ state' = d
        \/ state' = Booked(Arrived(e), e)
        \/ state' = Booked(CheckRules(Settled(Arrived(e), e)), e)
    BY <1>4 DEF TradeClosed, Return
  <2>2. d.day = Arrived(e).day /\ EquityOf(d) = EquityOf(Arrived(e))
    BY <1>0 DEF Shaped, Fields, EquityOf
  <2> HIDE DEF d
  <2>3. Noticed(d)
    BY <2>2, <1>c DEF Noticed
  <2>4. Shaped(Settled(Arrived(e), e))
    BY <1>0, SettledKeeps
  <2> QED BY <2>1, <2>3, <2>4, <1>a, <1>c
<1>5. CASE BalanceAdjustment(e)
  <2> DEFINE t == [Arrived(e) EXCEPT !.balance = @ + e.amount]
             s == [t EXCEPT !.hwm = TrailedHwm(t)]
  <2>1. Shaped(t)
    BY <1>0 DEF Shaped, Fields
  <2>2. state' = Arrived(e) \/ state' = Booked(CheckRules(s), e)
    BY <1>5 DEF BalanceAdjustment, Return
  <2> HIDE DEF t
  <2>3. Shaped(s)
    BY <2>1 DEF Shaped, Fields
  <2> HIDE DEF s
  <2> QED BY <2>2, <2>3, <1>a, <1>c
<1>6. CASE AccountStateReport(e)
  <2>1. state' = Booked(Arrived(e), e)
    BY <1>6 DEF AccountStateReport, Return
  <2> QED BY <2>1, <1>c
<1>7. CASE NewsWindow(e)
  <2> DEFINE s == [Arrived(e) EXCEPT !.news_windows =
               @ \cup {[symbol |-> e.symbol, tier |-> e.tier, start |-> e.start, end |-> e.end]}]
  <2>1. Shaped(s) /\ SameBook(Arrived(e), s) /\ s.day = Arrived(e).day
    BY <1>0 DEF Shaped, Fields, SameBook
  <2>2. state' = s \/ state' = Booked(s, e)
    BY <1>7 DEF NewsWindow, Return
  <2> HIDE DEF s
  <2>3. Noticed(s)
    BY <2>1, <1>c, SameNoticed
  <2> QED BY <2>1, <2>2, <2>3, <1>b
<1>8. CASE Rollover(e)
  <2> DEFINE s == [Arrived(e) EXCEPT !.day_counter = IF state.day.traded THEN @ + 1 ELSE @,
                                     !.hwm = TrailedHwm(state),
                                     !.day = NewDay(e.date, EquityOf(state))]
  <2>1. Shaped(s) /\ SameBook(state, s) /\ s.day.start_equity = EquityOf(state)
    BY <1>0 DEF Shaped, Fields, DayFields, NewDay, SameBook
  <2>2. state' = Booked(s, e)
    BY <1>8 DEF Rollover, Return
  <2> HIDE DEF s
  <2>3. s.day.start_equity = EquityOf(s)
    BY <2>1 DEF SameBook, EquityOf
  <2>4. pack.daily_loss_pct \in Nat
    BY DEF DailyInv
  <2>5. s.day.start_equity \in Nat => ~BelowDailyFloor(pack, EquityOf(s), s.day.start_equity)
    BY <2>3, <2>4, FloorBelowStart DEF BelowDailyFloor
  <2>6. Noticed(s)
    BY <2>5 DEF Noticed
  <2> QED BY <2>1, <2>2, <2>6, <1>b
<1> QED BY <1>1, <1>2, <1>3, <1>4, <1>5, <1>6, <1>7, <1>8 DEF Apply

\* For every stream and every pack that compiles, in an intraday equity pack
\* the equity is never under the floor of a day that began with non-negative
\* equity unless the breach has been recorded: every path through apply that
\* moves the equity ends in check_rules.
THEOREM DailyLossIsNoticed == Spec => []DailyLossNoticed
<1>1. Init => DailyInv
  <2> SUFFICES ASSUME Init PROVE DailyInv OBVIOUS
  <2>1. PICK p \in Packs : pack = Compile(p) /\ ~PackError(p)
    BY DEF Init
  <2>2. /\ pack.daily_loss_pct = p.max_daily_loss_pct
        /\ pack.start_balance = p.start_balance
        /\ p.max_daily_loss_pct \in Int /\ p.start_balance \in Int
        /\ ~(p.max_daily_loss_pct <= 0)
    BY <2>1, EngineAssumption DEF Compile, RulePacks, PackError
  <2>3. pack.daily_loss_pct \in Nat
    BY <2>2
  <2>4. Shaped(state) /\ Waitless(state)
    <3>1. Shaped(state)
      BY NewAccountShaped DEF Init
    <3>2. \A o \in Orders : state.deferred_closes[o] = <<>>
      BY DEF Init, NewAccount
    <3> QED BY <3>1, <3>2 DEF Waitless
  <2>5. Noticed(state)
    <3>1. state.day.start_equity = state.balance
      BY DEF Init, NewAccount, NewDay
    <3>2. \A o \in Orders : state.positions[o] = None
      BY DEF Init, NewAccount
    <3>3. EquityOf(state) = state.balance
      <4>1. {o \in Orders : state.positions[o] # None} = {}
        BY <3>2
      <4>2. state.balance \in Int
        BY <2>2 DEF Init, NewAccount
      <4> QED BY <4>1, <4>2, EmptySum DEF EquityOf, Equity
    <3> QED BY <3>1, <3>3, <2>3, FloorBelowStart DEF Noticed, BelowDailyFloor
  <2> QED BY <2>3, <2>4, <2>5 DEF DailyInv, CloseInv
<1>2. DailyInv /\ [Next]_vars => DailyInv'
  <2> SUFFICES ASSUME DailyInv, [Next]_vars PROVE DailyInv' OBVIOUS
  <2>1. CASE Next
    <3>1. PICK e \in Stream : Apply(e)
      BY <2>1 DEF Next
    <3>2. CloseInv'
      BY <3>1, CloseInvStep DEF DailyInv
    <3>3. pack' = pack
      BY <3>1 DEF Apply, Duplicate, vars, Mark, OrderFilled, TradeClosed, BalanceAdjustment,
                  AccountStateReport, NewsWindow, Rollover, Return
    <3>4. Noticed(state')
      BY <3>1, NoticedStep
    <3> QED BY <3>2, <3>3, <3>4 DEF DailyInv, Noticed, BelowDailyFloor, EquityOf
  <2>2. CASE UNCHANGED vars
    BY <2>2 DEF DailyInv, CloseInv, Shaped, Waitless, Noticed, BelowDailyFloor, EquityOf, vars
  <2> QED BY <2>1, <2>2
<1>3. DailyInv => DailyLossNoticed
  BY DEF DailyInv, Noticed, DailyLossNoticed
<1> QED BY <1>1, <1>2, <1>3, PTL DEF Spec


-----------------------------------------------------------------------------
(* Induction over the subsets of a finite set, and what follows from it    *)
(* for MapThenSumSet: Total(f, S) is the sum of f over S, which does not   *)
(* depend on the order the elements are chosen in.                         *)

\* What holds of a set whenever it holds of its proper subsets holds of every
\* finite set: Q is the set of the subsets it holds of.
LEMMA SubsetInduction ==
  ASSUME NEW S, IsFiniteSet(S), NEW Q,
         \A T \in SUBSET S : (\A U \in SUBSET T : U # T => U \in Q) => T \in Q
  PROVE  S \in Q
<1> SUFFICES ASSUME S \notin Q PROVE FALSE
  OBVIOUS
<1> DEFINE Rest == {T \in SUBSET S : T \notin Q}
<1>1. IsWellFoundedOn(StrictSubsetOrdering(S), SUBSET S)
  <2>1. IsWellFoundedOn(StrictSubsetOrdering(S), FiniteSubsetsOf(S))
    BY FS_StrictSubsetOrderingWellFounded
  <2>2. FiniteSubsetsOf(S) = SUBSET S
    BY FS_FiniteSubsetsOfFinite
  <2> QED BY <2>1, <2>2
<1>2. Rest \subseteq SUBSET S /\ Rest # {}
  OBVIOUS
<1>3. PICK T \in Rest : \A U \in Rest : ~(<<U, T>> \in StrictSubsetOrdering(S))
  <2> HIDE DEF Rest
  <2> QED BY <1>1, <1>2, WFMin
<1>4. \A U \in SUBSET T : U # T => U \in Q
  <2> SUFFICES ASSUME NEW U \in SUBSET T, U # T, U \notin Q PROVE FALSE
    OBVIOUS
  <2>1. U \in Rest /\ U \in SUBSET S /\ T \in SUBSET S
    OBVIOUS
  <2>2. <<U, T>> \in StrictSubsetOrdering(S)
    BY <2>1 DEF StrictSubsetOrdering
  <2> QED BY <1>3, <2>1, <2>2
<1> QED BY <1>3, <1>4

Choice(s) == CHOOSE x \in s : TRUE

\* g sums f over every subset of S, as MapThenSumSet does.
Sums(f, S, g) ==
  g = [s \in SUBSET S |-> IF s = {} THEN 0 ELSE f[Choice(s)] + g[s \ {Choice(s)}]]

SumsOf(f, S) == CHOOSE g : Sums(f, S, g)

\* The sum of f over S.
Total(f, S) == SumsOf(f, S)[S]

LEMMA SumsOfIs ==
  ASSUME NEW f, NEW S, \E g : Sums(f, S, g)
  PROVE  Sums(f, S, SumsOf(f, S))
  BY DEF SumsOf

LEMMA ChoiceIn == ASSUME NEW s, s # {} PROVE Choice(s) \in s
  BY DEF Choice

LEMMA SumsAt ==
  ASSUME NEW f, NEW S, NEW g, Sums(f, S, g), NEW s \in SUBSET S
  PROVE  g[s] = IF s = {} THEN 0 ELSE f[Choice(s)] + g[s \ {Choice(s)}]
  BY DEF Sums

\* Two sums agree where both are defined, if the functions do.
LEMMA SumsAgree ==
  ASSUME NEW S, NEW T, NEW f, NEW h, NEW g, NEW k, Sums(f, S, g), Sums(h, T, k),
         NEW U, IsFiniteSet(U), U \subseteq S, U \subseteq T, \A x \in U : f[x] = h[x]
  PROVE  g[U] = k[U]
<1> DEFINE Q == {V \in SUBSET U : g[V] = k[V]}
<1>0. /\ \A V \in SUBSET S : g[V] = IF V = {} THEN 0 ELSE f[Choice(V)] + g[V \ {Choice(V)}]
      /\ \A V \in SUBSET T : k[V] = IF V = {} THEN 0 ELSE h[Choice(V)] + k[V \ {Choice(V)}]
  BY DEF Sums
<1>1. ASSUME NEW V \in SUBSET U, \A W \in SUBSET V : W # V => W \in Q
      PROVE  V \in Q
  <2>0. V \in SUBSET S /\ V \in SUBSET T
    OBVIOUS
  <2>1. CASE V = {}
    BY <2>0, <2>1, SumsAt
  <2>2. CASE V # {}
    <3>1. PICK c, W : c = Choice(V) /\ W = V \ {c}
      OBVIOUS
    <3>2. c \in V /\ W \in SUBSET V /\ W # V
      BY <2>2, <3>1, ChoiceIn
    <3>3. g[W] = k[W]
      BY <1>1, <3>2
    <3>4. g[V] = IF V = {} THEN 0 ELSE f[Choice(V)] + g[V \ {Choice(V)}]
      BY <1>0, <2>0
    <3>5. k[V] = IF V = {} THEN 0 ELSE h[Choice(V)] + k[V \ {Choice(V)}]
      BY <1>0, <2>0
    <3>6. g[V] = f[c] + g[W] /\ k[V] = h[c] + k[W]
      BY <2>2, <3>1, <3>4, <3>5
    <3> QED BY <3>2, <3>3, <3>6
  <2> QED BY <2>1, <2>2
<1>2. U \in Q
  <2> HIDE DEF Q
  <2> QED BY <1>1, SubsetInduction
<1> QED BY <1>2

\* Every finite set has its sums.
LEMMA SumsExist ==
  ASSUME NEW f, NEW S, IsFiniteSet(S)
  PROVE  \E g : Sums(f, S, g)
<1> DEFINE Q == {T \in SUBSET S : \E g : Sums(f, T, g)}
<1>1. ASSUME NEW T \in SUBSET S, \A U \in SUBSET T : U # T => U \in Q
      PROVE  T \in Q
  <2>1. \A U \in SUBSET T : U # T => Sums(f, U, SumsOf(f, U))
    BY <1>1, SumsOfIs
  <2>2. ASSUME NEW U \in SUBSET T, U # T, U # {}
        PROVE  Total(f, U) = f[Choice(U)] + Total(f, U \ {Choice(U)})
    <3>0. PICK W : W = U \ {Choice(U)}
      OBVIOUS
    <3>1. W = U \ {Choice(U)} /\ W \subseteq U /\ W # U /\ W # T /\ W \in SUBSET T
      <4>1. Choice(U) \in U
        BY <2>2, ChoiceIn
      <4> QED BY <3>0, <4>1
    <3>2. PICK g, h : /\ g = SumsOf(f, U)
                      /\ h = SumsOf(f, W)
      OBVIOUS
    <3>3. Sums(f, U, g) /\ Sums(f, W, h)
      BY <2>1, <2>2, <3>1, <3>2
    <3>4. IsFiniteSet(W)
      BY <3>1, FS_Subset
    <3>5. g[W] = h[W]
      BY <3>1, <3>3, <3>4, SumsAgree
    <3>6. g[U] = f[Choice(U)] + g[W]
      BY <2>2, <3>1, <3>3, SumsAt
    <3> QED BY <3>1, <3>2, <3>5, <3>6 DEF Total
  <2>3. {} # T => Total(f, {}) = 0
    <3> SUFFICES ASSUME {} # T PROVE Total(f, {}) = 0
      OBVIOUS
    <3>1. PICK g : g = SumsOf(f, {})
      OBVIOUS
    <3>2. Sums(f, {}, g)
      BY <2>1, <3>1
    <3>3. g[{}] = 0
      BY <3>2, SumsAt
    <3> QED BY <3>1, <3>3 DEF Total
  <2> DEFINE all == IF T = {} THEN 0 ELSE f[Choice(T)] + Total(f, T \ {Choice(T)})
             g == [s \in SUBSET T |-> IF s = T THEN all ELSE Total(f, s)]
  <2>4. ASSUME NEW s \in SUBSET T
        PROVE  g[s] = IF s = {} THEN 0 ELSE f[Choice(s)] + g[s \ {Choice(s)}]
    <3>1. s # {} => Choice(s) \in s
      BY ChoiceIn
    <3>2. s # {} => s \ {Choice(s)} \in SUBSET T /\ s \ {Choice(s)} # T
      BY <3>1
    <3>3. CASE s = {}
      BY <2>3, <3>3
    <3>4. CASE s # {}
      <4>1. g[s \ {Choice(s)}] = Total(f, s \ {Choice(s)})
        BY <3>2, <3>4
      <4>2. g[s] = f[Choice(s)] + Total(f, s \ {Choice(s)})
        BY <2>2, <3>4
      <4> QED BY <3>4, <4>1, <4>2
    <3> QED BY <3>3, <3>4
  <2>5. Sums(f, T, g)
    <3>1. \E k : k = g
      OBVIOUS
    <3>2. g = [s \in SUBSET T |-> g[s]]
      OBVIOUS
    <3>3. [s \in SUBSET T |-> g[s]] = [s \in SUBSET T |-> IF s = {} THEN 0 ELSE f[Choice(s)] + g[s \ {Choice(s)}]]
      <4> HIDE DEF g
      <4> QED BY <2>4
    <3> HIDE DEF g
    <3> QED BY <3>2, <3>3 DEF Sums
  <2> QED BY <2>5
<1>2. S \in Q
  <2> HIDE DEF Q
  <2> QED BY <1>1, SubsetInduction
<1> QED BY <1>2

LEMMA TotalEmpty == ASSUME NEW f PROVE Total(f, {}) = 0
<1>1. PICK g : g = SumsOf(f, {})
  OBVIOUS
<1>2. Sums(f, {}, g)
  BY <1>1, SumsExist, SumsOfIs, FS_EmptySet
<1>3. g[{}] = 0
  BY <1>2, SumsAt
<1> QED BY <1>1, <1>3 DEF Total

LEMMA TotalChoice ==
  ASSUME NEW f, NEW S, IsFiniteSet(S), S # {}
  PROVE  Total(f, S) = f[Choice(S)] + Total(f, S \ {Choice(S)})
<1>1. PICK W : W = S \ {Choice(S)} /\ W \subseteq S
  OBVIOUS
<1>2. PICK g, h : /\ g = SumsOf(f, S)
                  /\ h = SumsOf(f, W)
  OBVIOUS
<1>3. IsFiniteSet(W)
  BY <1>1, FS_Subset
<1>4. Sums(f, S, g) /\ Sums(f, W, h)
  BY <1>2, <1>3, SumsExist, SumsOfIs
<1>5. g[W] = h[W]
  BY <1>1, <1>3, <1>4, SumsAgree
<1>6. g[S] = f[Choice(S)] + g[W]
  BY <1>1, <1>4, SumsAt
<1> QED BY <1>1, <1>2, <1>5, <1>6 DEF Total

\* Only the values at the summed arguments count.
LEMMA TotalAgree ==
  ASSUME NEW f, NEW h, NEW S, IsFiniteSet(S), \A x \in S : f[x] = h[x]
  PROVE  Total(f, S) = Total(h, S)
<1>1. PICK g, k : /\ g = SumsOf(f, S)
                  /\ k = SumsOf(h, S)
  OBVIOUS
<1>2. Sums(f, S, g) /\ Sums(h, S, k)
  BY <1>1, SumsExist, SumsOfIs
<1>3. g[S] = k[S]
  BY <1>2, SumsAgree
<1> QED BY <1>1, <1>3 DEF Total

\* A sum of integers is one.
LEMMA TotalInt ==
  ASSUME NEW f, NEW S, IsFiniteSet(S), \A x \in S : f[x] \in Int
  PROVE  Total(f, S) \in Int
<1> DEFINE Q == {T \in SUBSET S : Total(f, T) \in Int}
<1>1. ASSUME NEW T \in SUBSET S, \A U \in SUBSET T : U # T => U \in Q
      PROVE  T \in Q
  <2>1. CASE T = {}
    BY <2>1, TotalEmpty
  <2>2. CASE T # {}
    <3>1. Choice(T) \in T
      BY <2>2, ChoiceIn
    <3>2. Total(f, T \ {Choice(T)}) \in Int
      BY <1>1, <3>1
    <3>3. IsFiniteSet(T)
      BY FS_Subset
    <3>4. Total(f, T) = f[Choice(T)] + Total(f, T \ {Choice(T)})
      BY <2>2, <3>3, TotalChoice
    <3> QED BY <3>1, <3>2, <3>4
  <2> QED BY <2>1, <2>2
<1>2. S \in Q
  <2> HIDE DEF Q
  <2> QED BY <1>1, SubsetInduction
<1> QED BY <1>2

\* Any argument may be taken out first.
LEMMA TotalRemove ==
  ASSUME NEW f, NEW S, IsFiniteSet(S), \A x \in S : f[x] \in Int, NEW y \in S
  PROVE  Total(f, S) = f[y] + Total(f, S \ {y})
<1> DEFINE Q == {T \in SUBSET S : \A z \in T : Total(f, T) = f[z] + Total(f, T \ {z})}
<1>1. ASSUME NEW T \in SUBSET S, \A U \in SUBSET T : U # T => U \in Q
      PROVE  T \in Q
  <2> SUFFICES ASSUME NEW z \in T PROVE Total(f, T) = f[z] + Total(f, T \ {z})
    OBVIOUS
  <2>1. PICK c : c = Choice(T) /\ c \in T
    BY ChoiceIn
  <2>2. \A U \in SUBSET S : IsFiniteSet(U) /\ Total(f, U) \in Int
    BY FS_Subset, TotalInt
  <2>3. Total(f, T) = f[c] + Total(f, T \ {c})
    BY <2>1, <2>2, TotalChoice
  <2>4. CASE z = c
    BY <2>3, <2>4
  <2>5. CASE z # c
    <3>1. PICK U, V, W : U = T \ {c} /\ V = T \ {z} /\ W = T \ {c, z}
      OBVIOUS
    <3>2. U \in Q /\ V \in Q
      BY <1>1, <2>1, <3>1
    <3>3. U \ {z} = W /\ V \ {c} = W /\ z \in U /\ c \in V
      BY <2>1, <2>5, <3>1
    <3>4. Total(f, U) = f[z] + Total(f, W) /\ Total(f, V) = f[c] + Total(f, W)
      BY <3>2, <3>3
    <3>5. f[z] \in Int /\ f[c] \in Int /\ Total(f, W) \in Int
      BY <2>1, <2>2, <3>1
    <3> QED BY <2>3, <3>1, <3>4, <3>5
  <2> QED BY <2>4, <2>5
<1>2. S \in Q
  <2> HIDE DEF Q
  <2> QED BY <1>1, SubsetInduction
<1> QED BY <1>2

\* One more argument.
LEMMA TotalAdd ==
  ASSUME NEW f, NEW S, IsFiniteSet(S), NEW y, y \notin S, \A x \in S \cup {y} : f[x] \in Int
  PROVE  Total(f, S \cup {y}) = f[y] + Total(f, S)
<1>1. IsFiniteSet(S \cup {y})
  BY FS_AddElement
<1>2. (S \cup {y}) \ {y} = S
  OBVIOUS
<1> QED BY <1>1, <1>2, TotalRemove

\* MapThenSumSet is such a sum.
LEMMA SumIsTotal ==
  ASSUME NEW op(_), NEW S
  PROVE  MapThenSumSet(op, S) = Total([x \in S |-> op(x)], S)
  BY ZenonT(60) DEF MapThenSumSet, MapThenFoldSet, Sums, SumsOf, Total, Choice

-----------------------------------------------------------------------------
(* Types, and the extremes the rules judge by *)

ClosesFor(o) == {c \in Stream : c.type = "close" /\ c.order = o}
OpenOrders(s) == {o \in Orders : s.positions[o] # None}

Typed(s) ==
  /\ Shaped(s)
  /\ s.balance \in Int /\ s.hwm \in Int
  /\ s.day.start_equity \in Int /\ s.day.worst_equity \in Int
  /\ s.day.traded \in BOOLEAN /\ s.day.daily_breached \in BOOLEAN
  /\ s.day_counter \in Nat
  /\ s.positions \in [Orders -> Positions \cup {None}]
  /\ s.last_px \in [Symbols -> Int \cup {None}]
  /\ s.overall_breached \in BOOLEAN /\ s.target_reached \in BOOLEAN
  /\ \A o \in Orders : s.deferred_closes[o] \in Seq(ClosesFor(o))
  /\ s.seq_applied \in Nat
  /\ IsFiniteSet(OpenOrders(s))

\* The equity is the balance and the sum of what the open positions gain.
LEMMA EquityIsTotal ==
  ASSUME NEW s
  PROVE  EquityOf(s) = s.balance + Total([o \in OpenOrders(s) |-> Unrealized(s.positions[o], s.last_px)],
                                         OpenOrders(s))
BY ZenonT(60) DEF EquityOf, Equity, MapThenSumSet, MapThenFoldSet, Sums, SumsOf, Total, Choice, OpenOrders

LEMMA PnlInt ==
  ASSUME NEW pos \in Positions, NEW px \in Int
  PROVE  Pnl(pos, px) \in Int
<1>1. pos.entry_px \in Int /\ pos.volume \in Int
  BY DEF Positions
<1>2. px - pos.entry_px \in Int /\ pos.entry_px - px \in Int
  BY <1>1
<1>3. \A d \in Int : d * pos.volume \in Int
  BY <1>1
<1> QED BY <1>2, <1>3 DEF Pnl

LEMMA EquityInt == ASSUME NEW s, Typed(s) PROVE EquityOf(s) \in Int
<1>1. \A o \in OpenOrders(s) : Unrealized(s.positions[o], s.last_px) \in Int
  <2> SUFFICES ASSUME NEW o \in OpenOrders(s) PROVE Unrealized(s.positions[o], s.last_px) \in Int
    OBVIOUS
  <2>1. s.positions[o] \in Positions
    BY DEF OpenOrders, Typed
  <2>2. s.positions[o].symbol \in Symbols
    BY <2>1 DEF Positions
  <2>3. s.last_px[s.positions[o].symbol] \in Int \cup {None}
    BY <2>2 DEF Typed
  <2> QED BY <2>1, <2>3, PnlInt DEF Unrealized
<1>2. PICK f : f = [o \in OpenOrders(s) |-> Unrealized(s.positions[o], s.last_px)]
  OBVIOUS
<1>3. \A o \in OpenOrders(s) : f[o] \in Int
  BY <1>1, <1>2
<1>4. Total(f, OpenOrders(s)) \in Int
  BY <1>3, TotalInt DEF Typed
<1>5. EquityOf(s) = s.balance + Total(f, OpenOrders(s))
  BY <1>2, EquityIsTotal
<1> QED BY <1>4, <1>5 DEF Typed

\* Of a finite set of numbers one is the least.
LEMMA LeastExists ==
  ASSUME NEW S \in SUBSET Nat, IsFiniteSet(S), S # {}
  PROVE  \E m \in S : \A x \in S : m <= x
<1> DEFINE Q == {T \in SUBSET S : T # {} => \E m \in T : \A x \in T : m <= x}
<1>1. ASSUME NEW T \in SUBSET S, \A U \in SUBSET T : U # T => U \in Q
      PROVE  T \in Q
  <2> SUFFICES ASSUME NEW y \in T PROVE \E m \in T : \A x \in T : m <= x
    OBVIOUS
  <2>1. T \ {y} \in Q
    BY <1>1
  <2>2. CASE T \ {y} = {}
    <3>1. \A x \in T : x = y
      BY <2>2
    <3> QED BY <3>1
  <2>3. CASE T \ {y} # {}
    <3>1. PICK m \in T \ {y} : \A x \in T \ {y} : m <= x
      BY <2>1, <2>3
    <3>2. m \in Nat /\ y \in Nat
      OBVIOUS
    <3>3. CASE m <= y
      BY <3>1, <3>3
    <3>4. CASE y <= m
      BY <3>1, <3>4
    <3> QED BY <3>2, <3>3, <3>4
  <2> QED BY <2>2, <2>3
<1>2. S \in Q
  <2> HIDE DEF Q
  <2> QED BY <1>1, SubsetInduction
<1> QED BY <1>2

\* The deferred close a fill settles is one of its order and parsed.
LEMMA DrainerIs ==
  ASSUME NEW o \in Orders, NEW q \in Seq(ClosesFor(o)), Drains(q)
  PROVE  /\ Drainer(q) \in ClosesFor(o) /\ Drainer(q).px # Bad
         /\ \E i \in DOMAIN q : i \in Parsed(q) /\ Drainer(q) = q[i]
<1>1. DOMAIN q = 1..Len(q) /\ Len(q) \in Nat /\ \A i \in DOMAIN q : q[i] \in ClosesFor(o)
  BY LenProperties
<1>2. Parsed(q) \in SUBSET Nat /\ IsFiniteSet(Parsed(q)) /\ Parsed(q) # {}
  <2>1. Parsed(q) \subseteq 1..Len(q)
    BY <1>1 DEF Parsed
  <2>2. IsFiniteSet(1..Len(q))
    BY <1>1, FS_Interval
  <2> QED BY <1>1, <2>1, <2>2, FS_Subset DEF Drains
<1>3. Min(Parsed(q)) \in Parsed(q)
  BY <1>2, LeastExists DEF Min
<1> QED BY <1>1, <1>3 DEF Drainer, Parsed

\* The high-water mark never falls, and covers the equity where it trails.
LEMMA TrailedHwmCovers ==
  ASSUME NEW s, Typed(s)
  PROVE  /\ TrailedHwm(s) \in Int /\ TrailedHwm(s) >= s.hwm
         /\ pack.trailing => TrailedHwm(s) >= EquityOf(s)
<1>1. EquityOf(s) \in Int /\ s.hwm \in Int
  BY EquityInt DEF Typed
<1> QED BY <1>1 DEF TrailedHwm

\* An eod pack's low of the day covers the equity.
WorstCovers(s) == ~pack.daily_breach_intraday => s.day.worst_equity <= EquityOf(s)

\* The rest of the record, where only flags of the day and the account move.
LEMMA SameFieldsTyped ==
  ASSUME NEW s, NEW t, Typed(s), Shaped(t), SameBook(s, t), t.hwm = s.hwm,
         t.day_counter = s.day_counter,
         t.day.start_equity \in Int, t.day.worst_equity \in Int,
         t.day.traded \in BOOLEAN, t.day.daily_breached \in BOOLEAN,
         t.overall_breached \in BOOLEAN, t.target_reached \in BOOLEAN,
         t.seq_applied \in Nat
  PROVE  Typed(t)
BY DEF Typed, SameBook, OpenOrders

LEMMA CheckRulesTyped ==
  ASSUME NEW s, Typed(s)
  PROVE  /\ Typed(CheckRules(s)) /\ WorstCovers(CheckRules(s))
         /\ CheckRules(s).hwm = s.hwm
         /\ CheckRules(s).day.start_equity = s.day.start_equity
         /\ CheckRules(s).day.date = s.day.date
<1> DEFINE t == CheckRules(s)
<1>1. Shaped(s) /\ EquityOf(s) \in Int
  BY EquityInt DEF Typed
<1>2. /\ Shaped(t) /\ SameBook(s, t)
      /\ t.day.start_equity = s.day.start_equity
      /\ t.day.date = s.day.date
      /\ t.day.daily_breached = (s.day.daily_breached \/ DailyHit(s))
  BY <1>1, CheckRulesKeeps
<1>3. /\ t.hwm = s.hwm /\ t.day_counter = s.day_counter /\ t.seq_applied = s.seq_applied
      /\ t.overall_breached = (s.overall_breached \/ OverallHit(s))
      /\ t.target_reached = (s.target_reached \/ TargetHit(s))
      /\ t.day.worst_equity = WorstEquity(s)
      /\ t.day.traded = s.day.traded
  BY <1>1 DEF CheckRules, Shaped, Fields, DayFields
<1> HIDE DEF t
<1>4. /\ WorstEquity(s) \in Int
      /\ ~pack.daily_breach_intraday => WorstEquity(s) <= EquityOf(s)
  BY <1>1 DEF WorstEquity, Typed
<1>5. t.day.daily_breached \in BOOLEAN /\ t.overall_breached \in BOOLEAN /\ t.target_reached \in BOOLEAN
  BY <1>2, <1>3
<1>6. Typed(t)
  <2>1. t.hwm = s.hwm /\ t.day_counter = s.day_counter /\ t.seq_applied \in Nat
    BY <1>3 DEF Typed
  <2>2. t.day.start_equity \in Int /\ t.day.worst_equity \in Int /\ t.day.traded \in BOOLEAN
    BY <1>2, <1>3, <1>4 DEF Typed
  <2> QED BY <1>2, <1>5, <2>1, <2>2, SameFieldsTyped
<1>7. EquityOf(t) = EquityOf(s)
  BY <1>2 DEF SameBook, EquityOf
<1>8. WorstCovers(t)
  BY <1>3, <1>4, <1>7 DEF WorstCovers
<1>9. Typed(t) /\ WorstCovers(t) /\ t.hwm = s.hwm /\ t.day.start_equity = s.day.start_equity
      /\ t.day.date = s.day.date
  BY <1>2, <1>3, <1>6, <1>8
<1> QED BY <1>9 DEF t

LEMMA BookedTyped ==
  ASSUME NEW s, Typed(s), NEW e \in Stream
  PROVE  /\ Typed(Booked(s, e)) /\ Booked(s, e).hwm = s.hwm /\ Booked(s, e).day = s.day
         /\ WorstCovers(s) => WorstCovers(Booked(s, e))
<1>1. /\ Shaped(Booked(s, e)) /\ SameBook(s, Booked(s, e)) /\ Booked(s, e).day = s.day
  BY BookedKeeps DEF Typed
<1>2. /\ Booked(s, e).hwm = s.hwm /\ Booked(s, e).day_counter = s.day_counter
      /\ Booked(s, e).overall_breached = s.overall_breached
      /\ Booked(s, e).target_reached = s.target_reached
      /\ Booked(s, e).seq_applied \in Nat
  BY EngineAssumption DEF Booked, Typed, Shaped, Fields
<1>3. Typed(Booked(s, e))
  BY <1>1, <1>2, SameFieldsTyped DEF Typed
<1>4. EquityOf(Booked(s, e)) = EquityOf(s)
  BY <1>1 DEF SameBook, EquityOf
<1> QED BY <1>1, <1>2, <1>3, <1>4 DEF WorstCovers

LEMMA ArrivedTyped ==
  ASSUME Typed(state), NEW e
  PROVE  /\ Typed(Arrived(e)) /\ Arrived(e).hwm = state.hwm /\ Arrived(e).day = state.day
         /\ WorstCovers(state) => WorstCovers(Arrived(e))
<1>1. /\ Shaped(Arrived(e)) /\ SameBook(state, Arrived(e)) /\ Arrived(e).day = state.day
  BY ArrivedKeeps DEF Typed
<1>2. /\ Arrived(e).hwm = state.hwm /\ Arrived(e).day_counter = state.day_counter
      /\ Arrived(e).overall_breached = state.overall_breached
      /\ Arrived(e).target_reached = state.target_reached
      /\ Arrived(e).seq_applied = state.seq_applied
  BY DEF Arrived, Typed, Shaped, Fields
<1>3. Typed(Arrived(e))
  BY <1>1, <1>2, SameFieldsTyped DEF Typed
<1>4. EquityOf(Arrived(e)) = EquityOf(state)
  BY <1>1 DEF SameBook, EquityOf
<1> QED BY <1>1, <1>2, <1>3, <1>4 DEF WorstCovers

LEMMA OrZeroInt == ASSUME NEW a \in Int \cup {Bad} PROVE OrZero(a) \in Int
  BY EngineAssumption DEF OrZero

\* The record a close is settled to, before its high-water mark.
Booking(s, c) ==
  [s EXCEPT !.balance = @ + Pnl(s.positions[c.order], c.px) + OrZero(c.fee),
            !.positions[c.order] = None,
            !.last_px[c.symbol] = c.px,
            !.day.traded = TRUE]

LEMMA SettledTyped ==
  ASSUME NEW s, Typed(s), NEW o \in Orders, NEW c \in ClosesFor(o), c.px # Bad, s.positions[o] # None
  PROVE  /\ Typed(Settled(s, c))
         /\ Settled(s, c).balance = s.balance + Pnl(s.positions[o], c.px) + OrZero(c.fee)
         /\ Settled(s, c).positions = [s.positions EXCEPT ![o] = None]
         /\ Settled(s, c).deferred_closes = s.deferred_closes
         /\ Settled(s, c).hwm >= s.hwm
         /\ Settled(s, c).day.start_equity = s.day.start_equity
         /\ Settled(s, c).day.date = s.day.date
<1>1. /\ c \in Stream /\ c.order = o /\ c.px \in Int /\ c.symbol \in Symbols
      /\ OrZero(c.fee) \in Int
  BY EngineAssumption, OrZeroInt DEF ClosesFor
<1>2. s.positions[o] \in Positions
  BY DEF Typed
<1>3. Pnl(s.positions[o], c.px) \in Int
  BY <1>1, <1>2, PnlInt
<1> DEFINE t == Booking(s, c)
<1>4. /\ Shaped(t)
      /\ t.balance = s.balance + Pnl(s.positions[o], c.px) + OrZero(c.fee)
      /\ t.positions = [s.positions EXCEPT ![o] = None]
      /\ t.last_px = [s.last_px EXCEPT ![c.symbol] = c.px]
      /\ t.deferred_closes = s.deferred_closes /\ t.hwm = s.hwm
      /\ t.day = [s.day EXCEPT !.traded = TRUE]
      /\ t.day_counter = s.day_counter /\ t.seq_applied = s.seq_applied
      /\ t.overall_breached = s.overall_breached /\ t.target_reached = s.target_reached
  BY <1>1 DEF Booking, Typed, Shaped, Fields, DayFields
<1>5. /\ t.day.start_equity = s.day.start_equity /\ t.day.worst_equity = s.day.worst_equity
      /\ t.day.date = s.day.date
      /\ t.day.traded \in BOOLEAN /\ t.day.daily_breached = s.day.daily_breached
  BY <1>4 DEF Typed, Shaped, DayFields
<1>6. Settled(s, c) = [t EXCEPT !.hwm = TrailedHwm(t)]
  BY DEF Settled, Booking
<1> HIDE DEF t
<1>7. OpenOrders(t) = OpenOrders(s) \ {o}
  BY <1>4 DEF OpenOrders, Typed
<1>8. Typed(t)
  <2>1. t.balance \in Int
    BY <1>1, <1>3, <1>4 DEF Typed
  <2>2. t.positions \in [Orders -> Positions \cup {None}]
    BY <1>4 DEF Typed
  <2>3. t.last_px \in [Symbols -> Int \cup {None}]
    BY <1>1, <1>4 DEF Typed
  <2>4. IsFiniteSet(OpenOrders(t))
    <3>1. IsFiniteSet(OpenOrders(s))
      BY DEF Typed
    <3>2. OpenOrders(t) \in SUBSET OpenOrders(s)
      BY <1>7
    <3> QED BY <3>1, <3>2, FS_Subset
  <2> QED BY <1>4, <1>5, <2>1, <2>2, <2>3, <2>4 DEF Typed
<1>9. TrailedHwm(t) \in Int /\ TrailedHwm(t) >= s.hwm
  BY <1>4, <1>8, TrailedHwmCovers
<1>10. PICK h : h = TrailedHwm(t)
  OBVIOUS
<1>11. PICK u : u = [t EXCEPT !.hwm = h]
  OBVIOUS
<1>12. /\ Shaped(u) /\ u.hwm = h /\ u.balance = t.balance /\ u.positions = t.positions
       /\ u.last_px = t.last_px /\ u.deferred_closes = t.deferred_closes /\ u.day = t.day
       /\ u.day_counter = t.day_counter /\ u.seq_applied = t.seq_applied
       /\ u.overall_breached = t.overall_breached /\ u.target_reached = t.target_reached
  BY <1>4, <1>11 DEF Shaped, Fields
<1>13. Typed(u)
  BY <1>8, <1>9, <1>10, <1>12 DEF Typed, OpenOrders
<1>14. Settled(s, c) = u
  BY <1>6, <1>10, <1>11
<1> QED BY <1>4, <1>5, <1>9, <1>10, <1>12, <1>13, <1>14

\* The account a fill leaves after its deferred closes.
LEMMA DrainedTyped ==
  ASSUME NEW s, Typed(s), NEW o \in Orders, s.positions[o] # None
  PROVE  /\ Typed(Drained(s, o)) /\ Drained(s, o).hwm >= s.hwm
         /\ Drained(s, o).day.start_equity = s.day.start_equity
         /\ Drained(s, o).day.date = s.day.date
<1>1. PICK q : q = s.deferred_closes[o] /\ q \in Seq(ClosesFor(o))
  BY DEF Typed
<1>2. PICK t : t = [s EXCEPT !.deferred_closes[o] = <<>>]
  OBVIOUS
<1>3. /\ Shaped(t) /\ t.positions = s.positions /\ t.last_px = s.last_px /\ t.hwm = s.hwm
      /\ t.balance = s.balance /\ t.day = s.day /\ t.day_counter = s.day_counter
      /\ t.deferred_closes = [s.deferred_closes EXCEPT ![o] = <<>>]
      /\ t.overall_breached = s.overall_breached /\ t.target_reached = s.target_reached
      /\ t.seq_applied = s.seq_applied
  BY <1>2 DEF Typed, Shaped, Fields
<1>4. Typed(t)
  <2>1. \A p \in Orders : t.deferred_closes[p] \in Seq(ClosesFor(p))
    <3>1. \A p \in Orders : p = o => t.deferred_closes[p] \in Seq(ClosesFor(p))
      BY <1>3, EmptySeq DEF Typed, Shaped
    <3>2. \A p \in Orders : p # o => t.deferred_closes[p] = s.deferred_closes[p]
      BY <1>3 DEF Typed, Shaped
    <3> QED BY <3>1, <3>2 DEF Typed
  <2> QED BY <1>3, <2>1 DEF Typed, OpenOrders
<1>5. CASE Drains(q)
  <2>1. Drained(s, o) = CheckRules(Settled(t, Drainer(q)))
    BY <1>1, <1>2, <1>5 DEF Drained
  <2>2. PICK c \in ClosesFor(o) : c = Drainer(q) /\ c.px # Bad
    BY <1>1, <1>5, DrainerIs
  <2>3. PICK u : u = Settled(t, c)
    OBVIOUS
  <2>4. Typed(u) /\ u.hwm >= t.hwm /\ u.day.start_equity = t.day.start_equity /\ u.day.date = t.day.date
    <3>1. t.positions[o] # None
      BY <1>3
    <3>2. /\ Typed(Settled(t, c)) /\ Settled(t, c).hwm >= t.hwm
          /\ Settled(t, c).day.start_equity = t.day.start_equity
          /\ Settled(t, c).day.date = t.day.date
      BY <1>4, <2>2, <3>1, SettledTyped
    <3> QED BY <2>3, <3>2
  <2>5. Drained(s, o) = CheckRules(u)
    BY <2>1, <2>2, <2>3
  <2> QED BY <1>3, <2>4, <2>5, CheckRulesTyped
<1>6. CASE ~Drains(q)
  <2>1. Drained(s, o) = t
    BY <1>1, <1>2, <1>6 DEF Drained
  <2>2. PICK h \in Int : h = s.hwm
    BY DEF Typed
  <2>3. t.hwm >= s.hwm
    BY <1>3, <2>2
  <2> QED BY <1>3, <1>4, <2>1, <2>3
<1> QED BY <1>5, <1>6

\* A fill opens its order.
LEMMA OpenedTyped ==
  ASSUME NEW s, Typed(s), NEW e \in Stream, e.type = "fill", e.px # Bad
  PROVE  /\ Typed(Opened(s, e)) /\ Opened(s, e).hwm = s.hwm /\ Opened(s, e).day = s.day
         /\ Opened(s, e).balance = s.balance + OrZero(e.comm)
         /\ Opened(s, e).deferred_closes = s.deferred_closes
         /\ Opened(s, e).positions =
              [s.positions EXCEPT ![e.order] = [symbol |-> e.symbol, side |-> e.side,
                 volume |-> e.volume, entry_px |-> e.px, opened_ts |-> e.ts]]
         /\ Opened(s, e).positions[e.order] # None
<1>1. /\ e.order \in Orders /\ e.symbol \in Symbols /\ e.px \in Int /\ e.ts \in Int
      /\ e.side \in {"buy", "sell"} /\ e.volume \in Int /\ OrZero(e.comm) \in Int
  BY EngineAssumption, OrZeroInt
<1>2. PICK p : p = [symbol |-> e.symbol, side |-> e.side, volume |-> e.volume, entry_px |-> e.px,
                    opened_ts |-> e.ts]
  OBVIOUS
<1>3. p \in Positions /\ p # None
  BY <1>1, <1>2, EngineAssumption DEF Positions
<1>4. PICK t : t = Opened(s, e)
  OBVIOUS
<1>5. t = [s EXCEPT !.positions[e.order] = p, !.last_px[e.symbol] = e.px,
                    !.balance = @ + OrZero(e.comm)]
  BY <1>2, <1>4 DEF Opened
<1>6. /\ Shaped(t) /\ t.positions = [s.positions EXCEPT ![e.order] = p]
      /\ t.last_px = [s.last_px EXCEPT ![e.symbol] = e.px]
      /\ t.balance = s.balance + OrZero(e.comm)
      /\ t.hwm = s.hwm /\ t.day = s.day /\ t.day_counter = s.day_counter
      /\ t.deferred_closes = s.deferred_closes
      /\ t.overall_breached = s.overall_breached /\ t.target_reached = s.target_reached
      /\ t.seq_applied = s.seq_applied
  BY <1>5 DEF Typed, Shaped, Fields
<1>7. IsFiniteSet(OpenOrders(t))
  <2>1. OpenOrders(t) = OpenOrders(s) \cup {e.order}
    BY <1>1, <1>3, <1>6 DEF OpenOrders, Typed
  <2>2. IsFiniteSet(OpenOrders(s))
    BY DEF Typed
  <2> QED BY <2>1, <2>2, FS_AddElement
<1>8. /\ t.balance \in Int
      /\ t.positions \in [Orders -> Positions \cup {None}]
      /\ t.last_px \in [Symbols -> Int \cup {None}]
      /\ t.positions[e.order] = p
  BY <1>1, <1>3, <1>6 DEF Typed
<1>9. Typed(t)
  BY <1>6, <1>7, <1>8 DEF Typed
<1> QED BY <1>2, <1>3, <1>4, <1>6, <1>8, <1>9

\* A trailing pack's mark covers the equity the day began with.
HwmCovers(s) == pack.trailing => s.day.start_equity <= s.hwm

\* A mark that has not fallen covers the same day.
LEMMA HwmStillCovers ==
  ASSUME NEW s, NEW t, Typed(s), Typed(t), HwmCovers(s), t.hwm >= s.hwm,
         t.day.start_equity = s.day.start_equity
  PROVE  HwmCovers(t)
BY DEF HwmCovers, Typed

\* The mark raised before the rules are checked.
LEMMA RaisedTyped ==
  ASSUME NEW s, Typed(s)
  PROVE  LET u == [s EXCEPT !.hwm = TrailedHwm(s)]
         IN  Typed(u) /\ u.hwm >= s.hwm /\ u.day = s.day /\ u.balance = s.balance
             /\ u.positions = s.positions /\ u.deferred_closes = s.deferred_closes
<1>1. TrailedHwm(s) \in Int /\ TrailedHwm(s) >= s.hwm
  BY TrailedHwmCovers
<1>2. PICK h : h = TrailedHwm(s)
  OBVIOUS
<1>3. PICK u : u = [s EXCEPT !.hwm = h]
  OBVIOUS
<1>4. /\ Shaped(u) /\ u.hwm = h /\ u.balance = s.balance /\ u.positions = s.positions
      /\ u.last_px = s.last_px /\ u.deferred_closes = s.deferred_closes /\ u.day = s.day
      /\ u.day_counter = s.day_counter /\ u.seq_applied = s.seq_applied
      /\ u.overall_breached = s.overall_breached /\ u.target_reached = s.target_reached
  BY <1>3 DEF Typed, Shaped, Fields
<1>5. Typed(u)
  BY <1>1, <1>2, <1>4 DEF Typed, OpenOrders
<1> QED BY <1>1, <1>2, <1>3, <1>4, <1>5

\* Types and extremes after an event that was applied.
Sound(s) == Typed(s) /\ WorstCovers(s) /\ HwmCovers(s)

LEMMA ApplySound ==
  ASSUME Sound(state), NEW e \in Stream, Apply(e)
  PROVE  Sound(state')
<1> USE DEF Sound
<1>0. Typed(Arrived(e)) /\ WorstCovers(Arrived(e)) /\ HwmCovers(Arrived(e))
  <2>1. /\ Typed(Arrived(e)) /\ WorstCovers(Arrived(e))
        /\ Arrived(e).hwm = state.hwm /\ Arrived(e).day = state.day
    BY ArrivedTyped
  <2> QED BY <2>1 DEF HwmCovers
<1>a. ASSUME NEW s, Typed(s), HwmCovers(s)
      PROVE  Sound(Booked(CheckRules(s), e)) /\ (WorstCovers(s) => Sound(Booked(s, e)))
  <2>1. PICK c : c = CheckRules(s)
    OBVIOUS
  <2>2. Typed(c) /\ WorstCovers(c) /\ c.hwm = s.hwm /\ c.day.start_equity = s.day.start_equity
    BY <1>a, <2>1, CheckRulesTyped
  <2>3. HwmCovers(c)
    BY <1>a, <2>2 DEF HwmCovers
  <2>4. ASSUME NEW t, Typed(t), HwmCovers(t), WorstCovers(t) PROVE Sound(Booked(t, e))
    <3>1. /\ Typed(Booked(t, e)) /\ WorstCovers(Booked(t, e))
          /\ Booked(t, e).hwm = t.hwm /\ Booked(t, e).day = t.day
      BY <2>4, BookedTyped
    <3> QED BY <2>4, <3>1 DEF HwmCovers
  <2> QED BY <1>a, <2>1, <2>2, <2>3, <2>4
<1>1. CASE Duplicate(e)
  BY <1>1 DEF Duplicate, vars
<1>2. CASE Mark(e)
  <2>1. CASE e.px = Bad
    <3>1. state' = Booked(Arrived(e), e)
      BY <1>2, <2>1 DEF Mark, Return
    <3> QED BY <1>0, <1>a, <3>1
  <2>2. CASE e.px # Bad
    <3>1. PICK s : s = [Arrived(e) EXCEPT !.last_px[e.symbol] = e.px]
      OBVIOUS
    <3>2. e.px \in Int /\ e.symbol \in Symbols
      BY <1>2, <2>2, EngineAssumption DEF Mark
    <3>3. /\ Shaped(s) /\ s.hwm = Arrived(e).hwm /\ s.day = Arrived(e).day
          /\ s.balance = Arrived(e).balance /\ s.positions = Arrived(e).positions
          /\ s.last_px = [Arrived(e).last_px EXCEPT ![e.symbol] = e.px]
          /\ s.deferred_closes = Arrived(e).deferred_closes
          /\ s.day_counter = Arrived(e).day_counter /\ s.seq_applied = Arrived(e).seq_applied
          /\ s.overall_breached = Arrived(e).overall_breached
          /\ s.target_reached = Arrived(e).target_reached
      BY <1>0, <3>1 DEF Typed, Shaped, Fields
    <3>4. Typed(s)
      BY <1>0, <3>2, <3>3 DEF Typed, OpenOrders
    <3>5. HwmCovers(s)
      BY <1>0, <3>3 DEF HwmCovers
    <3>6. state' = Booked(CheckRules(s), e)
      BY <1>2, <2>2, <3>1 DEF Mark, Return
    <3> QED BY <1>a, <3>4, <3>5, <3>6
  <2> QED BY <2>1, <2>2
<1>3. CASE OrderFilled(e)
  <2>0. e.type = "fill" /\ e.order \in Orders
    BY <1>3, EngineAssumption DEF OrderFilled
  <2>1. CASE state' = Arrived(e)
    BY <1>0, <2>1
  <2>2. CASE e.px # Bad /\ state' = Booked(CheckRules(Drained(Opened(Arrived(e), e), e.order)), e)
    <3>1. PICK s : s = Opened(Arrived(e), e)
      OBVIOUS
    <3>2. Typed(s) /\ s.hwm = Arrived(e).hwm /\ s.day = Arrived(e).day /\ s.positions[e.order] # None
      BY <1>0, <2>0, <2>2, <3>1, OpenedTyped
    <3>3. PICK t : t = Drained(s, e.order)
      OBVIOUS
    <3>4. Typed(t) /\ t.hwm >= s.hwm /\ t.day.start_equity = s.day.start_equity
      BY <2>0, <3>2, <3>3, DrainedTyped
    <3>5. HwmCovers(s)
      BY <1>0, <3>2 DEF HwmCovers
    <3>6. HwmCovers(t)
      BY <3>2, <3>4, <3>5, HwmStillCovers
    <3> QED BY <1>a, <2>2, <3>1, <3>3, <3>4, <3>6
  <2> QED BY <1>3, <2>1, <2>2 DEF OrderFilled, Return
<1>4. CASE TradeClosed(e)
  <2>0. e.type = "close" /\ e.order \in Orders /\ e \in ClosesFor(e.order)
    BY <1>4, EngineAssumption DEF TradeClosed, ClosesFor
  <2>1. CASE state' = [Arrived(e) EXCEPT !.deferred_closes[e.order] = Append(@, e)]
    <3>1. PICK s : s = state'
      OBVIOUS
    <3>2. /\ Shaped(s) /\ SameBook([s EXCEPT !.deferred_closes = Arrived(e).deferred_closes], Arrived(e))
          /\ s.hwm = Arrived(e).hwm /\ s.day = Arrived(e).day
          /\ s.balance = Arrived(e).balance /\ s.positions = Arrived(e).positions
          /\ s.last_px = Arrived(e).last_px
          /\ s.day_counter = Arrived(e).day_counter /\ s.seq_applied = Arrived(e).seq_applied
          /\ s.overall_breached = Arrived(e).overall_breached
          /\ s.target_reached = Arrived(e).target_reached
          /\ s.deferred_closes = [Arrived(e).deferred_closes EXCEPT ![e.order] = Append(@, e)]
      BY <1>0, <2>1, <3>1 DEF Typed, Shaped, Fields, SameBook
    <3>3. \A o \in Orders : s.deferred_closes[o] \in Seq(ClosesFor(o))
      <4>1. s.deferred_closes[e.order] = Append(Arrived(e).deferred_closes[e.order], e)
        BY <1>0, <2>0, <3>2 DEF Typed, Shaped
      <4>2. s.deferred_closes[e.order] \in Seq(ClosesFor(e.order))
        BY <1>0, <2>0, <4>1, AppendProperties DEF Typed
      <4>3. \A o \in Orders : o # e.order => s.deferred_closes[o] = Arrived(e).deferred_closes[o]
        BY <1>0, <3>2 DEF Typed, Shaped
      <4> QED BY <1>0, <4>2, <4>3 DEF Typed
    <3>4. Typed(s)
      BY <1>0, <3>2, <3>3 DEF Typed, OpenOrders
    <3>5. EquityOf(s) = EquityOf(Arrived(e))
      BY <3>2 DEF EquityOf
    <3> QED BY <1>0, <3>1, <3>2, <3>4, <3>5 DEF WorstCovers, HwmCovers
  <2>2. CASE state' = Booked(Arrived(e), e)
    BY <1>0, <1>a, <2>2
  <2>3. CASE /\ state.positions[e.order] # None /\ e.px # Bad
             /\ state' = Booked(CheckRules(Settled(Arrived(e), e)), e)
    <3>1. Arrived(e).positions[e.order] # None
      BY <2>3, ArrivedKeeps DEF SameBook, Typed
    <3>2. PICK s : s = Settled(Arrived(e), e)
      OBVIOUS
    <3>3. /\ Typed(Settled(Arrived(e), e)) /\ Settled(Arrived(e), e).hwm >= Arrived(e).hwm
          /\ Settled(Arrived(e), e).day.start_equity = Arrived(e).day.start_equity
      BY <1>0, <2>0, <2>3, <3>1, SettledTyped
    <3>4. HwmCovers(s)
      BY <1>0, <3>2, <3>3, HwmStillCovers
    <3> QED BY <1>a, <2>3, <3>2, <3>3, <3>4
  <2> QED BY <1>4, <2>1, <2>2, <2>3 DEF TradeClosed, Return
<1>5. CASE BalanceAdjustment(e)
  <2>1. CASE e.amount = Bad
    <3>1. state' = Arrived(e)
      BY <1>5, <2>1 DEF BalanceAdjustment, Return
    <3> QED BY <1>0, <3>1
  <2>2. CASE e.amount # Bad
    <3>0. e.amount \in Int
      BY <1>5, <2>2, EngineAssumption DEF BalanceAdjustment
    <3>1. PICK t : t = [Arrived(e) EXCEPT !.balance = @ + e.amount]
      OBVIOUS
    <3>2. /\ Shaped(t) /\ t.hwm = Arrived(e).hwm /\ t.day = Arrived(e).day
          /\ t.balance = Arrived(e).balance + e.amount /\ t.positions = Arrived(e).positions
          /\ t.last_px = Arrived(e).last_px
          /\ t.deferred_closes = Arrived(e).deferred_closes
          /\ t.day_counter = Arrived(e).day_counter /\ t.seq_applied = Arrived(e).seq_applied
          /\ t.overall_breached = Arrived(e).overall_breached
          /\ t.target_reached = Arrived(e).target_reached
      BY <1>0, <3>1 DEF Typed, Shaped, Fields
    <3>3. Typed(t)
      BY <1>0, <3>0, <3>2 DEF Typed, OpenOrders
    <3>4. PICK s : s = [t EXCEPT !.hwm = TrailedHwm(t)]
      OBVIOUS
    <3>5. Typed(s) /\ s.hwm >= t.hwm /\ s.day = t.day
      BY <3>3, <3>4, RaisedTyped
    <3>6. HwmCovers(s)
      BY <1>0, <3>2, <3>5, HwmStillCovers
    <3>7. state' = Booked(CheckRules(s), e)
      BY <1>5, <2>2, <3>1, <3>4 DEF BalanceAdjustment, Return
    <3> QED BY <1>a, <3>5, <3>6, <3>7
  <2> QED BY <2>1, <2>2
<1>6. CASE AccountStateReport(e)
  <2>1. state' = Booked(Arrived(e), e)
    BY <1>6 DEF AccountStateReport, Return
  <2> QED BY <1>0, <1>a, <2>1
<1>7. CASE NewsWindow(e)
  <2>1. PICK s : s = [Arrived(e) EXCEPT !.news_windows =
               @ \cup {[symbol |-> e.symbol, tier |-> e.tier, start |-> e.start, end |-> e.end]}]
    OBVIOUS
  <2>2. /\ Shaped(s) /\ SameBook(Arrived(e), s) /\ s.hwm = Arrived(e).hwm /\ s.day = Arrived(e).day
        /\ s.day_counter = Arrived(e).day_counter /\ s.seq_applied = Arrived(e).seq_applied
        /\ s.overall_breached = Arrived(e).overall_breached
        /\ s.target_reached = Arrived(e).target_reached
    BY <1>0, <2>1 DEF Typed, Shaped, Fields, SameBook
  <2>3. Typed(s)
    BY <1>0, <2>2, SameFieldsTyped DEF Typed
  <2>4. EquityOf(s) = EquityOf(Arrived(e))
    BY <2>2 DEF SameBook, EquityOf
  <2>5. WorstCovers(s) /\ HwmCovers(s)
    BY <1>0, <2>2, <2>4 DEF WorstCovers, HwmCovers
  <2>6. state' = s \/ state' = Booked(s, e)
    BY <1>7, <2>1 DEF NewsWindow, Return
  <2> QED BY <1>a, <2>3, <2>5, <2>6
<1>8. CASE Rollover(e)
  <2>1. PICK h, q : h = TrailedHwm(state) /\ q = EquityOf(state)
    OBVIOUS
  <2>2. h \in Int /\ q \in Int /\ (pack.trailing => q <= h)
    BY <2>1, TrailedHwmCovers, EquityInt
  <2>3. PICK s : s = [Arrived(e) EXCEPT !.day_counter = IF state.day.traded THEN @ + 1 ELSE @,
                                        !.hwm = h,
                                        !.day = NewDay(e.date, q)]
    OBVIOUS
  <2>4. /\ Shaped(s) /\ s.hwm = h
        /\ s.day.start_equity = q /\ s.day.worst_equity = q
        /\ s.day.traded = FALSE /\ s.day.daily_breached = FALSE
        /\ SameBook(state, s)
        /\ s.deferred_closes = Arrived(e).deferred_closes
        /\ s.seq_applied = Arrived(e).seq_applied
        /\ s.overall_breached = Arrived(e).overall_breached
        /\ s.target_reached = Arrived(e).target_reached
        /\ s.day_counter \in Nat
    BY <1>0, <2>3, ArrivedKeeps DEF Typed, Shaped, Fields, DayFields, NewDay, SameBook
  <2>5. Typed(s)
    BY <1>0, <2>2, <2>4 DEF Typed, OpenOrders, SameBook
  <2>6. EquityOf(s) = q
    BY <2>1, <2>4 DEF SameBook, EquityOf
  <2>7. WorstCovers(s) /\ HwmCovers(s)
    BY <2>2, <2>4, <2>6 DEF WorstCovers, HwmCovers
  <2>8. state' = Booked(s, e)
    BY <1>8, <2>1, <2>3 DEF Rollover, Return
  <2> QED BY <1>a, <2>5, <2>7, <2>8
<1> QED BY <1>1, <1>2, <1>3, <1>4, <1>5, <1>6, <1>7, <1>8 DEF Apply

\* Nothing after the dedup check touches the seen keys.
LEMMA SeenKept ==
  ASSUME NEW s, Shaped(s), NEW e, NEW o \in Orders
  PROVE  /\ CheckRules(s).seen_dedup_keys = s.seen_dedup_keys
         /\ Booked(s, e).seen_dedup_keys = s.seen_dedup_keys
         /\ Settled(s, e).seen_dedup_keys = s.seen_dedup_keys
         /\ Opened(s, e).seen_dedup_keys = s.seen_dedup_keys /\ Shaped(Opened(s, e))
         /\ Drained(s, o).seen_dedup_keys = s.seen_dedup_keys
<1>1. ASSUME NEW t, Shaped(t)
      PROVE  /\ CheckRules(t).seen_dedup_keys = t.seen_dedup_keys
             /\ Booked(t, e).seen_dedup_keys = t.seen_dedup_keys
  BY <1>1 DEF CheckRules, Booked, Shaped, Fields
<1>2. ASSUME NEW t, Shaped(t), NEW c PROVE Settled(t, c).seen_dedup_keys = t.seen_dedup_keys
  <2>1. PICK u : u = Booking(t, c)
    OBVIOUS
  <2>2. Shaped(u) /\ u.seen_dedup_keys = t.seen_dedup_keys
    BY <1>2, <2>1 DEF Booking, Shaped, Fields, DayFields
  <2>3. Settled(t, c) = [u EXCEPT !.hwm = TrailedHwm(u)]
    BY <2>1 DEF Settled, Booking
  <2> QED BY <2>2, <2>3 DEF Shaped, Fields
<1>3. Opened(s, e).seen_dedup_keys = s.seen_dedup_keys /\ Shaped(Opened(s, e))
  BY DEF Opened, Shaped, Fields
<1>4. Drained(s, o).seen_dedup_keys = s.seen_dedup_keys
  <2>1. PICK t, q : t = [s EXCEPT !.deferred_closes[o] = <<>>] /\ q = s.deferred_closes[o]
    OBVIOUS
  <2>2. Shaped(t) /\ t.seen_dedup_keys = s.seen_dedup_keys
    BY <2>1 DEF Shaped, Fields
  <2>3. CASE Drains(q)
    <3>1. PICK u : u = Settled(t, Drainer(q))
      OBVIOUS
    <3>2. Shaped(u) /\ u.seen_dedup_keys = t.seen_dedup_keys
      BY <1>2, <2>2, <3>1, SettledKeeps
    <3>3. Drained(s, o) = CheckRules(u)
      BY <2>1, <2>3, <3>1 DEF Drained
    <3> QED BY <1>1, <2>2, <3>2, <3>3
  <2>4. CASE ~Drains(q)
    BY <2>1, <2>2, <2>4 DEF Drained
  <2> QED BY <2>3, <2>4
<1> QED BY <1>1, <1>2, <1>3, <1>4

\* An event is dropped, or applied and remembered by its key.
LEMMA AppliedAndSeen ==
  ASSUME Typed(state), NEW e \in Stream, Apply(e)
  PROVE  \/ UNCHANGED vars
         \/ /\ Fresh(e) /\ UNCHANGED pack
            /\ applied' = applied \cup {e}
            /\ state'.seen_dedup_keys = state.seen_dedup_keys \cup {DedupKey(e)}
<1>1. CASE Duplicate(e)
  BY <1>1 DEF Duplicate
<1>2. CASE ~Duplicate(e)
  <2>1. Fresh(e) /\ UNCHANGED pack /\ applied' = applied \cup {e}
    BY <1>2 DEF Apply, Mark, OrderFilled, TradeClosed, BalanceAdjustment, AccountStateReport,
                NewsWindow, Rollover, Return
  <2>2. PICK a : a = Arrived(e)
    OBVIOUS
  <2>3. Shaped(a) /\ a.seen_dedup_keys = state.seen_dedup_keys \cup {DedupKey(e)}
    BY <2>2, ArrivedKeeps DEF Typed, Arrived, Shaped, Fields
  <2>4. ASSUME NEW s, Shaped(s), s.seen_dedup_keys = a.seen_dedup_keys
        PROVE  /\ Booked(s, e).seen_dedup_keys = a.seen_dedup_keys
               /\ Booked(CheckRules(s), e).seen_dedup_keys = a.seen_dedup_keys
    <3>1. Shaped(CheckRules(s)) /\ CheckRules(s).seen_dedup_keys = s.seen_dedup_keys
      BY <2>4, CheckRulesKeeps DEF CheckRules, Shaped, Fields
    <3>2. \A t : Shaped(t) => Booked(t, e).seen_dedup_keys = t.seen_dedup_keys
      BY DEF Booked, Shaped, Fields
    <3> QED BY <2>4, <3>1, <3>2
  <2>5. CASE Mark(e)
    <3>1. PICK s : s = [a EXCEPT !.last_px[e.symbol] = e.px]
      OBVIOUS
    <3>2. Shaped(s) /\ s.seen_dedup_keys = a.seen_dedup_keys
      BY <2>3, <3>1 DEF Shaped, Fields
    <3>3. state' = Booked(a, e) \/ state' = Booked(CheckRules(s), e)
      BY <2>2, <2>5, <3>1 DEF Mark, Return
    <3> QED BY <2>1, <2>3, <2>4, <3>2, <3>3
  <2>6. CASE OrderFilled(e)
    <3>0. e.order \in Orders
      BY <2>6, EngineAssumption DEF OrderFilled
    <3>1. PICK s : s = Opened(a, e)
      OBVIOUS
    <3>2. Shaped(s) /\ s.seen_dedup_keys = a.seen_dedup_keys
      BY <2>3, <3>0, <3>1, SeenKept
    <3>3. PICK t : t = Drained(s, e.order)
      OBVIOUS
    <3>4. Shaped(t) /\ t.seen_dedup_keys = s.seen_dedup_keys
      BY <3>0, <3>2, <3>3, SeenKept, DrainedKeeps
    <3>5. state' = a \/ state' = Booked(CheckRules(t), e)
      BY <2>2, <2>6, <3>1, <3>3 DEF OrderFilled, Return
    <3> QED BY <2>1, <2>3, <2>4, <3>2, <3>4, <3>5
  <2>7. CASE TradeClosed(e)
    <3>0. e.order \in Orders
      BY <2>7, EngineAssumption DEF TradeClosed
    <3>1. PICK d, s : d = [a EXCEPT !.deferred_closes[e.order] = Append(@, e)] /\ s = Settled(a, e)
      OBVIOUS
    <3>2. d.seen_dedup_keys = a.seen_dedup_keys /\ Shaped(s) /\ s.seen_dedup_keys = a.seen_dedup_keys
      BY <2>3, <3>0, <3>1, SeenKept, SettledKeeps DEF Shaped, Fields
    <3>3. state' = d \/ state' = Booked(a, e) \/ state' = Booked(CheckRules(s), e)
      BY <2>2, <2>7, <3>1 DEF TradeClosed, Return
    <3> QED BY <2>1, <2>3, <2>4, <3>2, <3>3
  <2>8. CASE BalanceAdjustment(e)
    <3>1. PICK t, h : t = [a EXCEPT !.balance = @ + e.amount] /\ h = TrailedHwm(t)
      OBVIOUS
    <3>2. PICK s : s = [t EXCEPT !.hwm = h]
      OBVIOUS
    <3>3. Shaped(t) /\ t.seen_dedup_keys = a.seen_dedup_keys
      BY <2>3, <3>1 DEF Shaped, Fields
    <3>4. Shaped(s) /\ s.seen_dedup_keys = a.seen_dedup_keys
      BY <3>2, <3>3 DEF Shaped, Fields
    <3>5. state' = a \/ state' = Booked(CheckRules(s), e)
      BY <2>2, <2>8, <3>1, <3>2 DEF BalanceAdjustment, Return
    <3> QED BY <2>1, <2>3, <2>4, <3>4, <3>5
  <2>9. CASE AccountStateReport(e)
    <3>1. state' = Booked(a, e)
      BY <2>2, <2>9 DEF AccountStateReport, Return
    <3> QED BY <2>1, <2>3, <2>4, <3>1
  <2>10. CASE NewsWindow(e)
    <3>1. PICK s : s = [a EXCEPT !.news_windows =
                 @ \cup {[symbol |-> e.symbol, tier |-> e.tier, start |-> e.start, end |-> e.end]}]
      OBVIOUS
    <3>2. Shaped(s) /\ s.seen_dedup_keys = a.seen_dedup_keys
      BY <2>3, <3>1 DEF Shaped, Fields
    <3>3. state' = s \/ state' = Booked(s, e)
      BY <2>2, <2>10, <3>1 DEF NewsWindow, Return
    <3> QED BY <2>1, <2>3, <2>4, <3>2, <3>3
  <2>11. CASE Rollover(e)
    <3>1. PICK h, q : h = TrailedHwm(state) /\ q = EquityOf(state)
      OBVIOUS
    <3>2. PICK s : s = [a EXCEPT !.day_counter = IF state.day.traded THEN @ + 1 ELSE @,
                                 !.hwm = h, !.day = NewDay(e.date, q)]
      OBVIOUS
    <3>3. Shaped(s) /\ s.seen_dedup_keys = a.seen_dedup_keys
      BY <2>3, <3>2 DEF Shaped, Fields, DayFields, NewDay
    <3>4. state' = Booked(s, e)
      BY <2>2, <2>11, <3>1, <3>2 DEF Rollover, Return
    <3> QED BY <2>1, <2>3, <2>4, <3>3, <3>4
  <2> QED BY <1>2, <2>5, <2>6, <2>7, <2>8, <2>9, <2>10, <2>11 DEF Apply
<1> QED BY <1>1, <1>2

\* A new account is typed and its extremes are its start balance.
LEMMA NewAccountSound ==
  ASSUME Init
  PROVE  /\ Sound(state) /\ EquityOf(state) = state.balance
         /\ pack.start_balance \in Int
<1>1. PICK p \in Packs : pack = Compile(p)
  BY DEF Init
<1>2. pack.start_balance = p.start_balance /\ p.start_balance \in Int
  BY <1>1, EngineAssumption DEF Compile, RulePacks
<1>3. /\ state.balance = pack.start_balance /\ state.hwm = pack.start_balance
      /\ state.day = NewDay(InitialDay, pack.start_balance)
      /\ state.day_counter = 0
      /\ state.positions = [o \in Orders |-> None]
      /\ state.last_px = [y \in Symbols |-> None]
      /\ state.overall_breached = FALSE /\ state.target_reached = FALSE
      /\ state.deferred_closes = [o \in Orders |-> <<>>]
      /\ state.seq_applied = 0
  BY DEF Init, NewAccount
<1>4. Shaped(state)
  BY NewAccountShaped DEF Init
<1>5. /\ state.day.start_equity = pack.start_balance /\ state.day.worst_equity = pack.start_balance
      /\ state.day.traded = FALSE /\ state.day.daily_breached = FALSE
  BY <1>3 DEF NewDay
<1>6. OpenOrders(state) = {}
  BY <1>3 DEF OpenOrders
<1>7. Typed(state)
  <2>1. \A o \in Orders : state.deferred_closes[o] \in Seq(ClosesFor(o))
    BY <1>3, EmptySeq
  <2>2. IsFiniteSet(OpenOrders(state))
    BY <1>6, FS_EmptySet
  <2>3. /\ state.positions \in [Orders -> Positions \cup {None}]
        /\ state.last_px \in [Symbols -> Int \cup {None}]
    BY <1>3
  <2>4. /\ state.balance \in Int /\ state.hwm \in Int
        /\ state.day.start_equity \in Int /\ state.day.worst_equity \in Int
        /\ state.day_counter \in Nat /\ state.seq_applied \in Nat
    BY <1>2, <1>3, <1>5
  <2>5. /\ state.day.traded \in BOOLEAN /\ state.day.daily_breached \in BOOLEAN
        /\ state.overall_breached \in BOOLEAN /\ state.target_reached \in BOOLEAN
    BY <1>3, <1>5, Zenon
  <2> QED BY <1>4, <2>1, <2>2, <2>3, <2>4, <2>5 DEF Typed
<1>8. EquityOf(state) = state.balance
  <2>1. PICK f : f = [o \in OpenOrders(state) |-> Unrealized(state.positions[o], state.last_px)]
    OBVIOUS
  <2>2. Total(f, {}) = 0
    BY TotalEmpty
  <2>3. EquityOf(state) = state.balance + Total(f, OpenOrders(state))
    BY <2>1, EquityIsTotal
  <2>4. EquityOf(state) = state.balance + 0
    BY <1>6, <2>2, <2>3
  <2> QED BY <1>2, <1>3, <2>4
<1>9. WorstCovers(state) /\ HwmCovers(state)
  BY <1>2, <1>3, <1>5, <1>8 DEF WorstCovers, HwmCovers
<1> QED BY <1>2, <1>7, <1>8, <1>9 DEF Sound

LEMMA PackKept == ASSUME NEW e, Apply(e) PROVE pack' = pack
BY DEF Apply, Duplicate, vars, Mark, OrderFilled, TradeClosed, BalanceAdjustment,
       AccountStateReport, NewsWindow, Rollover, Return

LEMMA SoundStep == ASSUME Sound(state), [Next]_vars PROVE Sound(state)'
<1>1. CASE Next
  <2>1. PICK e \in Stream : Apply(e)
    BY <1>1 DEF Next
  <2>2. Sound(state') /\ pack' = pack
    BY <2>1, ApplySound, PackKept
  <2> QED BY <2>2 DEF Sound, Typed, Shaped, WorstCovers, HwmCovers, EquityOf, OpenOrders
<1>2. CASE UNCHANGED vars
  BY <1>2 DEF vars, Sound, Typed, Shaped, WorstCovers, HwmCovers, EquityOf, OpenOrders
<1> QED BY <1>1, <1>2

\* For every stream and pack, an eod pack's low of the day is never above the
\* equity and a trailing pack's high-water mark never below the equity the day
\* began with: whatever event moved them, apply leaves both extremes covering.
THEOREM ExtremesAreCovered == Spec => []ExtremesCover
<1>1. Init => Sound(state)
  BY NewAccountSound
<1>2. Sound(state) /\ [Next]_vars => Sound(state)'
  BY SoundStep
<1>3. Sound(state) => ExtremesCover
  BY DEF Sound, WorstCovers, HwmCovers, ExtremesCover, WorstCoversEquity, HwmCoversDayStart
<1> QED BY <1>1, <1>2, <1>3, PTL DEF Spec

-----------------------------------------------------------------------------
(* Verdicts: multiplicity, and the days a target takes *)

\* No rollover leads back into the account's first day.
FirstDayApart == \A e \in Stream : e.type = "rollover" => e.date # InitialDay

Days == {InitialDay} \cup {e.date : e \in {x \in Stream : x.type = "rollover"}}

VerdictKinds ==
  [rule : {"DailyMaxLoss", "MaxOverallLoss", "ProfitTarget", "NewsRule", "NewsPrePositioned", "Rollover"},
   status : {"Breach", "Flagged", "TargetReached", "Info"},
   day : Days]

OnceEach(vs) ==
  \A i, j \in DOMAIN vs :
    (/\ vs[i].rule = vs[j].rule
     /\ \/ vs[i].rule \in {"MaxOverallLoss", "ProfitTarget"}
        \/ vs[i].rule \in {"DailyMaxLoss", "Rollover"} /\ vs[i].day = vs[j].day)
    => i = j

\* The rollovers among the first n verdicts.
Rolls(vs, n) == {j \in 1..n : vs[j].rule = "Rollover"}

\* What the verdicts given so far say about the flags, the day counter and the
\* dates of an account.
Given(vs, date, daily, overall, target, counter, seen) ==
  /\ vs \in Seq(VerdictKinds) /\ date \in Days /\ counter \in Nat
  /\ \A i \in DOMAIN vs : vs[i].rule = "MaxOverallLoss" => overall
  /\ \A i \in DOMAIN vs : vs[i].rule = "ProfitTarget" => target
  /\ FirstDayApart =>
       /\ OnceEach(vs)
       /\ \A i \in DOMAIN vs : vs[i].rule = "DailyMaxLoss" /\ vs[i].day = date => daily
       /\ \A i \in DOMAIN vs : ~(vs[i].rule = "Rollover" /\ vs[i].day = date)
  /\ date = InitialDay \/ <<"day", date>> \in seen
  /\ \A i \in DOMAIN vs : vs[i].day = InitialDay \/ <<"day", vs[i].day>> \in seen
  /\ \A i \in DOMAIN vs : vs[i].rule = "ProfitTarget" =>
                            Cardinality(Rolls(vs, i)) >= pack.min_trading_days
  /\ counter <= Cardinality(Rolls(vs, Len(vs)))

GivenTo(vs, s) ==
  Given(vs, s.day.date, s.day.daily_breached, s.overall_breached, s.target_reached,
        s.day_counter, s.seen_dedup_keys)

LEMMA AppendedIs ==
  ASSUME NEW S, NEW vs \in Seq(S), NEW v \in S
  PROVE  /\ Append(vs, v) \in Seq(S) /\ Len(vs) \in Nat /\ Len(Append(vs, v)) = Len(vs) + 1
         /\ DOMAIN vs = 1..Len(vs) /\ DOMAIN Append(vs, v) = 1..(Len(vs) + 1)
         /\ \A i \in 1..Len(vs) : Append(vs, v)[i] = vs[i]
         /\ Append(vs, v)[Len(vs) + 1] = v
  BY AppendProperties, LenProperties

\* The rollovers up to a verdict stay, and a rollover appended is one more.
LEMMA RollsAppended ==
  ASSUME NEW vs \in Seq(VerdictKinds), NEW v \in VerdictKinds
  PROVE  /\ \A n \in 0..Len(vs) : /\ Rolls(Append(vs, v), n) = Rolls(vs, n)
                                  /\ Cardinality(Rolls(vs, n)) \in Nat
         /\ Cardinality(Rolls(Append(vs, v), Len(vs) + 1)) =
              Cardinality(Rolls(vs, Len(vs))) + (IF v.rule = "Rollover" THEN 1 ELSE 0)
<1>1. PICK l \in Nat : l = Len(vs)
  BY LenProperties
<1>2. PICK w : w = Append(vs, v)
  OBVIOUS
<1>3. (\A i \in 1..l : w[i] = vs[i]) /\ w[l + 1] = v
  BY <1>1, <1>2, AppendedIs
<1>4. \A n \in 0..l : Rolls(w, n) = Rolls(vs, n)
  BY <1>3 DEF Rolls
<1>5. \A n \in 0..l : IsFiniteSet(Rolls(vs, n)) /\ Cardinality(Rolls(vs, n)) \in Nat
  <2> SUFFICES ASSUME NEW n \in 0..l
               PROVE  IsFiniteSet(Rolls(vs, n)) /\ Cardinality(Rolls(vs, n)) \in Nat
    OBVIOUS
  <2>1. IsFiniteSet(1..n) /\ Rolls(vs, n) \in SUBSET (1..n)
    BY FS_Interval DEF Rolls
  <2> QED BY <2>1, FS_Subset, FS_CardinalityType
<1>6. Rolls(w, l + 1) = Rolls(vs, l) \cup (IF v.rule = "Rollover" THEN {l + 1} ELSE {})
  BY <1>3 DEF Rolls
<1>7. l + 1 \notin Rolls(vs, l)
  BY DEF Rolls
<1>8. Cardinality(Rolls(w, l + 1)) = Cardinality(Rolls(vs, l)) + (IF v.rule = "Rollover" THEN 1 ELSE 0)
  <2>1. CASE v.rule = "Rollover"
    <3>1. Rolls(w, l + 1) = Rolls(vs, l) \cup {l + 1}
      BY <1>6, <2>1
    <3> QED BY <1>5, <1>7, <2>1, <3>1, FS_AddElement
  <2>2. CASE v.rule # "Rollover"
    <3>1. Rolls(w, l + 1) = Rolls(vs, l)
      BY <1>6, <2>2
    <3> QED BY <1>5, <2>2, <3>1
  <2> QED BY <2>1, <2>2
<1> QED BY <1>1, <1>2, <1>4, <1>5, <1>8

\* Verdict v of the day that runs may be given, and leaves the second flags.
Allowed(v, date, daily, overall, target, counter, daily2, overall2, target2) ==
  /\ v \in VerdictKinds /\ v.day = date /\ v.rule # "Rollover"
  /\ daily => daily2
  /\ overall => overall2
  /\ target => target2
  /\ v.rule = "DailyMaxLoss" => ~daily /\ daily2
  /\ v.rule = "MaxOverallLoss" => ~overall /\ overall2
  /\ v.rule = "ProfitTarget" => ~target /\ target2 /\ counter >= pack.min_trading_days
  /\ pack.min_trading_days \in Nat

LEMMA GivenAppend ==
  ASSUME NEW vs, NEW date, NEW daily, NEW overall, NEW target, NEW counter, NEW seen, NEW v,
         NEW daily2, NEW overall2, NEW target2,
         Given(vs, date, daily, overall, target, counter, seen),
         Allowed(v, date, daily, overall, target, counter, daily2, overall2, target2)
  PROVE  Given(Append(vs, v), date, daily2, overall2, target2, counter, seen)
<1>a. /\ v \in VerdictKinds /\ v.day = date /\ v.rule # "Rollover"
      /\ daily => daily2
      /\ overall => overall2
      /\ target => target2
      /\ v.rule = "DailyMaxLoss" => ~daily /\ daily2
      /\ v.rule = "MaxOverallLoss" => ~overall /\ overall2
      /\ v.rule = "ProfitTarget" => ~target /\ target2 /\ counter >= pack.min_trading_days
      /\ pack.min_trading_days \in Nat
  BY DEF Allowed
<1>0. /\ vs \in Seq(VerdictKinds) /\ date \in Days /\ counter \in Nat
      /\ \A i \in DOMAIN vs : vs[i].rule = "MaxOverallLoss" => overall
      /\ \A i \in DOMAIN vs : vs[i].rule = "ProfitTarget" => target
      /\ date = InitialDay \/ <<"day", date>> \in seen
      /\ \A i \in DOMAIN vs : vs[i].day = InitialDay \/ <<"day", vs[i].day>> \in seen
      /\ \A i \in DOMAIN vs : vs[i].rule = "ProfitTarget" =>
                                Cardinality(Rolls(vs, i)) >= pack.min_trading_days
      /\ counter <= Cardinality(Rolls(vs, Len(vs)))
  BY DEF Given
<1>1. PICK l \in Nat : l = Len(vs)
  BY <1>0, LenProperties
<1>2. PICK w : w = Append(vs, v)
  OBVIOUS
<1>3. /\ w \in Seq(VerdictKinds) /\ Len(w) = l + 1 /\ DOMAIN vs = 1..l /\ DOMAIN w = 1..(l + 1)
      /\ \A i \in 1..l : w[i] = vs[i]
      /\ w[l + 1] = v
  BY <1>a, <1>0, <1>1, <1>2, AppendedIs
<1>4. /\ \A n \in 0..l : Rolls(w, n) = Rolls(vs, n) /\ Cardinality(Rolls(vs, n)) \in Nat
      /\ Cardinality(Rolls(w, l + 1)) = Cardinality(Rolls(vs, l))
  BY <1>a, <1>0, <1>1, <1>2, RollsAppended
<1>5. \A i \in DOMAIN w : i = l + 1 \/ i \in DOMAIN vs
  BY <1>3
<1>6. \A i \in DOMAIN w : w[i].rule = "MaxOverallLoss" => overall2
  BY <1>a, <1>0, <1>3, <1>5
<1>7. \A i \in DOMAIN w : w[i].rule = "ProfitTarget" => target2
  BY <1>a, <1>0, <1>3, <1>5
<1>8. ASSUME FirstDayApart
      PROVE  /\ OnceEach(w)
             /\ \A i \in DOMAIN w : w[i].rule = "DailyMaxLoss" /\ w[i].day = date => daily2
             /\ \A i \in DOMAIN w : ~(w[i].rule = "Rollover" /\ w[i].day = date)
  <2>1. /\ OnceEach(vs)
        /\ \A i \in DOMAIN vs : vs[i].rule = "DailyMaxLoss" /\ vs[i].day = date => daily
        /\ \A i \in DOMAIN vs : ~(vs[i].rule = "Rollover" /\ vs[i].day = date)
    BY <1>8 DEF Given
  <2>2. ASSUME NEW i \in DOMAIN vs, v.rule = vs[i].rule
        PROVE  /\ v.rule \notin {"MaxOverallLoss", "ProfitTarget", "Rollover"}
               /\ ~(v.rule = "DailyMaxLoss" /\ v.day = vs[i].day)
    BY <1>a, <1>0, <2>1, <2>2
  <2>3. OnceEach(w)
    <3> SUFFICES ASSUME NEW i \in DOMAIN w, NEW j \in DOMAIN w,
                        w[i].rule = w[j].rule,
                        \/ w[i].rule \in {"MaxOverallLoss", "ProfitTarget"}
                        \/ w[i].rule \in {"DailyMaxLoss", "Rollover"} /\ w[i].day = w[j].day
                 PROVE  i = j
      BY DEF OnceEach
    <3>1. CASE i \in DOMAIN vs /\ j \in DOMAIN vs
      BY <1>3, <2>1, <3>1 DEF OnceEach
    <3>2. CASE i = l + 1 /\ j \in DOMAIN vs
      BY <1>a, <1>3, <2>2, <3>2
    <3>3. CASE j = l + 1 /\ i \in DOMAIN vs
      BY <1>a, <1>3, <2>2, <3>3
    <3> QED BY <1>5, <3>1, <3>2, <3>3
  <2>4. \A i \in DOMAIN w : w[i].rule = "DailyMaxLoss" /\ w[i].day = date => daily2
    BY <1>a, <1>3, <1>5, <2>1
  <2>5. \A i \in DOMAIN w : ~(w[i].rule = "Rollover" /\ w[i].day = date)
    BY <1>a, <1>3, <1>5, <2>1
  <2> QED BY <2>3, <2>4, <2>5
<1>9. \A i \in DOMAIN w : w[i].day = InitialDay \/ <<"day", w[i].day>> \in seen
  BY <1>a, <1>0, <1>3, <1>5
<1>10. ASSUME NEW i \in DOMAIN w, w[i].rule = "ProfitTarget"
       PROVE  Cardinality(Rolls(w, i)) >= pack.min_trading_days
  <2>1. CASE i \in DOMAIN vs
    <3>1. Rolls(w, i) = Rolls(vs, i)
      BY <1>3, <1>4, <2>1
    <3> QED BY <1>0, <1>3, <1>10, <2>1, <3>1
  <2>2. CASE i = l + 1
    <3>1. Cardinality(Rolls(w, i)) >= counter
      BY <1>0, <1>1, <1>4, <2>2
    <3>2. counter >= pack.min_trading_days
      BY <1>a, <1>3, <1>10, <2>2
    <3>3. Cardinality(Rolls(w, i)) \in Nat
      BY <1>4, <2>2
    <3> QED BY <1>a, <1>0, <3>1, <3>2, <3>3
  <2> QED BY <1>5, <2>1, <2>2
<1>11. counter <= Cardinality(Rolls(w, Len(w)))
  BY <1>0, <1>1, <1>3, <1>4
<1>12. Given(w, date, daily2, overall2, target2, counter, seen)
  BY <1>0, <1>3, <1>6, <1>7, <1>8, <1>9, <1>10, <1>11 DEF Given
<1> QED BY <1>2, <1>12

\* Verdicts about news count for no rule here.
LEMMA GivenNews ==
  ASSUME NEW vs, NEW date, NEW daily, NEW overall, NEW target, NEW counter, NEW seen,
         Given(vs, date, daily, overall, target, counter, seen),
         NEW ws \in Seq(VerdictKinds),
         \A i \in DOMAIN ws : ws[i].rule \in {"NewsRule", "NewsPrePositioned"} /\ ws[i].day = date
  PROVE  Given(vs \o ws, date, daily, overall, target, counter, seen)
<1>0. /\ vs \in Seq(VerdictKinds) /\ date \in Days /\ counter \in Nat
      /\ \A i \in DOMAIN vs : vs[i].rule = "MaxOverallLoss" => overall
      /\ \A i \in DOMAIN vs : vs[i].rule = "ProfitTarget" => target
      /\ date = InitialDay \/ <<"day", date>> \in seen
      /\ \A i \in DOMAIN vs : vs[i].day = InitialDay \/ <<"day", vs[i].day>> \in seen
      /\ \A i \in DOMAIN vs : vs[i].rule = "ProfitTarget" =>
                                Cardinality(Rolls(vs, i)) >= pack.min_trading_days
      /\ counter <= Cardinality(Rolls(vs, Len(vs)))
  BY DEF Given
<1>1. PICK l \in Nat, m \in Nat : l = Len(vs) /\ m = Len(ws)
  BY <1>0, LenProperties
<1>2. PICK w : w = vs \o ws
  OBVIOUS
<1>3. /\ w \in Seq(VerdictKinds) /\ Len(w) = l + m /\ DOMAIN vs = 1..l /\ DOMAIN w = 1..(l + m)
      /\ DOMAIN ws = 1..m
      /\ \A i \in 1..(l + m) : w[i] = IF i <= l THEN vs[i] ELSE ws[i - l]
  BY <1>0, <1>1, <1>2, ConcatProperties, LenProperties
<1>4. \A i \in DOMAIN w : \/ i \in DOMAIN vs /\ w[i] = vs[i]
                          \/ /\ i > l /\ w[i].rule \in {"NewsRule", "NewsPrePositioned"}
                             /\ w[i].day = date
  <2> SUFFICES ASSUME NEW i \in DOMAIN w
               PROVE  \/ i \in DOMAIN vs /\ w[i] = vs[i]
                      \/ /\ i > l /\ w[i].rule \in {"NewsRule", "NewsPrePositioned"}
                         /\ w[i].day = date
    OBVIOUS
  <2>1. CASE i <= l
    BY <1>3, <2>1
  <2>2. CASE i > l
    <3>1. i - l \in DOMAIN ws /\ w[i] = ws[i - l]
      BY <1>3, <2>2
    <3> QED BY <2>2, <3>1
  <2> QED BY <1>3, <2>1, <2>2
<1>5. Rolls(w, l + m) = Rolls(vs, l)
  <2>1. ASSUME NEW j \in Rolls(w, l + m) PROVE j \in Rolls(vs, l)
    <3>1. j \in DOMAIN w /\ w[j].rule = "Rollover"
      BY <1>3 DEF Rolls
    <3> QED BY <1>3, <1>4, <3>1 DEF Rolls
  <2>2. ASSUME NEW j \in Rolls(vs, l) PROVE j \in Rolls(w, l + m)
    <3>1. j \in 1..l /\ j \in 1..(l + m) /\ vs[j].rule = "Rollover"
      BY DEF Rolls
    <3> QED BY <1>3, <3>1 DEF Rolls
  <2> QED BY <2>1, <2>2
<1>6. \A i \in DOMAIN vs : Rolls(w, i) = Rolls(vs, i)
  <2>1. \A j \in 1..l : w[j] = vs[j]
    BY <1>3
  <2> QED BY <1>3, <2>1 DEF Rolls
<1>7. ASSUME FirstDayApart
      PROVE  /\ OnceEach(w)
             /\ \A i \in DOMAIN w : w[i].rule = "DailyMaxLoss" /\ w[i].day = date => daily
             /\ \A i \in DOMAIN w : ~(w[i].rule = "Rollover" /\ w[i].day = date)
  <2>1. /\ OnceEach(vs)
        /\ \A i \in DOMAIN vs : vs[i].rule = "DailyMaxLoss" /\ vs[i].day = date => daily
        /\ \A i \in DOMAIN vs : ~(vs[i].rule = "Rollover" /\ vs[i].day = date)
    BY <1>7 DEF Given
  <2>2. OnceEach(w)
    <3> SUFFICES ASSUME NEW i \in DOMAIN w, NEW j \in DOMAIN w,
                        w[i].rule = w[j].rule,
                        \/ w[i].rule \in {"MaxOverallLoss", "ProfitTarget"}
                        \/ w[i].rule \in {"DailyMaxLoss", "Rollover"} /\ w[i].day = w[j].day
                 PROVE  i = j
      BY DEF OnceEach
    <3>1. i \in DOMAIN vs /\ w[i] = vs[i] /\ j \in DOMAIN vs /\ w[j] = vs[j]
      BY <1>4
    <3> QED BY <2>1, <3>1 DEF OnceEach
  <2> QED BY <1>4, <2>1, <2>2
<1>8. /\ \A i \in DOMAIN w : w[i].rule = "MaxOverallLoss" => overall
      /\ \A i \in DOMAIN w : w[i].rule = "ProfitTarget" => target
      /\ \A i \in DOMAIN w : w[i].day = InitialDay \/ <<"day", w[i].day>> \in seen
  BY <1>0, <1>4
<1>9. \A i \in DOMAIN w : w[i].rule = "ProfitTarget" =>
                            Cardinality(Rolls(w, i)) >= pack.min_trading_days
  BY <1>0, <1>4, <1>6
<1>10. counter <= Cardinality(Rolls(w, Len(w)))
  BY <1>0, <1>1, <1>3, <1>5
<1>11. Given(w, date, daily, overall, target, counter, seen)
  BY <1>0, <1>3, <1>7, <1>8, <1>9, <1>10 DEF Given
<1> QED BY <1>2, <1>11

\* The verdict that ends a day, and the day after it.
LEMMA GivenRollover ==
  ASSUME NEW vs, NEW date, NEW daily, NEW overall, NEW target, NEW counter, NEW seen,
         Given(vs, date, daily, overall, target, counter, seen),
         NEW v \in VerdictKinds, v.day = date, v.rule = "Rollover",
         NEW next \in Days, <<"day", next>> \notin seen, FirstDayApart => next # InitialDay,
         NEW seen2, seen \subseteq seen2, <<"day", next>> \in seen2,
         NEW counter2 \in Nat, counter2 <= counter + 1
  PROVE  Given(Append(vs, v), next, FALSE, overall, target, counter2, seen2)
<1>0. /\ vs \in Seq(VerdictKinds) /\ date \in Days /\ counter \in Nat
      /\ \A i \in DOMAIN vs : vs[i].rule = "MaxOverallLoss" => overall
      /\ \A i \in DOMAIN vs : vs[i].rule = "ProfitTarget" => target
      /\ date = InitialDay \/ <<"day", date>> \in seen
      /\ \A i \in DOMAIN vs : vs[i].day = InitialDay \/ <<"day", vs[i].day>> \in seen
      /\ \A i \in DOMAIN vs : vs[i].rule = "ProfitTarget" =>
                                Cardinality(Rolls(vs, i)) >= pack.min_trading_days
      /\ counter <= Cardinality(Rolls(vs, Len(vs)))
  BY DEF Given
<1>1. PICK l \in Nat : l = Len(vs)
  BY <1>0, LenProperties
<1>2. PICK w : w = Append(vs, v)
  OBVIOUS
<1>3. /\ w \in Seq(VerdictKinds) /\ Len(w) = l + 1 /\ DOMAIN vs = 1..l /\ DOMAIN w = 1..(l + 1)
      /\ \A i \in 1..l : w[i] = vs[i]
      /\ w[l + 1] = v
  BY <1>0, <1>1, <1>2, AppendedIs
<1>4. /\ \A n \in 0..l : Rolls(w, n) = Rolls(vs, n) /\ Cardinality(Rolls(vs, n)) \in Nat
      /\ Cardinality(Rolls(w, l + 1)) = Cardinality(Rolls(vs, l)) + 1
  BY <1>0, <1>1, <1>2, RollsAppended
<1>5. \A i \in DOMAIN w : i = l + 1 \/ (i \in DOMAIN vs /\ w[i] = vs[i])
  BY <1>3
<1>6. /\ \A i \in DOMAIN w : w[i].rule = "MaxOverallLoss" => overall
      /\ \A i \in DOMAIN w : w[i].rule = "ProfitTarget" => target
      /\ \A i \in DOMAIN w : w[i].day = InitialDay \/ <<"day", w[i].day>> \in seen
  BY <1>0, <1>3, <1>5
<1>7. ASSUME FirstDayApart
      PROVE  /\ OnceEach(w)
             /\ \A i \in DOMAIN w : w[i].day # next
  <2>1. /\ OnceEach(vs)
        /\ \A i \in DOMAIN vs : ~(vs[i].rule = "Rollover" /\ vs[i].day = date)
    BY <1>7 DEF Given
  <2>2. OnceEach(w)
    <3> SUFFICES ASSUME NEW i \in DOMAIN w, NEW j \in DOMAIN w,
                        w[i].rule = w[j].rule,
                        \/ w[i].rule \in {"MaxOverallLoss", "ProfitTarget"}
                        \/ w[i].rule \in {"DailyMaxLoss", "Rollover"} /\ w[i].day = w[j].day
                 PROVE  i = j
      BY DEF OnceEach
    <3>1. CASE i \in DOMAIN vs /\ j \in DOMAIN vs
      BY <1>3, <2>1, <3>1 DEF OnceEach
    <3>2. CASE i = l + 1 /\ j \in DOMAIN vs
      BY <1>3, <2>1, <3>2
    <3>3. CASE j = l + 1 /\ i \in DOMAIN vs
      BY <1>3, <2>1, <3>3
    <3> QED BY <1>5, <3>1, <3>2, <3>3
  <2>3. \A i \in DOMAIN w : w[i].day # next
    BY <1>6, <1>7
  <2> QED BY <2>2, <2>3
<1>8. \A i \in DOMAIN w : w[i].rule = "ProfitTarget" =>
                            Cardinality(Rolls(w, i)) >= pack.min_trading_days
  <2>1. \A i \in DOMAIN vs : Rolls(w, i) = Rolls(vs, i)
    BY <1>3, <1>4
  <2> QED BY <1>0, <1>3, <1>5, <2>1
<1>9. counter2 <= Cardinality(Rolls(w, Len(w)))
  BY <1>0, <1>1, <1>3, <1>4
<1>10. \A i \in DOMAIN w : w[i].day = InitialDay \/ <<"day", w[i].day>> \in seen2
  BY <1>6
<1>11. Given(w, next, FALSE, overall, target, counter2, seen2)
  BY <1>3, <1>6, <1>7, <1>8, <1>9, <1>10 DEF Given
<1> QED BY <1>2, <1>11

\* More keys seen.
LEMMA GivenMore ==
  ASSUME NEW vs, NEW date, NEW daily, NEW overall, NEW target, NEW counter, NEW seen, NEW seen2,
         Given(vs, date, daily, overall, target, counter, seen), seen \subseteq seen2
  PROVE  Given(vs, date, daily, overall, target, counter, seen2)
BY DEF Given

\* Concatenation, by a name the provers do not rewrite.
Joined(s, t) == s \o t

LEMMA JoinedSeq ==
  ASSUME NEW S, NEW x, NEW y, x \in Seq(S), y \in Seq(S)
  PROVE  Joined(x, y) \in Seq(S)
  BY ConcatProperties, SMT DEF Joined

LEMMA JoinedTwice ==
  ASSUME NEW S, NEW x, NEW y, NEW z, x \in Seq(S), y \in Seq(S), z \in Seq(S)
  PROVE  Joined(Joined(x, y), z) = Joined(x, Joined(y, z))
  BY ConcatAssociative, ConcatProperties, SMT DEF Joined

LEMMA JoinedThrice ==
  ASSUME NEW S, NEW vs, NEW x, NEW y, NEW z,
         vs \in Seq(S), x \in Seq(S), y \in Seq(S), z \in Seq(S)
  PROVE  Joined(Joined(Joined(vs, x), y), z) = Joined(vs, Joined(Joined(x, y), z))
<1>1. Joined(x, y) \in Seq(S)
  BY JoinedSeq
<1>3. Joined(Joined(vs, x), y) = Joined(vs, Joined(x, y))
  BY JoinedTwice
<1>4. Joined(Joined(vs, Joined(x, y)), z) = Joined(vs, Joined(Joined(x, y), z))
  BY <1>1, JoinedTwice
<1> QED BY <1>3, <1>4

\* The verdicts of check_rules.
LEMMA GivenRules ==
  ASSUME NEW vs, NEW s, Typed(s), GivenTo(vs, s), pack.min_trading_days \in Nat
  PROVE  GivenTo(vs \o RuleVerdicts(s), CheckRules(s)) /\ RuleVerdicts(s) \in Seq(VerdictKinds)
<1>0. /\ s.day.daily_breached \in BOOLEAN /\ s.overall_breached \in BOOLEAN
      /\ s.target_reached \in BOOLEAN
  BY DEF Typed
<1>a. PICK daily \in BOOLEAN, overall \in BOOLEAN, target \in BOOLEAN :
        /\ daily = s.day.daily_breached
        /\ overall = s.overall_breached /\ target = s.target_reached
  BY <1>0, Zenon
<1>b. PICK date, counter, seen :
        date = s.day.date /\ counter = s.day_counter /\ seen = s.seen_dedup_keys
  OBVIOUS
<1>1. /\ date = s.day.date /\ daily = s.day.daily_breached
      /\ overall = s.overall_breached /\ target = s.target_reached
      /\ counter = s.day_counter /\ seen = s.seen_dedup_keys
  BY <1>a, <1>b
<1>c. DailyHit(s) \in BOOLEAN /\ OverallHit(s) \in BOOLEAN /\ TargetHit(s) \in BOOLEAN
  BY DEF DailyHit, OverallHit, TargetHit
<1>2. PICK d \in BOOLEAN, o \in BOOLEAN, t \in BOOLEAN :
        d = DailyHit(s) /\ o = OverallHit(s) /\ t = TargetHit(s)
  BY <1>c, Zenon
<1>3. PICK dv, ov, tv : /\ dv = Verdict(s, "DailyMaxLoss", "Breach")
                        /\ ov = Verdict(s, "MaxOverallLoss", "Breach")
                        /\ tv = Verdict(s, "ProfitTarget", "TargetReached")
  OBVIOUS
<1>4. Given(vs, date, daily, overall, target, counter, seen)
  BY <1>1 DEF GivenTo
<1>5. vs \in Seq(VerdictKinds) /\ date \in Days
  BY <1>4 DEF Given
<1>6. /\ dv \in VerdictKinds /\ dv.rule = "DailyMaxLoss" /\ dv.day = date
      /\ ov \in VerdictKinds /\ ov.rule = "MaxOverallLoss" /\ ov.day = date
      /\ tv \in VerdictKinds /\ tv.rule = "ProfitTarget" /\ tv.day = date
  BY <1>1, <1>3, <1>5 DEF Verdict, VerdictKinds
<1>7. PICK a, b, c : a = When(d, dv) /\ b = When(o, ov) /\ c = When(t, tv)
  OBVIOUS
<1>8. a \in Seq(VerdictKinds) /\ b \in Seq(VerdictKinds) /\ c \in Seq(VerdictKinds)
  BY <1>6, <1>7 DEF When
<1>9. RuleVerdicts(s) = a \o b \o c
  BY <1>2, <1>3, <1>7, Zenon DEF RuleVerdicts
<1>10. /\ d => ~daily
       /\ o => ~overall
       /\ t => ~target /\ counter >= pack.min_trading_days
  BY <1>1, <1>2 DEF DailyHit, OverallHit, TargetHit
<1>11. ASSUME NEW ws \in Seq(VerdictKinds), NEW v \in VerdictKinds, NEW h \in BOOLEAN
       PROVE  ws \o When(h, v) = IF h THEN Append(ws, v) ELSE ws
  BY DEF When
<1>12. Given(vs \o a, date, daily \/ d, overall, target, counter, seen)
  <2>1. CASE d
    <3>2. Allowed(dv, date, daily, overall, target, counter, TRUE, overall, target)
      BY <1>6, <1>10, <2>1 DEF Allowed
    <3>1. Given(Append(vs, dv), date, TRUE, overall, target, counter, seen)
      BY <1>4, <3>2, GivenAppend
    <3> QED BY <1>5, <1>6, <1>7, <1>11, <2>1, <3>1
  <2>2. CASE ~d
    <3>1. vs \o a = vs /\ (daily \/ d) = daily
      BY <1>5, <1>6, <1>7, <1>11, <2>2
    <3> QED BY <1>4, <3>1
  <2> QED BY <2>1, <2>2
<1>13. PICK daily2, vs2 : daily2 = (daily \/ d) /\ vs2 = vs \o a /\ vs2 \in Seq(VerdictKinds)
  BY <1>5, <1>8, ConcatProperties
<1>14. Given(vs2 \o b, date, daily2, overall \/ o, target, counter, seen)
  <2>0. Given(vs2, date, daily2, overall, target, counter, seen)
    BY <1>12, <1>13
  <2>1. CASE o
    <3>2. Allowed(ov, date, daily2, overall, target, counter, daily2, TRUE, target)
      BY <1>6, <1>10, <2>1 DEF Allowed
    <3>1. Given(Append(vs2, ov), date, daily2, TRUE, target, counter, seen)
      BY <2>0, <3>2, GivenAppend
    <3> QED BY <1>6, <1>7, <1>11, <1>13, <2>1, <3>1
  <2>2. CASE ~o
    <3>1. vs2 \o b = vs2 /\ (overall \/ o) = overall
      BY <1>13, <1>6, <1>7, <1>11, <2>2
    <3> QED BY <2>0, <3>1
  <2> QED BY <2>1, <2>2
<1>15. PICK overall2, vs3 :
         overall2 = (overall \/ o) /\ vs3 = vs2 \o b /\ vs3 \in Seq(VerdictKinds)
  BY <1>8, <1>13, ConcatProperties
<1>16. Given(vs3 \o c, date, daily2, overall2, target \/ t, counter, seen)
  <2>0. Given(vs3, date, daily2, overall2, target, counter, seen)
    BY <1>14, <1>15
  <2>1. CASE t
    <3>2. Allowed(tv, date, daily2, overall2, target, counter, daily2, overall2, TRUE)
      BY <1>6, <1>10, <2>1 DEF Allowed
    <3>1. Given(Append(vs3, tv), date, daily2, overall2, TRUE, counter, seen)
      BY <2>0, <3>2, GivenAppend
    <3> QED BY <1>6, <1>7, <1>11, <1>15, <2>1, <3>1
  <2>2. CASE ~t
    <3>1. vs3 \o c = vs3 /\ (target \/ t) = target
      BY <1>15, <1>6, <1>7, <1>11, <2>2
    <3> QED BY <2>0, <3>1
  <2> QED BY <2>1, <2>2
<1>17. /\ CheckRules(s).day.date = date /\ CheckRules(s).day.daily_breached = daily2
       /\ CheckRules(s).overall_breached = overall2
       /\ CheckRules(s).target_reached = (target \/ t)
       /\ CheckRules(s).day_counter = counter
       /\ CheckRules(s).seen_dedup_keys = seen
  BY <1>1, <1>2, <1>13, <1>15 DEF CheckRules, Typed, Shaped, Fields, DayFields
<1>18. vs3 \o c = vs \o RuleVerdicts(s) /\ RuleVerdicts(s) \in Seq(VerdictKinds)
  <2>0. Joined(Joined(Joined(vs, a), b), c) = Joined(vs, Joined(Joined(a, b), c))
    BY <1>5, <1>8, JoinedThrice
  <2>2. Joined(a, b) \in Seq(VerdictKinds)
    BY <1>8, JoinedSeq
  <2>3. Joined(Joined(a, b), c) \in Seq(VerdictKinds)
    BY <1>8, <2>2, JoinedSeq
  <2>1. ((vs \o a) \o b) \o c = vs \o ((a \o b) \o c) /\ (a \o b) \o c \in Seq(VerdictKinds)
    BY <2>0, <2>3, Zenon DEF Joined
  <2> QED BY <1>9, <1>13, <1>15, <2>1
<1> QED BY <1>16, <1>17, <1>18 DEF GivenTo

\* Two records whose flags, dates and seen keys agree.
Quiet(s, t) ==
  /\ t.day.date = s.day.date /\ t.day.daily_breached = s.day.daily_breached
  /\ t.overall_breached = s.overall_breached /\ t.target_reached = s.target_reached
  /\ t.day_counter = s.day_counter /\ t.seen_dedup_keys = s.seen_dedup_keys

LEMMA GivenQuiet ==
  ASSUME NEW vs, NEW s, NEW t, GivenTo(vs, s), Quiet(s, t)
  PROVE  GivenTo(vs, t)
BY DEF GivenTo, Quiet

\* What is not check_rules and not a rollover is quiet.
LEMMA QuietSteps ==
  ASSUME NEW s, Shaped(s), NEW e
  PROVE  /\ Quiet(s, Booked(s, e))
         /\ Quiet(s, Opened(s, e))
         /\ Quiet(s, Settled(s, e))
         /\ \A h : Quiet(s, [s EXCEPT !.hwm = h])
         /\ Quiet(s, [s EXCEPT !.deferred_closes[e.order] = <<>>])
<1>1. Quiet(s, Booked(s, e)) /\ Quiet(s, Opened(s, e))
  BY DEF Booked, Opened, Shaped, Fields, Quiet
<1>2. ASSUME NEW t, Shaped(t), NEW h PROVE Quiet(t, [t EXCEPT !.hwm = h])
  BY <1>2 DEF Shaped, Fields, Quiet
<1>3. Quiet(s, Settled(s, e))
  <2>1. PICK u : u = Booking(s, e)
    OBVIOUS
  <2>2. Shaped(u) /\ Quiet(s, u)
    BY <2>1 DEF Booking, Shaped, Fields, DayFields, Quiet
  <2>3. Settled(s, e) = [u EXCEPT !.hwm = TrailedHwm(u)]
    BY <2>1 DEF Settled, Booking
  <2>4. Quiet(u, Settled(s, e))
    BY <1>2, <2>2, <2>3
  <2> QED BY <2>2, <2>4 DEF Quiet
<1>4. Quiet(s, [s EXCEPT !.deferred_closes[e.order] = <<>>])
  BY DEF Shaped, Fields, Quiet
<1> QED BY <1>1, <1>2, <1>3, <1>4

\* The rules see the ledger, the day and the flags only.
RulesSee(s, t) ==
  /\ t.balance = s.balance /\ t.positions = s.positions /\ t.last_px = s.last_px
  /\ t.hwm = s.hwm /\ t.day = s.day /\ t.day_counter = s.day_counter
  /\ t.overall_breached = s.overall_breached /\ t.target_reached = s.target_reached

LEMMA SeenAlike ==
  ASSUME NEW s, NEW t, RulesSee(s, t)
  PROVE  RuleVerdicts(t) = RuleVerdicts(s)
<1>1. EquityOf(t) = EquityOf(s)
  BY DEF RulesSee, EquityOf
<1>2. DailyHit(t) = DailyHit(s)
  BY <1>1 DEF RulesSee, DailyHit
<1>3. OverallHit(t) = OverallHit(s) /\ TargetHit(t) = TargetHit(s)
  BY <1>1, <1>2 DEF RulesSee, OverallHit, TargetHit
<1>4. \A r, x : Verdict(t, r, x) = Verdict(s, r, x)
  BY DEF RulesSee, Verdict
<1> QED BY <1>2, <1>3, <1>4 DEF RuleVerdicts

LEMMA SettledAlike ==
  ASSUME NEW s, NEW t, Shaped(s), Shaped(t), RulesSee(s, t), NEW c
  PROVE  RulesSee(Settled(s, c), Settled(t, c))
<1>1. PICK u, v : u = Booking(s, c) /\ v = Booking(t, c)
  OBVIOUS
<1>2. Shaped(u) /\ Shaped(v) /\ RulesSee(u, v)
  BY <1>1 DEF Booking, Shaped, Fields, DayFields, RulesSee
<1>3. TrailedHwm(u) = TrailedHwm(v)
  <2>1. EquityOf(u) = EquityOf(v)
    BY <1>2 DEF RulesSee, EquityOf
  <2> QED BY <1>2, <2>1 DEF RulesSee, TrailedHwm
<1>4. PICK h : h = TrailedHwm(u)
  OBVIOUS
<1>5. Settled(s, c) = [u EXCEPT !.hwm = h] /\ Settled(t, c) = [v EXCEPT !.hwm = h]
  BY <1>1, <1>3, <1>4 DEF Settled, Booking
<1> QED BY <1>2, <1>5 DEF Shaped, Fields, RulesSee

\* The verdicts of the closes a fill drains.
LEMMA GivenDrain ==
  ASSUME NEW vs, NEW s, Typed(s), GivenTo(vs, s), pack.min_trading_days \in Nat,
         NEW o \in Orders, s.positions[o] # None
  PROVE  /\ GivenTo(vs \o DrainVerdicts(s, o), Drained(s, o))
         /\ DrainVerdicts(s, o) \in Seq(VerdictKinds)
<1>1. PICK q : q = s.deferred_closes[o] /\ q \in Seq(ClosesFor(o))
  BY DEF Typed
<1>2. PICK t : t = [s EXCEPT !.deferred_closes[o] = <<>>]
  OBVIOUS
<1>3. /\ Shaped(t) /\ Quiet(s, t) /\ RulesSee(s, t) /\ t.positions[o] # None
      /\ t.deferred_closes = [s.deferred_closes EXCEPT ![o] = <<>>]
      /\ t.seq_applied = s.seq_applied
  BY <1>2 DEF Typed, Shaped, Fields, Quiet, RulesSee
<1>4. Typed(t)
  <2>1. \A p \in Orders : t.deferred_closes[p] \in Seq(ClosesFor(p))
    <3>1. \A p \in Orders : p = o => t.deferred_closes[p] \in Seq(ClosesFor(p))
      BY <1>3, EmptySeq DEF Typed, Shaped
    <3>2. \A p \in Orders : p # o => t.deferred_closes[p] = s.deferred_closes[p]
      BY <1>3 DEF Typed, Shaped
    <3> QED BY <3>1, <3>2 DEF Typed
  <2> QED BY <1>3, <2>1 DEF Typed, OpenOrders, RulesSee
<1>5. GivenTo(vs, t)
  BY <1>3, GivenQuiet
<1>6. CASE Drains(q)
  <2>1. PICK c \in ClosesFor(o) : c = Drainer(q) /\ c.px # Bad
    BY <1>1, <1>6, DrainerIs
  <2>2. PICK u, w : u = Settled(t, c) /\ w = Settled(s, c)
    OBVIOUS
  <2>3. Drained(s, o) = CheckRules(u) /\ DrainVerdicts(s, o) = RuleVerdicts(w)
    BY <1>1, <1>2, <1>6, <2>1, <2>2 DEF Drained, DrainVerdicts
  <2>4. Typed(u)
    BY <1>3, <1>4, <2>1, <2>2, SettledTyped
  <2>5. GivenTo(vs, u)
    <3>1. Quiet(t, u)
      BY <1>3, <2>2, QuietSteps
    <3> QED BY <1>5, <3>1, GivenQuiet
  <2>6. RuleVerdicts(u) = RuleVerdicts(w)
    <3>1. RulesSee(w, u)
      BY <1>3, <2>2, SettledAlike DEF Typed
    <3> QED BY <3>1, SeenAlike
  <2> QED BY <2>3, <2>4, <2>5, <2>6, GivenRules
<1>7. CASE ~Drains(q)
  <2>1. Drained(s, o) = t /\ DrainVerdicts(s, o) = <<>>
    BY <1>1, <1>2, <1>7 DEF Drained, DrainVerdicts
  <2>2. vs \in Seq(VerdictKinds)
    BY DEF GivenTo, Given
  <2>3. vs \o <<>> = vs /\ <<>> \in Seq(VerdictKinds)
    BY <2>2, ConcatEmptySeq, EmptySeq
  <2> QED BY <1>5, <2>1, <2>3
<1> QED BY <1>6, <1>7

\* The verdict of a fill inside a window.
LEMMA NewsVerdictsAre ==
  ASSUME NEW e, state.day.date \in Days
  PROVE  /\ NewsVerdicts(e) \in Seq(VerdictKinds)
         /\ \A i \in DOMAIN NewsVerdicts(e) :
              /\ NewsVerdicts(e)[i].rule \in {"NewsRule", "NewsPrePositioned"}
              /\ NewsVerdicts(e)[i].day = state.day.date
<1>1. PICK v : v = Verdict(state, "NewsRule", IF pack.news.pre_positioned_flag THEN "Flagged" ELSE "Breach")
  OBVIOUS
<1>2. v \in VerdictKinds /\ v.rule = "NewsRule" /\ v.day = state.day.date
  BY <1>1 DEF Verdict, VerdictKinds
<1>3. NewsVerdicts(e) = <<v>> \/ NewsVerdicts(e) = <<>>
  BY <1>1 DEF NewsVerdicts, When
<1>4. CASE NewsVerdicts(e) = <<v>>
  <2>1. <<v>> \in Seq(VerdictKinds) /\ DOMAIN <<v>> = {1} /\ <<v>>[1] = v
    BY <1>2
  <2> QED BY <1>2, <1>4, <2>1
<1>5. CASE NewsVerdicts(e) = <<>>
  <2>1. <<>> \in Seq(VerdictKinds) /\ DOMAIN <<>> = {}
    BY EmptySeq
  <2> QED BY <1>5, <2>1
<1> QED BY <1>3, <1>4, <1>5

\* Every event gives the verdicts its rules allow.
LEMMA GivenStep ==
  ASSUME Typed(state), GivenTo(verdicts, state), pack.min_trading_days \in Nat,
         NEW e \in Stream, Apply(e)
  PROVE  GivenTo(verdicts', state')
<1>0. PICK a, vs : a = Arrived(e) /\ vs = verdicts
  OBVIOUS
<1>1. /\ Typed(a) /\ a.day = state.day /\ SameBook(state, a)
      /\ a.seen_dedup_keys = state.seen_dedup_keys \cup {DedupKey(e)}
      /\ a.overall_breached = state.overall_breached /\ a.target_reached = state.target_reached
      /\ a.day_counter = state.day_counter
  <2>1. Typed(a) /\ a.day = state.day /\ SameBook(state, a)
    BY <1>0, ArrivedTyped, ArrivedKeeps DEF Typed
  <2> QED BY <1>0, <2>1 DEF Arrived, Typed, Shaped, Fields
<1>2. GivenTo(vs, a) /\ vs \in Seq(VerdictKinds) /\ state.day.date \in Days
  <2>1. Given(vs, state.day.date, state.day.daily_breached, state.overall_breached,
              state.target_reached, state.day_counter, state.seen_dedup_keys)
    BY <1>0 DEF GivenTo
  <2>2. state.seen_dedup_keys \subseteq a.seen_dedup_keys
    BY <1>1
  <2>3. Given(vs, state.day.date, state.day.daily_breached, state.overall_breached,
              state.target_reached, state.day_counter, a.seen_dedup_keys)
    BY <2>1, <2>2, GivenMore
  <2>4. GivenTo(vs, a)
    BY <1>1, <2>3 DEF GivenTo
  <2> QED BY <2>1, <2>4 DEF Given
<1>a. ASSUME NEW ws, NEW s, Shaped(s), GivenTo(ws, s)
      PROVE  GivenTo(ws, Booked(s, e))
  BY <1>a, QuietSteps, GivenQuiet
<1>b. ASSUME NEW ws, NEW s, Typed(s), GivenTo(ws, s)
      PROVE  GivenTo(ws \o RuleVerdicts(s), Booked(CheckRules(s), e))
  <2>1. GivenTo(ws \o RuleVerdicts(s), CheckRules(s))
    BY <1>b, GivenRules
  <2>2. Shaped(CheckRules(s))
    BY <1>b, CheckRulesKeeps DEF Typed
  <2> QED BY <2>1, <2>2, <1>a
<1>c. vs \o <<>> = vs
  BY <1>2, ConcatEmptySeq
<1>3. CASE Duplicate(e)
  BY <1>3 DEF Duplicate, vars
<1>4. CASE Mark(e)
  <2>1. CASE e.px = Bad
    <3>1. state' = Booked(a, e) /\ verdicts' = vs \o <<>>
      BY <1>0, <1>4, <2>1 DEF Mark, Return
    <3> QED BY <1>1, <1>2, <1>a, <1>c, <3>1 DEF Typed
  <2>2. CASE e.px # Bad
    <3>1. PICK s : s = [a EXCEPT !.last_px[e.symbol] = e.px]
      OBVIOUS
    <3>2. e.px \in Int /\ e.symbol \in Symbols
      BY <1>4, <2>2, EngineAssumption DEF Mark
    <3>3. /\ Shaped(s) /\ s.hwm = a.hwm /\ s.day = a.day /\ Quiet(a, s)
          /\ s.balance = a.balance /\ s.positions = a.positions
          /\ s.last_px = [a.last_px EXCEPT ![e.symbol] = e.px]
          /\ s.deferred_closes = a.deferred_closes
          /\ s.day_counter = a.day_counter /\ s.seq_applied = a.seq_applied
          /\ s.overall_breached = a.overall_breached
          /\ s.target_reached = a.target_reached
      BY <1>1, <3>1 DEF Typed, Shaped, Fields, Quiet
    <3>4. Typed(s)
      BY <1>1, <3>2, <3>3 DEF Typed, OpenOrders
    <3>5. GivenTo(vs, s)
      BY <1>2, <3>3, GivenQuiet
    <3>6. state' = Booked(CheckRules(s), e) /\ verdicts' = vs \o RuleVerdicts(s)
      BY <1>0, <1>4, <2>2, <3>1 DEF Mark, Return
    <3> QED BY <1>b, <3>4, <3>5, <3>6
  <2> QED BY <2>1, <2>2
<1>5. CASE OrderFilled(e)
  <2>0. e.type = "fill" /\ e.order \in Orders
    BY <1>5, EngineAssumption DEF OrderFilled
  <2>1. PICK n : n = NewsVerdicts(e)
    OBVIOUS
  <2>2. /\ n \in Seq(VerdictKinds)
        /\ \A i \in DOMAIN n : n[i].rule \in {"NewsRule", "NewsPrePositioned"} /\ n[i].day = a.day.date
    BY <1>1, <1>2, <2>1, NewsVerdictsAre
  <2>3. GivenTo(vs \o n, a)
    BY <1>2, <2>2, GivenNews DEF GivenTo
  <2>4. CASE e.px = Bad
    <3>1. state' = a /\ verdicts' = vs \o <<>>
      BY <1>0, <1>5, <2>4 DEF OrderFilled, Return
    <3> QED BY <1>2, <1>c, <3>1
  <2>5. CASE e.px # Bad /\ state' = a /\ verdicts' = vs \o n
    BY <2>3, <2>5
  <2>6. CASE /\ e.px # Bad
             /\ LET s == Opened(a, e)
                    t == Drained(s, e.order)
                IN  /\ state' = Booked(CheckRules(t), e)
                    /\ verdicts' = vs \o (n \o DrainVerdicts(s, e.order) \o RuleVerdicts(t))
    <3>1. PICK s : s = Opened(a, e)
      OBVIOUS
    <3>2. Typed(s) /\ s.positions[e.order] # None
      <4>1. Typed(a) /\ e \in Stream /\ e.type = "fill" /\ e.px # Bad
        BY <1>1, <2>0, <2>6
      <4>2. Typed(Opened(a, e)) /\ Opened(a, e).positions[e.order] # None
        BY <4>1, OpenedTyped
      <4> QED BY <3>1, <4>2
    <3>3. Quiet(a, s)
      BY <1>1, <3>1, QuietSteps DEF Typed
    <3>4. GivenTo(vs \o n, s)
      BY <2>3, <3>3, GivenQuiet
    <3>5. PICK t, d : t = Drained(s, e.order) /\ d = DrainVerdicts(s, e.order)
      OBVIOUS
    <3>6. /\ Typed(t) /\ GivenTo((vs \o n) \o d, t) /\ d \in Seq(VerdictKinds)
      BY <2>0, <3>2, <3>4, <3>5, DrainedTyped, GivenDrain
    <3>7. PICK r : r = RuleVerdicts(t)
      OBVIOUS
    <3>8. GivenTo(((vs \o n) \o d) \o r, Booked(CheckRules(t), e)) /\ r \in Seq(VerdictKinds)
      BY <1>b, <3>6, <3>7, GivenRules
    <3>9. Joined(Joined(Joined(vs, n), d), r) = Joined(vs, Joined(Joined(n, d), r))
      BY <1>2, <2>2, <3>6, <3>8, JoinedThrice
    <3>10. state' = Booked(CheckRules(t), e) /\ verdicts' = vs \o ((n \o d) \o r)
      BY <2>6, <3>1, <3>5, <3>7
    <3> QED BY <3>8, <3>9, <3>10, Zenon DEF Joined
  <2>7. \/ e.px = Bad
        \/ e.px # Bad /\ state' = a /\ verdicts' = vs \o n
        \/ /\ e.px # Bad
           /\ LET s == Opened(a, e)
                  t == Drained(s, e.order)
              IN  /\ state' = Booked(CheckRules(t), e)
                  /\ verdicts' = vs \o (n \o DrainVerdicts(s, e.order) \o RuleVerdicts(t))
    BY <1>0, <1>5, <2>1, Zenon DEF OrderFilled, Return
  <2> QED BY <2>4, <2>5, <2>6, <2>7
<1>6. CASE TradeClosed(e)
  <2>0. e.type = "close" /\ e.order \in Orders /\ e \in ClosesFor(e.order)
    BY <1>6, EngineAssumption DEF TradeClosed, ClosesFor
  <2>1. CASE state.positions[e.order] = None
    <3>1. PICK s : s = [a EXCEPT !.deferred_closes[e.order] = Append(@, e)]
      OBVIOUS
    <3>2. Quiet(a, s)
      BY <1>1, <3>1 DEF Typed, Shaped, Fields, Quiet
    <3>3. state' = s /\ verdicts' = vs \o <<>>
      BY <1>0, <1>6, <2>1, <3>1 DEF TradeClosed, Return
    <3> QED BY <1>2, <1>c, <3>2, <3>3, GivenQuiet
  <2>2. CASE state.positions[e.order] # None /\ e.px = Bad
    <3>1. state' = Booked(a, e) /\ verdicts' = vs \o <<>>
      BY <1>0, <1>6, <2>2 DEF TradeClosed, Return
    <3> QED BY <1>1, <1>2, <1>a, <1>c, <3>1 DEF Typed
  <2>3. CASE state.positions[e.order] # None /\ e.px # Bad
    <3>1. PICK s : s = Settled(a, e)
      OBVIOUS
    <3>2. a.positions[e.order] # None
      BY <1>1, <2>3 DEF SameBook
    <3>3. Typed(s)
      BY <1>1, <2>0, <2>3, <3>1, <3>2, SettledTyped
    <3>4. GivenTo(vs, s)
      <4>1. Quiet(a, s)
        BY <1>1, <3>1, QuietSteps DEF Typed
      <4> QED BY <1>2, <4>1, GivenQuiet
    <3>5. state' = Booked(CheckRules(s), e) /\ verdicts' = vs \o RuleVerdicts(s)
      BY <1>0, <1>6, <2>3, <3>1 DEF TradeClosed, Return
    <3> QED BY <1>b, <3>3, <3>4, <3>5
  <2> QED BY <2>1, <2>2, <2>3
<1>7. CASE BalanceAdjustment(e)
  <2>1. CASE e.amount = Bad
    <3>1. state' = a /\ verdicts' = vs \o <<>>
      BY <1>0, <1>7, <2>1 DEF BalanceAdjustment, Return
    <3> QED BY <1>2, <1>c, <3>1
  <2>2. CASE e.amount # Bad
    <3>0. e.amount \in Int
      BY <1>7, <2>2, EngineAssumption DEF BalanceAdjustment
    <3>1. PICK t : t = [a EXCEPT !.balance = @ + e.amount]
      OBVIOUS
    <3>2. /\ Shaped(t) /\ t.hwm = a.hwm /\ t.day = a.day /\ Quiet(a, t)
          /\ t.balance = a.balance + e.amount /\ t.positions = a.positions
          /\ t.last_px = a.last_px
          /\ t.deferred_closes = a.deferred_closes
          /\ t.day_counter = a.day_counter /\ t.seq_applied = a.seq_applied
          /\ t.overall_breached = a.overall_breached
          /\ t.target_reached = a.target_reached
      BY <1>1, <3>1 DEF Typed, Shaped, Fields, Quiet
    <3>3. Typed(t)
      BY <1>1, <3>0, <3>2 DEF Typed, OpenOrders
    <3>4. PICK h : h = TrailedHwm(t)
      OBVIOUS
    <3>5. PICK s : s = [t EXCEPT !.hwm = h]
      OBVIOUS
    <3>6. Typed(s)
      BY <3>3, <3>4, <3>5, RaisedTyped
    <3>7. GivenTo(vs, s)
      <4>1. Quiet(t, s)
        BY <3>2, <3>5, QuietSteps
      <4> QED BY <1>2, <3>2, <4>1, GivenQuiet
    <3>8. state' = Booked(CheckRules(s), e) /\ verdicts' = vs \o RuleVerdicts(s)
      BY <1>0, <1>7, <2>2, <3>1, <3>4, <3>5 DEF BalanceAdjustment, Return
    <3> QED BY <1>b, <3>6, <3>7, <3>8
  <2> QED BY <2>1, <2>2
<1>8. CASE AccountStateReport(e)
  <2>1. state' = Booked(a, e) /\ verdicts' = vs \o <<>>
    BY <1>0, <1>8 DEF AccountStateReport, Return
  <2> QED BY <1>1, <1>2, <1>a, <1>c, <2>1 DEF Typed
<1>9. CASE NewsWindow(e)
  <2>1. PICK s : s = [a EXCEPT !.news_windows =
               @ \cup {[symbol |-> e.symbol, tier |-> e.tier, start |-> e.start, end |-> e.end]}]
    OBVIOUS
  <2>2. Shaped(s) /\ Quiet(a, s)
    BY <1>1, <2>1 DEF Typed, Shaped, Fields, Quiet
  <2>3. GivenTo(vs, s)
    BY <1>2, <2>2, GivenQuiet
  <2>4. PICK n, v : /\ n = Cardinality({o \in Orders : /\ state.positions[o] # None
                                                       /\ state.positions[o].symbol = e.symbol
                                                       /\ state.positions[o].opened_ts < e.start})
                    /\ v = Verdict(state, "NewsPrePositioned", "Flagged")
    OBVIOUS
  <2>5. \/ state' = s /\ verdicts' = vs \o <<>>
        \/ state' = Booked(s, e) /\ verdicts' = vs \o [i \in 1..n |-> v]
    BY <1>0, <1>9, <2>1, <2>4, Zenon DEF NewsWindow, Return
  <2>6. n \in Nat
    <3>1. IsFiniteSet(OpenOrders(state))
      BY DEF Typed
    <3>2. {o \in Orders : /\ state.positions[o] # None
                          /\ state.positions[o].symbol = e.symbol
                          /\ state.positions[o].opened_ts < e.start} \in SUBSET OpenOrders(state)
      BY DEF OpenOrders
    <3> QED BY <2>4, <3>1, <3>2, FS_Subset, FS_CardinalityType
  <2>7. v \in VerdictKinds /\ v.rule = "NewsPrePositioned" /\ v.day = s.day.date
    BY <1>1, <1>2, <2>2, <2>4 DEF Verdict, VerdictKinds, Quiet
  <2>8. PICK ws : ws = [i \in 1..n |-> v]
    OBVIOUS
  <2>9. /\ ws \in Seq(VerdictKinds)
        /\ \A i \in DOMAIN ws : ws[i].rule \in {"NewsRule", "NewsPrePositioned"} /\ ws[i].day = s.day.date
    BY <2>6, <2>7, <2>8
  <2>10. GivenTo(vs \o ws, s)
    BY <2>3, <2>9, GivenNews DEF GivenTo
  <2> QED BY <1>a, <1>c, <2>2, <2>3, <2>5, <2>8, <2>10
<1>10. CASE Rollover(e)
  <2>0. e.type = "rollover" /\ Fresh(e) /\ e.date \in Days /\ DedupKey(e) = <<"day", e.date>>
    BY <1>10 DEF Rollover, Days, DedupKey
  <2>1. PICK h, q : h = TrailedHwm(state) /\ q = EquityOf(state)
    OBVIOUS
  <2>2. PICK s : s = [a EXCEPT !.day_counter = IF state.day.traded THEN @ + 1 ELSE @,
                               !.hwm = h, !.day = NewDay(e.date, q)]
    OBVIOUS
  <2>3. /\ Shaped(s) /\ s.day.date = e.date /\ s.day.daily_breached = FALSE
        /\ s.overall_breached = state.overall_breached /\ s.target_reached = state.target_reached
        /\ s.seen_dedup_keys = state.seen_dedup_keys \cup {<<"day", e.date>>}
        /\ s.day_counter = IF state.day.traded THEN state.day_counter + 1 ELSE state.day_counter
    BY <1>1, <2>0, <2>2 DEF Typed, Shaped, Fields, DayFields, NewDay
  <2>4. s.day_counter \in Nat /\ s.day_counter <= state.day_counter + 1
    BY <2>3 DEF Typed
  <2>5. PICK dv, rv : /\ dv = Verdict(state, "DailyMaxLoss", "Breach")
                      /\ rv = Verdict(state, "Rollover", "Info")
    OBVIOUS
  <2>6. /\ dv \in VerdictKinds /\ dv.rule = "DailyMaxLoss" /\ dv.day = state.day.date
        /\ rv \in VerdictKinds /\ rv.rule = "Rollover" /\ rv.day = state.day.date
    BY <1>2, <2>5 DEF Verdict, VerdictKinds
  <2>7. state' = Booked(s, e) /\ verdicts' = vs \o (When(EodHit(state), dv) \o <<rv>>)
    BY <1>0, <1>10, <2>1, <2>2, <2>5 DEF Rollover, Return
  <2>8. PICK w, daily : /\ w \in Seq(VerdictKinds)
                        /\ verdicts' = Append(w, rv)
                        /\ Given(w, state.day.date, daily, state.overall_breached,
                                 state.target_reached, state.day_counter, state.seen_dedup_keys)
    <3>0. Given(vs, state.day.date, state.day.daily_breached, state.overall_breached,
                state.target_reached, state.day_counter, state.seen_dedup_keys)
      BY <1>0 DEF GivenTo
    <3>1. CASE EodHit(state)
      <4>1. ~state.day.daily_breached
        BY <3>1 DEF EodHit
      <4>2. Allowed(dv, state.day.date, state.day.daily_breached, state.overall_breached,
                    state.target_reached, state.day_counter, TRUE, state.overall_breached,
                    state.target_reached)
        BY <2>6, <4>1 DEF Allowed
      <4>3. Given(Append(vs, dv), state.day.date, TRUE, state.overall_breached,
                  state.target_reached, state.day_counter, state.seen_dedup_keys)
        BY <3>0, <4>2, GivenAppend
      <4>4. verdicts' = Append(Append(vs, dv), rv) /\ Append(vs, dv) \in Seq(VerdictKinds)
        <5>1. When(EodHit(state), dv) \o <<rv>> = <<dv>> \o <<rv>>
          BY <3>1 DEF When
        <5>2. vs \o (<<dv>> \o <<rv>>) = Append(Append(vs, dv), rv)
          BY <1>2, <2>6
        <5>3. verdicts' = vs \o (<<dv>> \o <<rv>>)
          BY <2>7, <5>1, Zenon
        <5>4. Append(vs, dv) \in Seq(VerdictKinds)
          BY <1>2, <2>6, AppendedIs
        <5> QED BY <5>2, <5>3, <5>4, Zenon
      <4> QED BY <4>3, <4>4, Zenon
    <3>2. CASE ~EodHit(state)
      <4>1. When(EodHit(state), dv) \o <<rv>> = <<>> \o <<rv>>
        BY <3>2 DEF When
      <4>2. vs \o (<<>> \o <<rv>>) = Append(vs, rv)
        BY <1>2, <2>6
      <4>3. verdicts' = Append(vs, rv)
        BY <2>7, <4>1, <4>2
      <4> QED BY <1>2, <3>0, <4>3, Zenon
    <3> QED BY <3>1, <3>2
  <2>9. FirstDayApart => e.date # InitialDay
    BY <2>0 DEF FirstDayApart
  <2>10. <<"day", e.date>> \notin state.seen_dedup_keys
    BY <2>0 DEF Fresh
  <2>11. Given(Append(w, rv), e.date, FALSE, state.overall_breached, state.target_reached,
               s.day_counter, s.seen_dedup_keys)
    <3>1. state.seen_dedup_keys \subseteq s.seen_dedup_keys /\ <<"day", e.date>> \in s.seen_dedup_keys
      BY <2>3
    <3> QED BY <2>0, <2>4, <2>6, <2>8, <2>9, <2>10, <3>1, GivenRollover
  <2>12. GivenTo(Append(w, rv), s)
    BY <2>3, <2>11 DEF GivenTo
  <2> QED BY <1>a, <2>3, <2>7, <2>8, <2>12
<1> QED BY <1>3, <1>4, <1>5, <1>6, <1>7, <1>8, <1>9, <1>10 DEF Apply

-----------------------------------------------------------------------------
(* What one event does to the ledger, the book and the deferred buffer *)

PositionOf(f) ==
  [symbol |-> f.symbol, side |-> f.side, volume |-> f.volume, entry_px |-> f.px, opened_ts |-> f.ts]

\* The keys of the mismatch alerts of a set of alerts.
Mismatched(as) == {a.key : a \in {b \in as : b.kind = "PNL_MISMATCH"}}

\* The alert a close of position p is worth.
Doubted(p, c) ==
  IF /\ c.pnl # Bad
     /\ \/ c.pnl - Pnl(p, c.px) > pack.pnl_tolerance
        \/ -(c.pnl - Pnl(p, c.px)) > pack.pnl_tolerance
  THEN {DedupKey(c)}
  ELSE {}

Untouched(e) ==
  /\ e.type = "fill" => e.px = Bad \/ state.positions[e.order] # None
  /\ e.type = "close" => e.px = Bad /\ state.positions[e.order] # None
  /\ e.type = "adjustment" => e.amount = Bad
  /\ state'.balance = state.balance
  /\ state'.positions = state.positions
  /\ state'.deferred_closes = state.deferred_closes
  /\ Mismatched(alerts') = Mismatched(alerts)

Adjusted(e) ==
  /\ e.type = "adjustment" /\ e.amount # Bad
  /\ state'.balance = state.balance + e.amount
  /\ state'.positions = state.positions
  /\ state'.deferred_closes = state.deferred_closes
  /\ Mismatched(alerts') = Mismatched(alerts)

Deferred(e) ==
  /\ e.type = "close" /\ state.positions[e.order] = None
  /\ state'.balance = state.balance
  /\ state'.positions = state.positions
  /\ state'.deferred_closes = [state.deferred_closes EXCEPT ![e.order] = Append(@, e)]
  /\ Mismatched(alerts') = Mismatched(alerts)

ClosedNow(e) ==
  /\ e.type = "close" /\ e.px # Bad /\ state.positions[e.order] # None
  /\ state'.balance = state.balance + Pnl(state.positions[e.order], e.px) + OrZero(e.fee)
  /\ state'.positions = [state.positions EXCEPT ![e.order] = None]
  /\ state'.deferred_closes = state.deferred_closes
  /\ Mismatched(alerts') = Mismatched(alerts) \cup Doubted(state.positions[e.order], e)

OpenedNow(e) ==
  /\ e.type = "fill" /\ e.px # Bad /\ state.positions[e.order] = None
  /\ ~Drains(state.deferred_closes[e.order])
  /\ state'.balance = state.balance + OrZero(e.comm)
  /\ state'.positions = [state.positions EXCEPT ![e.order] = PositionOf(e)]
  /\ state'.deferred_closes = [state.deferred_closes EXCEPT ![e.order] = <<>>]
  /\ Mismatched(alerts') = Mismatched(alerts)

\* A fill whose close is there already, c.
DrainedNow(e, c) ==
  /\ e.type = "fill" /\ e.px # Bad /\ state.positions[e.order] = None
  /\ Drains(state.deferred_closes[e.order])
  /\ c \in ClosesFor(e.order) /\ c.px # Bad
  /\ \E i \in DOMAIN state.deferred_closes[e.order] :
       i \in Parsed(state.deferred_closes[e.order]) /\ c = state.deferred_closes[e.order][i]
  /\ state'.balance = state.balance + OrZero(e.comm) + Pnl(PositionOf(e), c.px) + OrZero(c.fee)
  /\ state'.positions = state.positions
  /\ state'.deferred_closes = [state.deferred_closes EXCEPT ![e.order] = <<>>]
  /\ Mismatched(alerts') = Mismatched(alerts) \cup Doubted(PositionOf(e), c)

LEMMA MismatchedJoin ==
  ASSUME NEW a, NEW b
  PROVE  Mismatched(a \cup b) = Mismatched(a) \cup Mismatched(b)
BY DEF Mismatched

LEMMA ClockNoMismatch == ASSUME NEW e PROVE Mismatched(ClockAlerts(e)) = {}
<1>1. \A a \in ClockAlerts(e) : a.kind # "PNL_MISMATCH"
  BY DEF ClockAlerts, Alert
<1> QED BY <1>1 DEF Mismatched

\* Alerts of other kinds.
LEMMA OtherAlerts ==
  ASSUME NEW as, \A a \in as : a.kind # "PNL_MISMATCH"
  PROVE  Mismatched(as) = {}
BY DEF Mismatched

LEMMA DoubtedIs ==
  ASSUME NEW s, NEW c
  PROVE  Mismatched(CloseAlerts(s, c)) = Doubted(s.positions[c.order], c)
<1>1. \/ CloseAlerts(s, c) = {[kind |-> "PNL_MISMATCH", key |-> DedupKey(c)]}
         /\ Doubted(s.positions[c.order], c) = {DedupKey(c)}
      \/ CloseAlerts(s, c) = {} /\ Doubted(s.positions[c.order], c) = {}
  BY DEF CloseAlerts, Doubted, Alert
<1>2. CASE CloseAlerts(s, c) = {} /\ Doubted(s.positions[c.order], c) = {}
  BY <1>2 DEF Mismatched
<1>3. CASE /\ CloseAlerts(s, c) = {[kind |-> "PNL_MISMATCH", key |-> DedupKey(c)]}
           /\ Doubted(s.positions[c.order], c) = {DedupKey(c)}
  <2>1. PICK a : a = [kind |-> "PNL_MISMATCH", key |-> DedupKey(c)]
    OBVIOUS
  <2>2. a.kind = "PNL_MISMATCH" /\ a.key = DedupKey(c) /\ CloseAlerts(s, c) = {a}
    BY <1>3, <2>1
  <2>3. Mismatched({a}) = {a.key}
    BY <2>2 DEF Mismatched
  <2> QED BY <1>3, <2>2, <2>3
<1> QED BY <1>1, <1>2, <1>3

\* Record t is s after the deferred closes q of order o were drained.
DrainOutcome(s, o, t, q) ==
  /\ t.deferred_closes = [s.deferred_closes EXCEPT ![o] = <<>>]
  /\ ~Drains(q) => t.balance = s.balance /\ t.positions = s.positions
  /\ Drains(q) => /\ Drainer(q) \in ClosesFor(o) /\ Drainer(q).px # Bad
                  /\ t.balance = s.balance + Pnl(s.positions[o], Drainer(q).px) + OrZero(Drainer(q).fee)
                  /\ t.positions = [s.positions EXCEPT ![o] = None]

LEMMA DrainedBook ==
  ASSUME NEW s, Typed(s), NEW o \in Orders, s.positions[o] # None
  PROVE  DrainOutcome(s, o, Drained(s, o), s.deferred_closes[o])
<1>0. PICK q : q = s.deferred_closes[o]
  OBVIOUS
<1>1. q \in Seq(ClosesFor(o))
  BY <1>0 DEF Typed
<1>2. PICK t : t = [s EXCEPT !.deferred_closes[o] = <<>>]
  OBVIOUS
<1>3. /\ Shaped(t) /\ RulesSee(s, t)
      /\ t.deferred_closes = [s.deferred_closes EXCEPT ![o] = <<>>]
      /\ t.seq_applied = s.seq_applied
  BY <1>2 DEF Typed, Shaped, Fields, RulesSee
<1>4. Typed(t)
  <2>1. \A p \in Orders : t.deferred_closes[p] \in Seq(ClosesFor(p))
    <3>1. \A p \in Orders : p = o => t.deferred_closes[p] \in Seq(ClosesFor(p))
      BY <1>3, EmptySeq DEF Typed, Shaped
    <3>2. \A p \in Orders : p # o => t.deferred_closes[p] = s.deferred_closes[p]
      BY <1>3 DEF Typed, Shaped
    <3> QED BY <3>1, <3>2 DEF Typed
  <2> QED BY <1>3, <2>1 DEF Typed, OpenOrders, RulesSee
<1>5. CASE Drains(q)
  <2>1. PICK c \in ClosesFor(o) : c = Drainer(q) /\ c.px # Bad
    BY <1>1, <1>5, DrainerIs
  <2>2. PICK u : u = Settled(t, c)
    OBVIOUS
  <2>3. Drained(s, o) = CheckRules(u)
    BY <1>0, <1>2, <1>5, <2>1, <2>2 DEF Drained
  <2>4. /\ Typed(u) /\ u.deferred_closes = t.deferred_closes
        /\ u.balance = t.balance + Pnl(t.positions[o], c.px) + OrZero(c.fee)
        /\ u.positions = [t.positions EXCEPT ![o] = None]
    <3>1. t.positions[o] # None
      BY <1>3 DEF RulesSee
    <3> QED BY <1>4, <2>1, <2>2, <3>1, SettledTyped
  <2>5. SameBook(u, CheckRules(u))
    BY <2>4, CheckRulesKeeps DEF Typed
  <2> QED BY <1>0, <1>3, <1>5, <2>1, <2>3, <2>4, <2>5 DEF SameBook, RulesSee, DrainOutcome
<1>6. CASE ~Drains(q)
  <2>1. Drained(s, o) = t
    BY <1>0, <1>2, <1>6 DEF Drained
  <2> QED BY <1>0, <1>3, <1>6, <2>1 DEF RulesSee, DrainOutcome
<1> QED BY <1>5, <1>6

BookStepOf(e) ==
  \/ Untouched(e) \/ Adjusted(e) \/ Deferred(e) \/ ClosedNow(e) \/ OpenedNow(e)
  \/ \E c \in Stream : DrainedNow(e, c)

\* Every event that is not a duplicate does one of these.
LEMMA BookStep ==
  ASSUME Typed(state), NEW e \in Stream, Apply(e), Fresh(e)
  PROVE  BookStepOf(e)
<1>0. PICK a : a = Arrived(e)
  OBVIOUS
<1>1. Typed(a) /\ Shaped(a) /\ SameBook(state, a)
  BY <1>0, ArrivedTyped, ArrivedKeeps DEF Typed
<1>a. ASSUME NEW s, Shaped(s)
      PROVE  SameBook(s, Booked(s, e)) /\ SameBook(s, Booked(CheckRules(s), e))
  <2>1. Shaped(CheckRules(s)) /\ SameBook(s, CheckRules(s))
    BY <1>a, CheckRulesKeeps
  <2>2. SameBook(s, Booked(s, e)) /\ SameBook(CheckRules(s), Booked(CheckRules(s), e))
    BY <1>a, <2>1, BookedKeeps
  <2> QED BY <2>1, <2>2 DEF SameBook
<1>b. ASSUME NEW as, alerts' = alerts \cup ClockAlerts(e) \cup as
      PROVE  Mismatched(alerts') = Mismatched(alerts) \cup Mismatched(as)
  <2>1. Mismatched(alerts \cup ClockAlerts(e)) = Mismatched(alerts) \cup Mismatched(ClockAlerts(e))
    BY MismatchedJoin
  <2>2. PICK x : x = alerts \cup ClockAlerts(e)
    OBVIOUS
  <2>3. Mismatched(x \cup as) = Mismatched(x) \cup Mismatched(as)
    BY MismatchedJoin
  <2>4. alerts' = x \cup as
    BY <1>b, <2>2
  <2> QED BY <2>1, <2>2, <2>3, <2>4, ClockNoMismatch
<1>c. Mismatched({}) = {}
  BY OtherAlerts
<1>d. ASSUME NEW kind, kind # "PNL_MISMATCH" PROVE Mismatched({Alert(kind, e)}) = {}
  BY <1>d, OtherAlerts DEF Alert
<1>2. CASE Duplicate(e)
  BY <1>2 DEF Duplicate
<1>3. CASE Mark(e)
  <2>1. PICK s : s = [a EXCEPT !.last_px[e.symbol] = e.px]
    OBVIOUS
  <2>2. /\ Shaped(s) /\ s.balance = a.balance /\ s.positions = a.positions
        /\ s.deferred_closes = a.deferred_closes
    BY <1>1, <2>1 DEF Shaped, Fields
  <2>3. /\ state' = Booked(a, e) \/ state' = Booked(CheckRules(s), e)
        /\ alerts' = alerts \cup ClockAlerts(e) \cup {}
    BY <1>0, <1>3, <2>1 DEF Mark, Return
  <2>4. /\ state'.balance = state.balance /\ state'.positions = state.positions
        /\ state'.deferred_closes = state.deferred_closes
    BY <1>1, <1>a, <2>2, <2>3 DEF SameBook
  <2>5. Mismatched(alerts') = Mismatched(alerts)
    BY <1>b, <1>c, <2>3
  <2>6. e.type = "mark"
    BY <1>3 DEF Mark
  <2> QED BY <2>4, <2>5, <2>6 DEF Untouched, BookStepOf
<1>4. CASE OrderFilled(e)
  <2>0. e.type = "fill" /\ e.order \in Orders /\ e.type # "close" /\ e.type # "adjustment"
    BY <1>4, EngineAssumption DEF OrderFilled
  <2>1. CASE e.px = Bad
    <3>1. state' = a /\ alerts' = alerts \cup ClockAlerts(e) \cup {Alert("MALFORMED", e)}
      BY <1>0, <1>4, <2>1 DEF OrderFilled, Return
    <3>2. Mismatched(alerts') = Mismatched(alerts)
      BY <1>b, <1>d, <3>1
    <3> QED BY <1>1, <2>0, <2>1, <3>1, <3>2 DEF SameBook, Untouched, BookStepOf
  <2>2. CASE e.px # Bad /\ state.positions[e.order] # None
    <3>1. state' = a /\ alerts' = alerts \cup ClockAlerts(e) \cup {Alert("DUPLICATE_FILL", e)}
      BY <1>0, <1>4, <2>2 DEF OrderFilled, Return
    <3>2. Mismatched(alerts') = Mismatched(alerts)
      BY <1>b, <1>d, <3>1
    <3> QED BY <1>1, <2>0, <2>2, <3>1, <3>2 DEF SameBook, Untouched, BookStepOf
  <2>3. CASE e.px # Bad /\ state.positions[e.order] = None
    <3>1. PICK s : s = Opened(a, e)
      OBVIOUS
    <3>2. /\ Typed(s) /\ s.balance = state.balance + OrZero(e.comm)
          /\ s.deferred_closes = state.deferred_closes
          /\ s.positions = [state.positions EXCEPT ![e.order] = PositionOf(e)]
          /\ s.positions[e.order] # None
      BY <1>1, <2>0, <2>3, <3>1, OpenedTyped DEF SameBook, PositionOf
    <3>3. s.positions[e.order] = PositionOf(e)
      BY <2>0, <3>2 DEF Typed
    <3>4. PICK t, q : t = Drained(s, e.order) /\ q = s.deferred_closes[e.order]
      OBVIOUS
    <3>5. /\ t.deferred_closes = [s.deferred_closes EXCEPT ![e.order] = <<>>]
          /\ ~Drains(q) => t.balance = s.balance /\ t.positions = s.positions
          /\ Drains(q) => /\ Drainer(q) \in ClosesFor(e.order) /\ Drainer(q).px # Bad
                          /\ t.balance = s.balance + Pnl(s.positions[e.order], Drainer(q).px)
                                         + OrZero(Drainer(q).fee)
                          /\ t.positions = [s.positions EXCEPT ![e.order] = None]
      <4>1. DrainOutcome(s, e.order, t, q)
        BY <2>0, <3>2, <3>4, DrainedBook
      <4> QED BY <4>1 DEF DrainOutcome
    <3>6. Shaped(t)
      BY <2>0, <3>2, <3>4, DrainedTyped DEF Typed
    <3>7. /\ state' = Booked(CheckRules(t), e)
          /\ alerts' = alerts \cup ClockAlerts(e) \cup DrainAlerts(s, e.order)
      BY <1>0, <1>4, <2>3, <3>1, <3>4 DEF OrderFilled, Return
    <3>8. SameBook(t, state')
      BY <1>a, <3>6, <3>7
    <3>9. PICK m : m = {Alert("MALFORMED", q[i]) : i \in DOMAIN q \ Parsed(q)}
      OBVIOUS
    <3>10. Mismatched(m) = {}
      <4>1. \A x \in m : x.kind # "PNL_MISMATCH"
        BY <3>9 DEF Alert
      <4> QED BY <4>1, OtherAlerts
    <3>11. CASE Drains(q)
      <4>1. PICK c \in ClosesFor(e.order) :
              /\ c = Drainer(q) /\ c.px # Bad
              /\ \E i \in DOMAIN q : i \in Parsed(q) /\ c = q[i]
        <5>1. q \in Seq(ClosesFor(e.order))
          BY <2>0, <3>2, <3>4 DEF Typed
        <5> QED BY <2>0, <3>11, <5>1, DrainerIs
      <4>2. DrainAlerts(s, e.order) = m \cup CloseAlerts(s, c)
        BY <3>4, <3>9, <3>11, <4>1 DEF DrainAlerts
      <4>3. c \in Stream /\ c.order = e.order
        BY DEF ClosesFor
      <4>4. Mismatched(CloseAlerts(s, c)) = Doubted(PositionOf(e), c)
        BY <3>3, <4>3, DoubtedIs
      <4>5. Mismatched(DrainAlerts(s, e.order)) = Doubted(PositionOf(e), c)
        BY <3>10, <4>2, <4>4, MismatchedJoin
      <4>6. Mismatched(alerts') = Mismatched(alerts) \cup Doubted(PositionOf(e), c)
        BY <1>b, <3>7, <4>5
      <4>7. state'.positions = state.positions
        <5>1. state'.positions = [s.positions EXCEPT ![e.order] = None]
          BY <3>5, <3>8, <3>11 DEF SameBook
        <5> QED BY <2>0, <2>3, <3>2, <5>1 DEF Typed
      <4>8. /\ state'.balance = state.balance + OrZero(e.comm) + Pnl(PositionOf(e), c.px) + OrZero(c.fee)
            /\ state'.deferred_closes = [state.deferred_closes EXCEPT ![e.order] = <<>>]
        BY <3>2, <3>3, <3>5, <3>8, <3>11, <4>1 DEF SameBook
      <4>9. q = state.deferred_closes[e.order]
        BY <3>2, <3>4
      <4>10. DrainedNow(e, c)
        BY <2>0, <2>3, <3>11, <4>1, <4>6, <4>7, <4>8, <4>9 DEF DrainedNow
      <4> QED BY <4>3, <4>10 DEF BookStepOf
    <3>12. CASE ~Drains(q)
      <4>1. DrainAlerts(s, e.order) = m \cup {}
        BY <3>4, <3>9, <3>12 DEF DrainAlerts
      <4>2. Mismatched(DrainAlerts(s, e.order)) = {}
        BY <3>10, <4>1, <1>c, MismatchedJoin
      <4>3. Mismatched(alerts') = Mismatched(alerts)
        BY <1>b, <3>7, <4>2
      <4>4. /\ state'.balance = state.balance + OrZero(e.comm)
            /\ state'.positions = [state.positions EXCEPT ![e.order] = PositionOf(e)]
            /\ state'.deferred_closes = [state.deferred_closes EXCEPT ![e.order] = <<>>]
        BY <3>2, <3>5, <3>8, <3>12 DEF SameBook
      <4>5. q = state.deferred_closes[e.order]
        BY <3>2, <3>4
      <4> QED BY <2>0, <2>3, <3>12, <4>3, <4>4, <4>5 DEF OpenedNow, BookStepOf
    <3> QED BY <3>11, <3>12
  <2> QED BY <2>1, <2>2, <2>3
<1>5. CASE TradeClosed(e)
  <2>0. /\ e.type = "close" /\ e.order \in Orders /\ e \in ClosesFor(e.order)
        /\ e.type # "fill" /\ e.type # "adjustment"
    BY <1>5, EngineAssumption DEF TradeClosed, ClosesFor
  <2>1. CASE state.positions[e.order] = None
    <3>1. PICK s : s = [a EXCEPT !.deferred_closes[e.order] = Append(@, e)]
      OBVIOUS
    <3>2. /\ s.balance = a.balance /\ s.positions = a.positions
          /\ s.deferred_closes = [a.deferred_closes EXCEPT ![e.order] = Append(@, e)]
      BY <1>1, <3>1 DEF Shaped, Fields
    <3>3. state' = s /\ alerts' = alerts \cup ClockAlerts(e) \cup {Alert("CLOSE_DEFERRED", e)}
      BY <1>0, <1>5, <2>1, <3>1 DEF TradeClosed, Return
    <3>4. Mismatched(alerts') = Mismatched(alerts)
      BY <1>b, <1>d, <3>3
    <3> QED BY <1>1, <2>0, <2>1, <3>2, <3>3, <3>4 DEF SameBook, Deferred, BookStepOf
  <2>2. CASE state.positions[e.order] # None /\ e.px = Bad
    <3>1. state' = Booked(a, e) /\ alerts' = alerts \cup ClockAlerts(e) \cup {Alert("MALFORMED", e)}
      BY <1>0, <1>5, <2>2 DEF TradeClosed, Return
    <3>2. Mismatched(alerts') = Mismatched(alerts)
      BY <1>b, <1>d, <3>1
    <3>3. SameBook(a, state')
      BY <1>1, <1>a, <3>1
    <3> QED BY <1>1, <2>0, <2>2, <3>2, <3>3 DEF SameBook, Untouched, BookStepOf
  <2>3. CASE state.positions[e.order] # None /\ e.px # Bad
    <3>1. PICK s : s = Settled(a, e)
      OBVIOUS
    <3>2. /\ Typed(s) /\ s.deferred_closes = a.deferred_closes
          /\ s.balance = a.balance + Pnl(a.positions[e.order], e.px) + OrZero(e.fee)
          /\ s.positions = [a.positions EXCEPT ![e.order] = None]
      <4>1. a.positions[e.order] # None
        BY <1>1, <2>3 DEF SameBook
      <4> QED BY <1>1, <2>0, <2>3, <3>1, <4>1, SettledTyped
    <3>3. /\ state' = Booked(CheckRules(s), e)
          /\ alerts' = alerts \cup ClockAlerts(e) \cup CloseAlerts(state, e)
      BY <1>0, <1>5, <2>3, <3>1 DEF TradeClosed, Return
    <3>4. SameBook(s, state')
      BY <1>a, <3>2, <3>3 DEF Typed
    <3>5. Mismatched(alerts') = Mismatched(alerts) \cup Doubted(state.positions[e.order], e)
      BY <1>b, <3>3, DoubtedIs
    <3>6. ClosedNow(e)
      BY <1>1, <2>0, <2>3, <3>2, <3>4, <3>5 DEF SameBook, ClosedNow
    <3> QED BY <3>6 DEF BookStepOf
  <2> QED BY <2>1, <2>2, <2>3
<1>6. CASE BalanceAdjustment(e)
  <2>0. e.type = "adjustment" /\ e.type # "fill" /\ e.type # "close"
    BY <1>6 DEF BalanceAdjustment
  <2>1. CASE e.amount = Bad
    <3>1. state' = a /\ alerts' = alerts \cup ClockAlerts(e) \cup {Alert("MALFORMED", e)}
      BY <1>0, <1>6, <2>1 DEF BalanceAdjustment, Return
    <3>2. Mismatched(alerts') = Mismatched(alerts)
      BY <1>b, <1>d, <3>1
    <3> QED BY <1>1, <2>0, <2>1, <3>1, <3>2 DEF SameBook, Untouched, BookStepOf
  <2>2. CASE e.amount # Bad
    <3>1. PICK t, h : t = [a EXCEPT !.balance = @ + e.amount] /\ h = TrailedHwm(t)
      OBVIOUS
    <3>2. PICK s : s = [t EXCEPT !.hwm = h]
      OBVIOUS
    <3>3. /\ Shaped(t) /\ t.balance = a.balance + e.amount /\ t.positions = a.positions
          /\ t.deferred_closes = a.deferred_closes
      BY <1>1, <3>1 DEF Shaped, Fields
    <3>4. /\ Shaped(s) /\ s.balance = t.balance /\ s.positions = t.positions
          /\ s.deferred_closes = t.deferred_closes
      BY <3>2, <3>3 DEF Shaped, Fields
    <3>5. state' = Booked(CheckRules(s), e) /\ alerts' = alerts \cup ClockAlerts(e) \cup {}
      BY <1>0, <1>6, <2>2, <3>1, <3>2 DEF BalanceAdjustment, Return
    <3>6. SameBook(s, state') /\ Mismatched(alerts') = Mismatched(alerts)
      BY <1>a, <1>b, <1>c, <3>4, <3>5
    <3> QED BY <1>1, <2>0, <2>2, <3>3, <3>4, <3>6 DEF SameBook, Adjusted, BookStepOf
  <2> QED BY <2>1, <2>2
<1>7. CASE AccountStateReport(e)
  <2>1. PICK as : as = IF /\ e.balance # Bad
                          /\ \/ e.balance - state.balance > pack.pnl_tolerance
                             \/ -(e.balance - state.balance) > pack.pnl_tolerance
                       THEN {Alert("BALANCE_DRIFT", e)} ELSE {}
    OBVIOUS
  <2>2. e.type = "report" /\ state' = Booked(a, e) /\ alerts' = alerts \cup ClockAlerts(e) \cup as
    BY <1>0, <1>7, <2>1 DEF AccountStateReport, Return
  <2>3. Mismatched(as) = {}
    BY <1>c, <1>d, <2>1
  <2>4. SameBook(a, state') /\ Mismatched(alerts') = Mismatched(alerts)
    BY <1>1, <1>a, <1>b, <2>2, <2>3
  <2> QED BY <1>1, <2>2, <2>4 DEF SameBook, Untouched, BookStepOf
<1>8. CASE NewsWindow(e)
  <2>1. PICK s : s = [a EXCEPT !.news_windows =
               @ \cup {[symbol |-> e.symbol, tier |-> e.tier, start |-> e.start, end |-> e.end]}]
    OBVIOUS
  <2>2. Shaped(s) /\ SameBook(a, s)
    BY <1>1, <2>1 DEF Shaped, Fields, SameBook
  <2>3. /\ e.type = "news" /\ (state' = s \/ state' = Booked(s, e))
        /\ alerts' = alerts \cup ClockAlerts(e) \cup {}
    BY <1>0, <1>8, <2>1 DEF NewsWindow, Return
  <2>4. SameBook(a, state') /\ Mismatched(alerts') = Mismatched(alerts)
    BY <1>a, <1>b, <1>c, <2>2, <2>3 DEF SameBook
  <2> QED BY <1>1, <2>3, <2>4 DEF SameBook, Untouched, BookStepOf
<1>9. CASE Rollover(e)
  <2>1. PICK h, q : h = TrailedHwm(state) /\ q = EquityOf(state)
    OBVIOUS
  <2>2. PICK s : s = [a EXCEPT !.day_counter = IF state.day.traded THEN @ + 1 ELSE @,
                               !.hwm = h, !.day = NewDay(e.date, q)]
    OBVIOUS
  <2>3. Shaped(s) /\ SameBook(a, s)
    BY <1>1, <2>2 DEF Shaped, Fields, DayFields, NewDay, SameBook
  <2>4. /\ e.type = "rollover" /\ state' = Booked(s, e)
        /\ alerts' = alerts \cup ClockAlerts(e) \cup {}
    BY <1>0, <1>9, <2>1, <2>2 DEF Rollover, Return
  <2>5. SameBook(a, state') /\ Mismatched(alerts') = Mismatched(alerts)
    BY <1>a, <1>b, <1>c, <2>3, <2>4 DEF SameBook
  <2> QED BY <1>1, <2>4, <2>5 DEF SameBook, Untouched, BookStepOf
<1> QED BY <1>2, <1>3, <1>4, <1>5, <1>6, <1>7, <1>8, <1>9 DEF Apply

-----------------------------------------------------------------------------
(* News verdicts have a window *)

NewsKinds == {"NewsRule", "NewsPrePositioned"}

Judged == {v \in VerdictKinds : v.rule \notin NewsKinds}

InScope(e) ==
  pack.news.enabled /\ SymbolInScope(pack.news, e.symbol) /\ TierInScope(pack.news, e.tier)

\* The open orders a window that begins at e.start finds.
Exposed(e) ==
  {o \in Orders : /\ state.positions[o] # None
                  /\ state.positions[o].symbol = e.symbol
                  /\ state.positions[o].opened_ts < e.start}

WindowOf(e) == [symbol |-> e.symbol, tier |-> e.tier, start |-> e.start, end |-> e.end]

\* The news verdicts one event may give.
NewsGiven(e, n) ==
  \/ n = <<>>
  \/ e.type = "fill" /\ e.px # Bad /\ n = NewsVerdicts(e)
  \/ /\ e.type = "news" /\ InScope(e) /\ Len(n) = Cardinality(Exposed(e))
     /\ \A i \in DOMAIN n : n[i].rule = "NewsPrePositioned"

LEMMA JudgedRules ==
  ASSUME NEW s, s.day.date \in Days
  PROVE  RuleVerdicts(s) \in Seq(Judged)
<1>1. PICK a, b, c : /\ a = When(DailyHit(s), Verdict(s, "DailyMaxLoss", "Breach"))
                     /\ b = When(OverallHit(s), Verdict(s, "MaxOverallLoss", "Breach"))
                     /\ c = When(TargetHit(s), Verdict(s, "ProfitTarget", "TargetReached"))
  OBVIOUS
<1>2. /\ Verdict(s, "DailyMaxLoss", "Breach") \in Judged
      /\ Verdict(s, "MaxOverallLoss", "Breach") \in Judged
      /\ Verdict(s, "ProfitTarget", "TargetReached") \in Judged
  BY DEF Verdict, Judged, VerdictKinds, NewsKinds
<1>3. \A h, v : v \in Judged => When(h, v) \in Seq(Judged)
  BY DEF When
<1>4. a \in Seq(Judged) /\ b \in Seq(Judged) /\ c \in Seq(Judged)
  BY <1>1, <1>2, <1>3
<1>5. Joined(a, b) \in Seq(Judged)
  BY <1>4, JoinedSeq
<1>6. Joined(Joined(a, b), c) \in Seq(Judged)
  BY <1>4, <1>5, JoinedSeq
<1>7. RuleVerdicts(s) = Joined(Joined(a, b), c)
  BY <1>1, Zenon DEF RuleVerdicts, Joined
<1> QED BY <1>6, <1>7

LEMMA JudgedDrain ==
  ASSUME NEW s, Typed(s), s.day.date \in Days, NEW o \in Orders, s.positions[o] # None
  PROVE  DrainVerdicts(s, o) \in Seq(Judged)
<1>1. PICK q : q = s.deferred_closes[o] /\ q \in Seq(ClosesFor(o))
  BY DEF Typed
<1>2. CASE Drains(q)
  <2>1. PICK c \in ClosesFor(o) : c = Drainer(q) /\ c.px # Bad
    BY <1>1, <1>2, DrainerIs
  <2>2. PICK u : u = Settled(s, c)
    OBVIOUS
  <2>3. u.day.date = s.day.date
    BY <2>1, <2>2, SettledTyped
  <2>4. DrainVerdicts(s, o) = RuleVerdicts(u)
    BY <1>1, <1>2, <2>1, <2>2 DEF DrainVerdicts
  <2> QED BY <2>3, <2>4, JudgedRules
<1>3. CASE ~Drains(q)
  BY <1>1, <1>3, EmptySeq DEF DrainVerdicts
<1> QED BY <1>2, <1>3

\* Deals record no window.
LEMMA SettledWindows ==
  ASSUME NEW s, Shaped(s), NEW c
  PROVE  Settled(s, c).news_windows = s.news_windows
<1>1. PICK u : u = Booking(s, c)
  OBVIOUS
<1>2. Shaped(u) /\ u.news_windows = s.news_windows
  BY <1>1 DEF Booking, Shaped, Fields, DayFields
<1>3. Settled(s, c) = [u EXCEPT !.hwm = TrailedHwm(u)]
  BY <1>1 DEF Settled, Booking
<1> QED BY <1>2, <1>3 DEF Shaped, Fields

LEMMA DrainedWindows ==
  ASSUME NEW s, Typed(s), NEW o \in Orders
  PROVE  Drained(s, o).news_windows = s.news_windows
<1>1. PICK t, q : t = [s EXCEPT !.deferred_closes[o] = <<>>] /\ q = s.deferred_closes[o]
  OBVIOUS
<1>2. Shaped(t) /\ t.news_windows = s.news_windows
  BY <1>1 DEF Typed, Shaped, Fields
<1>3. CASE Drains(q)
  <2>1. PICK u : u = Settled(t, Drainer(q))
    OBVIOUS
  <2>2. Shaped(u) /\ u.news_windows = t.news_windows
    BY <1>2, <2>1, SettledKeeps, SettledWindows
  <2>3. CheckRules(u).news_windows = u.news_windows
    BY <2>2 DEF CheckRules, Shaped, Fields
  <2> QED BY <1>1, <1>2, <1>3, <2>1, <2>2, <2>3 DEF Drained
<1>4. CASE ~Drains(q)
  BY <1>1, <1>2, <1>4 DEF Drained
<1> QED BY <1>3, <1>4

\* The verdicts of one event: those about news, then the others; and the window
\* it records.
LEMMA NewsStep ==
  ASSUME Typed(state), GivenTo(verdicts, state), NEW e \in Stream, Apply(e), Fresh(e)
  PROVE  /\ \E n \in Seq(VerdictKinds), j \in Seq(Judged) :
              verdicts' = (verdicts \o n) \o j /\ NewsGiven(e, n)
         /\ state'.news_windows \subseteq
              state.news_windows \cup (IF e.type = "news" THEN {WindowOf(e)} ELSE {})
<1>0. PICK a, vs : a = Arrived(e) /\ vs = verdicts
  OBVIOUS
<1>1. /\ Typed(a) /\ Shaped(a) /\ a.day = state.day /\ SameBook(state, a)
      /\ a.news_windows = state.news_windows
  <2>1. Typed(a) /\ Shaped(a) /\ a.day = state.day /\ SameBook(state, a)
    BY <1>0, ArrivedTyped, ArrivedKeeps DEF Typed
  <2> QED BY <1>0, <2>1 DEF Arrived, Typed, Shaped, Fields
<1>2. vs \in Seq(VerdictKinds) /\ state.day.date \in Days
  BY <1>0 DEF GivenTo, Given
<1>a. ASSUME NEW s, Shaped(s)
      PROVE  /\ Booked(s, e).news_windows = s.news_windows
             /\ Booked(CheckRules(s), e).news_windows = s.news_windows
  <2>1. \A t : Shaped(t) => Booked(t, e).news_windows = t.news_windows
    BY DEF Booked, Shaped, Fields
  <2>2. Shaped(CheckRules(s)) /\ CheckRules(s).news_windows = s.news_windows
    BY <1>a, CheckRulesKeeps DEF CheckRules, Shaped, Fields
  <2> QED BY <1>a, <2>1, <2>2
<1>b. ASSUME NEW n \in Seq(VerdictKinds), NEW j \in Seq(Judged), verdicts' = (vs \o n) \o j,
             NewsGiven(e, n),
             state'.news_windows \subseteq
               state.news_windows \cup (IF e.type = "news" THEN {WindowOf(e)} ELSE {})
      PROVE  /\ \E n1 \in Seq(VerdictKinds), j1 \in Seq(Judged) :
                  verdicts' = (verdicts \o n1) \o j1 /\ NewsGiven(e, n1)
             /\ state'.news_windows \subseteq
                  state.news_windows \cup (IF e.type = "news" THEN {WindowOf(e)} ELSE {})
  BY <1>0, <1>b, Zenon
<1>c. /\ <<>> \in Seq(VerdictKinds) /\ <<>> \in Seq(Judged) /\ vs \o <<>> = vs
      /\ NewsGiven(e, <<>>)
  BY <1>2, EmptySeq, ConcatEmptySeq DEF NewsGiven
<1>d. ASSUME NEW j \in Seq(Judged), verdicts' = vs \o j,
             state'.news_windows = state.news_windows
      PROVE  /\ \E n1 \in Seq(VerdictKinds), j1 \in Seq(Judged) :
                  verdicts' = (verdicts \o n1) \o j1 /\ NewsGiven(e, n1)
             /\ state'.news_windows \subseteq
                  state.news_windows \cup (IF e.type = "news" THEN {WindowOf(e)} ELSE {})
  <2>1. verdicts' = (vs \o <<>>) \o j
    BY <1>c, <1>d, Zenon
  <2>2. state'.news_windows \subseteq
                  state.news_windows \cup (IF e.type = "news" THEN {WindowOf(e)} ELSE {})
    BY <1>d
  <2> QED BY <1>b, <1>c, <2>1, <2>2
<1>3. CASE Duplicate(e)
  BY <1>3 DEF Duplicate
<1>4. CASE Mark(e)
  <2>1. PICK s : s = [a EXCEPT !.last_px[e.symbol] = e.px]
    OBVIOUS
  <2>2. Shaped(s) /\ s.day = a.day /\ s.news_windows = a.news_windows
    BY <1>1, <2>1 DEF Shaped, Fields
  <2>3. \/ state' = Booked(a, e) /\ verdicts' = vs \o <<>>
        \/ state' = Booked(CheckRules(s), e) /\ verdicts' = vs \o RuleVerdicts(s)
    BY <1>0, <1>4, <2>1 DEF Mark, Return
  <2>4. RuleVerdicts(s) \in Seq(Judged)
    BY <1>1, <1>2, <2>2, JudgedRules
  <2>5. state'.news_windows = state.news_windows
    BY <1>1, <1>a, <2>2, <2>3
  <2>6. CASE verdicts' = vs \o <<>>
    BY <1>c, <1>d, <2>5, <2>6
  <2>7. CASE verdicts' = vs \o RuleVerdicts(s)
    BY <1>d, <2>4, <2>5, <2>7
  <2> QED BY <2>3, <2>6, <2>7
<1>5. CASE OrderFilled(e)
  <2>0. e.type = "fill" /\ e.order \in Orders
    BY <1>5, EngineAssumption DEF OrderFilled
  <2>1. PICK n : n = NewsVerdicts(e)
    OBVIOUS
  <2>2. n \in Seq(VerdictKinds)
    BY <1>2, <2>1, NewsVerdictsAre
  <2>3. CASE e.px = Bad
    <3>1. state' = a /\ verdicts' = vs \o <<>>
      BY <1>0, <1>5, <2>3 DEF OrderFilled, Return
    <3> QED BY <1>1, <1>c, <1>d, <3>1
  <2>4. CASE e.px # Bad /\ state' = a /\ verdicts' = vs \o n
    <3>1. NewsGiven(e, n)
      BY <2>0, <2>1, <2>4 DEF NewsGiven
    <3>2. vs \o n \in Seq(VerdictKinds)
      BY <1>2, <2>2, ConcatProperties
    <3>3. verdicts' = (vs \o n) \o <<>>
      BY <2>4, <3>2, ConcatEmptySeq
    <3>4. state'.news_windows \subseteq
            state.news_windows \cup (IF e.type = "news" THEN {WindowOf(e)} ELSE {})
      BY <1>1, <2>4
    <3> QED BY <1>b, <1>c, <2>2, <3>1, <3>3, <3>4
  <2>5. CASE /\ e.px # Bad
             /\ LET s == Opened(a, e)
                    t == Drained(s, e.order)
                IN  /\ state' = Booked(CheckRules(t), e)
                    /\ verdicts' = vs \o (n \o DrainVerdicts(s, e.order) \o RuleVerdicts(t))
    <3>1. PICK s : s = Opened(a, e)
      OBVIOUS
    <3>2. Typed(s) /\ s.day = a.day /\ s.positions[e.order] # None
      BY <1>1, <2>0, <2>5, <3>1, OpenedTyped
    <3>3. PICK t, d, r : t = Drained(s, e.order) /\ d = DrainVerdicts(s, e.order) /\ r = RuleVerdicts(t)
      OBVIOUS
    <3>4. Typed(t) /\ t.day.date = s.day.date
      BY <2>0, <3>2, <3>3, DrainedTyped
    <3>5. d \in Seq(Judged) /\ r \in Seq(Judged)
      BY <1>1, <1>2, <2>0, <3>2, <3>3, <3>4, JudgedDrain, JudgedRules
    <3>6. d \in Seq(VerdictKinds) /\ r \in Seq(VerdictKinds)
      <4>1. Judged \subseteq VerdictKinds
        BY DEF Judged
      <4> QED BY <3>5, <4>1, SeqMonotonic
    <3>7. Joined(d, r) \in Seq(Judged)
      BY <3>5, JoinedSeq
    <3>8. Joined(Joined(vs, n), Joined(d, r)) = Joined(vs, Joined(Joined(n, d), r))
      <4>1. Joined(vs, n) \in Seq(VerdictKinds)
        BY <1>2, <2>2, JoinedSeq
      <4>2. Joined(Joined(Joined(vs, n), d), r) = Joined(Joined(vs, n), Joined(d, r))
        BY <3>6, <4>1, JoinedTwice
      <4>3. Joined(Joined(Joined(vs, n), d), r) = Joined(vs, Joined(Joined(n, d), r))
        BY <1>2, <2>2, <3>6, JoinedThrice
      <4> QED BY <4>2, <4>3
    <3>9. state' = Booked(CheckRules(t), e) /\ verdicts' = Joined(vs, Joined(Joined(n, d), r))
      BY <2>5, <3>1, <3>3, Zenon DEF Joined
    <3>10. verdicts' = (vs \o n) \o Joined(d, r)
      BY <3>8, <3>9, Zenon DEF Joined
    <3>11. s.news_windows = a.news_windows
      BY <1>1, <3>1 DEF Opened, Shaped, Fields
    <3>12. t.news_windows = s.news_windows
      BY <2>0, <3>2, <3>3, DrainedWindows
    <3>13. state'.news_windows = state.news_windows
      BY <1>1, <1>a, <3>4, <3>9, <3>11, <3>12 DEF Typed
    <3>14. NewsGiven(e, n)
      BY <2>0, <2>1, <2>5 DEF NewsGiven
    <3> QED BY <1>b, <2>2, <3>7, <3>10, <3>13, <3>14
  <2>6. \/ e.px = Bad
        \/ e.px # Bad /\ state' = a /\ verdicts' = vs \o n
        \/ /\ e.px # Bad
           /\ LET s == Opened(a, e)
                  t == Drained(s, e.order)
              IN  /\ state' = Booked(CheckRules(t), e)
                  /\ verdicts' = vs \o (n \o DrainVerdicts(s, e.order) \o RuleVerdicts(t))
    BY <1>0, <1>5, <2>1, Zenon DEF OrderFilled, Return
  <2> QED BY <2>3, <2>4, <2>5, <2>6
<1>6. CASE TradeClosed(e)
  <2>0. e.order \in Orders /\ e \in ClosesFor(e.order)
    BY <1>6, EngineAssumption DEF TradeClosed, ClosesFor
  <2>1. CASE state.positions[e.order] = None
    <3>1. PICK s : s = [a EXCEPT !.deferred_closes[e.order] = Append(@, e)]
      OBVIOUS
    <3>2. s.news_windows = a.news_windows
      BY <1>1, <3>1 DEF Shaped, Fields
    <3>3. state' = s /\ verdicts' = vs \o <<>>
      BY <1>0, <1>6, <2>1, <3>1 DEF TradeClosed, Return
    <3> QED BY <1>1, <1>c, <1>d, <3>2, <3>3
  <2>2. CASE state.positions[e.order] # None /\ e.px = Bad
    <3>1. state' = Booked(a, e) /\ verdicts' = vs \o <<>>
      BY <1>0, <1>6, <2>2 DEF TradeClosed, Return
    <3>2. state'.news_windows = state.news_windows
      BY <1>1, <1>a, <3>1
    <3> QED BY <1>c, <1>d, <3>1, <3>2
  <2>3. CASE state.positions[e.order] # None /\ e.px # Bad
    <3>1. PICK s : s = Settled(a, e)
      OBVIOUS
    <3>2. Typed(s) /\ s.day.date = a.day.date
      <4>1. a.positions[e.order] # None
        BY <1>1, <2>3 DEF SameBook
      <4> QED BY <1>1, <2>0, <2>3, <3>1, <4>1, SettledTyped
    <3>3. s.news_windows = a.news_windows
      BY <1>1, <3>1, SettledWindows
    <3>4. state' = Booked(CheckRules(s), e) /\ verdicts' = vs \o RuleVerdicts(s)
      BY <1>0, <1>6, <2>3, <3>1 DEF TradeClosed, Return
    <3>5. RuleVerdicts(s) \in Seq(Judged)
      BY <1>1, <1>2, <3>2, JudgedRules
    <3>6. state'.news_windows = state.news_windows
      BY <1>1, <1>a, <3>2, <3>3, <3>4 DEF Typed
    <3> QED BY <1>d, <3>4, <3>5, <3>6
  <2> QED BY <2>1, <2>2, <2>3
<1>7. CASE BalanceAdjustment(e)
  <2>1. PICK t, h : t = [a EXCEPT !.balance = @ + e.amount] /\ h = TrailedHwm(t)
    OBVIOUS
  <2>2. PICK s : s = [t EXCEPT !.hwm = h]
    OBVIOUS
  <2>3. Shaped(t) /\ t.news_windows = a.news_windows /\ t.day = a.day
    BY <1>1, <2>1 DEF Shaped, Fields
  <2>4. Shaped(s) /\ s.news_windows = a.news_windows /\ s.day = a.day
    BY <2>2, <2>3 DEF Shaped, Fields
  <2>5. \/ state' = a /\ verdicts' = vs \o <<>>
        \/ state' = Booked(CheckRules(s), e) /\ verdicts' = vs \o RuleVerdicts(s)
    BY <1>0, <1>7, <2>1, <2>2 DEF BalanceAdjustment, Return
  <2>6. RuleVerdicts(s) \in Seq(Judged)
    BY <1>1, <1>2, <2>4, JudgedRules
  <2>7. state'.news_windows = state.news_windows
    BY <1>1, <1>a, <2>4, <2>5
  <2>8. CASE verdicts' = vs \o <<>>
    BY <1>c, <1>d, <2>7, <2>8
  <2>9. CASE verdicts' = vs \o RuleVerdicts(s)
    BY <1>d, <2>6, <2>7, <2>9
  <2> QED BY <2>5, <2>8, <2>9
<1>8. CASE AccountStateReport(e)
  <2>1. state' = Booked(a, e) /\ verdicts' = vs \o <<>>
    BY <1>0, <1>8 DEF AccountStateReport, Return
  <2>2. state'.news_windows = state.news_windows
    BY <1>1, <1>a, <2>1
  <2> QED BY <1>c, <1>d, <2>1, <2>2
<1>9. CASE NewsWindow(e)
  <2>0. e.type = "news"
    BY <1>9 DEF NewsWindow
  <2>1. PICK s : s = [a EXCEPT !.news_windows = @ \cup {WindowOf(e)}]
    OBVIOUS
  <2>2. Shaped(s) /\ s.news_windows = state.news_windows \cup {WindowOf(e)}
    BY <1>1, <2>1 DEF Shaped, Fields
  <2>3. PICK v : v = Verdict(state, "NewsPrePositioned", "Flagged")
    OBVIOUS
  <2>4. \/ state' = s /\ verdicts' = vs \o <<>>
        \/ /\ InScope(e) /\ state' = Booked(s, e)
           /\ verdicts' = vs \o [i \in 1..Cardinality(Exposed(e)) |-> v]
    BY <1>0, <1>9, <2>1, <2>3, Zenon DEF NewsWindow, Return, InScope, Exposed, WindowOf
  <2>5. state'.news_windows \subseteq
          state.news_windows \cup (IF e.type = "news" THEN {WindowOf(e)} ELSE {})
    BY <1>a, <2>0, <2>2, <2>4
  <2>6. CASE verdicts' = vs \o <<>>
    <3>1. verdicts' = (vs \o <<>>) \o <<>>
      BY <1>c, <2>6, Zenon
    <3> QED BY <1>b, <1>c, <2>5, <3>1
  <2>7. CASE InScope(e) /\ verdicts' = vs \o [i \in 1..Cardinality(Exposed(e)) |-> v]
    <3>1. PICK n : n = [i \in 1..Cardinality(Exposed(e)) |-> v]
      OBVIOUS
    <3>2. Cardinality(Exposed(e)) \in Nat
      <4>1. IsFiniteSet(OpenOrders(state)) /\ Exposed(e) \in SUBSET OpenOrders(state)
        BY DEF Typed, Exposed, OpenOrders
      <4> QED BY <4>1, FS_Subset, FS_CardinalityType
    <3>3. v \in VerdictKinds /\ v.rule = "NewsPrePositioned"
      BY <1>2, <2>3 DEF Verdict, VerdictKinds
    <3>4. /\ n \in Seq(VerdictKinds) /\ Len(n) = Cardinality(Exposed(e))
          /\ \A i \in DOMAIN n : n[i].rule = "NewsPrePositioned"
      BY <3>1, <3>2, <3>3
    <3>5. NewsGiven(e, n)
      BY <2>0, <2>7, <3>4 DEF NewsGiven
    <3>6. vs \o n \in Seq(VerdictKinds)
      BY <1>2, <3>4, ConcatProperties
    <3>7. verdicts' = (vs \o n) \o <<>>
      BY <2>7, <3>1, <3>6, ConcatEmptySeq
    <3> QED BY <1>b, <1>c, <2>5, <3>4, <3>5, <3>7
  <2> QED BY <2>4, <2>6, <2>7
<1>10. CASE Rollover(e)
  <2>1. PICK h, q : h = TrailedHwm(state) /\ q = EquityOf(state)
    OBVIOUS
  <2>2. PICK s : s = [a EXCEPT !.day_counter = IF state.day.traded THEN @ + 1 ELSE @,
                               !.hwm = h, !.day = NewDay(e.date, q)]
    OBVIOUS
  <2>3. Shaped(s) /\ s.news_windows = a.news_windows
    BY <1>1, <2>2 DEF Shaped, Fields, DayFields, NewDay
  <2>4. PICK dv, rv : /\ dv = Verdict(state, "DailyMaxLoss", "Breach")
                      /\ rv = Verdict(state, "Rollover", "Info")
    OBVIOUS
  <2>5. dv \in Judged /\ rv \in Judged
    BY <1>2, <2>4 DEF Verdict, Judged, VerdictKinds, NewsKinds
  <2>6. PICK j : j = When(EodHit(state), dv) \o <<rv>>
    OBVIOUS
  <2>7. state' = Booked(s, e) /\ verdicts' = vs \o j
    BY <1>0, <1>10, <2>1, <2>2, <2>4, <2>6 DEF Rollover, Return
  <2>8. j \in Seq(Judged)
    <3>1. When(EodHit(state), dv) \in Seq(Judged) /\ <<rv>> \in Seq(Judged)
      BY <2>5 DEF When
    <3> QED BY <2>6, <3>1, ConcatProperties
  <2>9. state'.news_windows = state.news_windows
    BY <1>1, <1>a, <2>3, <2>7
  <2> QED BY <1>d, <2>7, <2>8, <2>9
<1> QED BY <1>3, <1>4, <1>5, <1>6, <1>7, <1>8, <1>9, <1>10 DEF Apply

-----------------------------------------------------------------------------
(* Each news verdict has a fill of its own *)

\* How often a rule is among the verdicts.
Times(vs, rule) == Cardinality({i \in DOMAIN vs : vs[i].rule = rule})

\* Fills and windows in force among the events as.
FillsIn(as) == {e \in as : e.type = "fill" /\ e.px # Bad}
WindowsIn(as) == {w \in as : w.type = "news" /\ InScope(w)}

\* What NewsRule and NewsPrePositioned verdicts may be given for.
Caught(as) ==
  {f \in FillsIn(as) : \E w \in WindowsIn(as) :
     w.symbol = f.symbol /\ w.start <= f.ts /\ f.ts <= w.end}
Overtaken(as) ==
  {t \in FillsIn(as) \X WindowsIn(as) : t[1].symbol = t[2].symbol /\ t[1].ts < t[2].start}

Backed(vs, as) ==
  /\ vs \in Seq(VerdictKinds)
  /\ Times(vs, "NewsRule") <= Cardinality(Caught(as))
  /\ Times(vs, "NewsPrePositioned") <= Cardinality(Overtaken(as))

\* What the account remembers stems from the events that took effect.
Stems(s, as) ==
  /\ IsFiniteSet(as) /\ as \subseteq Stream
  /\ s.seen_dedup_keys = {DedupKey(e) : e \in as}
  /\ \A w \in s.news_windows : \E e \in as : e.type = "news" /\ w = WindowOf(e)
  /\ \A o \in Orders : s.positions[o] # None =>
       \E f \in FillsIn(as) : f.order = o /\ s.positions[o] = PositionOf(f)

LEMMA TimesJoin ==
  ASSUME NEW vs \in Seq(VerdictKinds), NEW ws \in Seq(VerdictKinds), NEW r
  PROVE  /\ Times(vs, r) \in Nat /\ Len(ws) \in Nat
         /\ Times(vs \o ws, r) \in Nat
         /\ Times(vs \o ws, r) <= Times(vs, r) + Len(ws)
         /\ (\A i \in DOMAIN ws : ws[i].rule # r) => Times(vs \o ws, r) = Times(vs, r)
<1>1. PICK u : u = vs \o ws
  OBVIOUS
<1>2. PICK l \in Nat : l = Len(vs) /\ DOMAIN vs = 1..l
  BY LenProperties
<1>3. PICK m \in Nat : m = Len(ws) /\ DOMAIN ws = 1..m
  BY LenProperties
<1>4. /\ Len(u) = l + m /\ DOMAIN u = 1..(l + m)
      /\ \A i \in 1..l : u[i] = vs[i]
      /\ \A i \in (l + 1)..(l + m) : u[i] = ws[i - l]
  <2>1. u \in Seq(VerdictKinds) /\ Len(u) = l + m
    BY <1>1, <1>2, <1>3, ConcatProperties
  <2>2. DOMAIN u = 1..(l + m)
    BY <2>1, LenProperties
  <2> QED BY <1>1, <1>2, <1>3, <2>1, <2>2, ConcatProperties
<1>5. PICK A, B : /\ A = {i \in 1..l : vs[i].rule = r}
                  /\ B = {i \in (l + 1)..(l + m) : u[i].rule = r}
  OBVIOUS
<1>6. {i \in DOMAIN u : u[i].rule = r} = A \cup B
  BY <1>4, <1>5
<1>7. IsFiniteSet(A) /\ Cardinality(A) \in Nat
  <2>1. IsFiniteSet(1..l)
    BY FS_Interval
  <2>2. A \in SUBSET (1..l)
    BY <1>5
  <2> QED BY <2>1, <2>2, FS_Subset, FS_CardinalityType
<1>8. IsFiniteSet(B) /\ Cardinality(B) \in Nat /\ Cardinality(B) <= m
  <2>1. IsFiniteSet((l + 1)..(l + m)) /\ Cardinality((l + 1)..(l + m)) = m
    <3>1. l + 1 \in Int /\ l + m \in Int
      OBVIOUS
    <3> QED BY <3>1, FS_Interval
  <2>2. B \in SUBSET ((l + 1)..(l + m))
    BY <1>5
  <2> QED BY <2>1, <2>2, FS_Subset, FS_CardinalityType
<1>9. /\ Cardinality(A \cup B) \in Nat
      /\ Cardinality(A \cup B) <= Cardinality(A) + Cardinality(B)
  <2>1. IsFiniteSet(A \cup B) /\ IsFiniteSet(A \cap B)
        /\ Cardinality(A \cup B) = Cardinality(A) + Cardinality(B) - Cardinality(A \cap B)
    BY <1>7, <1>8, FS_Union, FS_Intersection
  <2>2. Cardinality(A \cap B) \in Nat /\ Cardinality(A \cup B) \in Nat
    BY <2>1, FS_CardinalityType
  <2> QED BY <1>7, <1>8, <2>1, <2>2
<1>10. Times(vs, r) = Cardinality(A) /\ Times(vs \o ws, r) = Cardinality(A \cup B)
  BY <1>1, <1>2, <1>5, <1>6 DEF Times
<1>11. (\A i \in DOMAIN ws : ws[i].rule # r) => A \cup B = A
  <2> SUFFICES ASSUME \A i \in DOMAIN ws : ws[i].rule # r PROVE B = {}
    OBVIOUS
  <2>1. ASSUME NEW i \in (l + 1)..(l + m) PROVE u[i].rule # r
    <3>1. PICK k \in 1..m : k = i - l
      OBVIOUS
    <3>2. u[i] = ws[k]
      BY <1>4, <3>1
    <3> QED BY <1>3, <3>2
  <2> QED BY <1>5, <2>1
<1>12. Cardinality(A \cup B) <= Cardinality(A) + m
  <2>1. PICK a, b, c : a = Cardinality(A) /\ b = Cardinality(B) /\ c = Cardinality(A \cup B)
    OBVIOUS
  <2>2. a \in Nat /\ b \in Nat /\ c \in Nat /\ b <= m /\ c <= a + b
    BY <1>7, <1>8, <1>9, <2>1
  <2> QED BY <2>1, <2>2
<1> QED BY <1>3, <1>7, <1>9, <1>10, <1>11, <1>12

\* More events, more causes.
LEMMA CausesGrow ==
  ASSUME NEW as, NEW e, IsFiniteSet(as)
  PROVE  /\ Caught(as) \subseteq Caught(as \cup {e}) /\ Overtaken(as) \subseteq Overtaken(as \cup {e})
         /\ IsFiniteSet(Caught(as)) /\ IsFiniteSet(Caught(as \cup {e}))
         /\ IsFiniteSet(Overtaken(as)) /\ IsFiniteSet(Overtaken(as \cup {e}))
         /\ Cardinality(Caught(as)) \in Nat /\ Cardinality(Caught(as \cup {e})) \in Nat
         /\ Cardinality(Overtaken(as)) \in Nat /\ Cardinality(Overtaken(as \cup {e})) \in Nat
         /\ Cardinality(Caught(as)) <= Cardinality(Caught(as \cup {e}))
         /\ Cardinality(Overtaken(as)) <= Cardinality(Overtaken(as \cup {e}))
<1>1. FillsIn(as) \subseteq FillsIn(as \cup {e}) /\ WindowsIn(as) \subseteq WindowsIn(as \cup {e})
  BY DEF FillsIn, WindowsIn
<1>2. Caught(as) \subseteq Caught(as \cup {e})
  BY <1>1 DEF Caught
<1>3. Overtaken(as) \subseteq Overtaken(as \cup {e})
  BY <1>1 DEF Overtaken
<1>4. ASSUME NEW bs, IsFiniteSet(bs)
      PROVE  /\ IsFiniteSet(Caught(bs)) /\ IsFiniteSet(Overtaken(bs))
             /\ Cardinality(Caught(bs)) \in Nat /\ Cardinality(Overtaken(bs)) \in Nat
  <2>1. Caught(bs) \in SUBSET bs
    BY DEF Caught, FillsIn
  <2>2. Overtaken(bs) \in SUBSET (bs \X bs)
    BY DEF Overtaken, FillsIn, WindowsIn
  <2>3. IsFiniteSet(bs \X bs)
    BY <1>4, FS_Product
  <2>4. IsFiniteSet(Caught(bs)) /\ IsFiniteSet(Overtaken(bs))
    BY <1>4, <2>1, <2>2, <2>3, FS_Subset
  <2> QED BY <2>4, FS_CardinalityType
<1>5. IsFiniteSet(as \cup {e})
  BY FS_AddElement
<1>6. /\ IsFiniteSet(Caught(as)) /\ IsFiniteSet(Caught(as \cup {e}))
      /\ IsFiniteSet(Overtaken(as)) /\ IsFiniteSet(Overtaken(as \cup {e}))
      /\ Cardinality(Caught(as)) \in Nat /\ Cardinality(Caught(as \cup {e})) \in Nat
      /\ Cardinality(Overtaken(as)) \in Nat /\ Cardinality(Overtaken(as \cup {e})) \in Nat
  BY <1>4, <1>5
<1>7. /\ Cardinality(Caught(as)) <= Cardinality(Caught(as \cup {e}))
      /\ Cardinality(Overtaken(as)) <= Cardinality(Overtaken(as \cup {e}))
  BY <1>2, <1>3, <1>6, FS_Subset
<1> QED BY <1>2, <1>3, <1>6, <1>7

\* A fill inside a recorded window is a cause of its own.
LEMMA FillCaught ==
  ASSUME NEW as, NEW e, Stems(state, as), e \notin as,
         e.type = "fill", e.px # Bad, NewsVerdicts(e) # <<>>
  PROVE  Cardinality(Caught(as)) + 1 <= Cardinality(Caught(as \cup {e}))
<1>0. IsFiniteSet(as)
  BY DEF Stems
<1>1. PICK w \in state.news_windows :
        /\ pack.news.enabled /\ SymbolInScope(pack.news, e.symbol)
        /\ w.symbol = e.symbol /\ TierInScope(pack.news, w.tier)
        /\ w.start <= e.ts /\ e.ts <= w.end
  BY DEF NewsVerdicts, When
<1>2. PICK x \in as : x.type = "news" /\ w = WindowOf(x)
  BY DEF Stems
<1>3. x.symbol = w.symbol /\ x.tier = w.tier /\ x.start = w.start /\ x.end = w.end
  BY <1>2 DEF WindowOf
<1>4. x \in WindowsIn(as \cup {e})
  BY <1>1, <1>2, <1>3 DEF WindowsIn, InScope
<1>5. e \in Caught(as \cup {e})
  BY <1>1, <1>3, <1>4 DEF Caught, FillsIn
<1>6. e \notin Caught(as)
  BY DEF Caught, FillsIn
<1>7. Caught(as) \cup {e} \in SUBSET Caught(as \cup {e})
  BY <1>0, <1>5, CausesGrow
<1>8. /\ IsFiniteSet(Caught(as)) /\ IsFiniteSet(Caught(as \cup {e}))
      /\ Cardinality(Caught(as)) \in Nat
  BY <1>0, CausesGrow
<1>9. Cardinality(Caught(as) \cup {e}) = Cardinality(Caught(as)) + 1
  BY <1>6, <1>8, FS_AddElement
<1>10. Cardinality(Caught(as) \cup {e}) <= Cardinality(Caught(as \cup {e}))
  BY <1>7, <1>8, FS_Subset
<1> QED BY <1>9, <1>10

\* A window in scope gives each open order it overtakes a cause of its own: the
\* fill that opened the order, with the window.
LEMMA OrdersOvertaken ==
  ASSUME NEW as, NEW e, Stems(state, as), e \notin as, e.type = "news", InScope(e)
  PROVE  /\ Cardinality(Exposed(e)) \in Nat
         /\ Cardinality(Overtaken(as)) + Cardinality(Exposed(e)) <= Cardinality(Overtaken(as \cup {e}))
<1>0. IsFiniteSet(as)
  BY DEF Stems
<1>1. PICK N : N = {t \in Overtaken(as \cup {e}) : t[2] = e}
  OBVIOUS
<1>2. PICK F : F = [o \in Exposed(e) |-> CHOOSE f \in FillsIn(as) : f.order = o /\ state.positions[o] = PositionOf(f)]
  OBVIOUS
<1>3. ASSUME NEW o \in Exposed(e)
      PROVE  F[o] \in FillsIn(as) /\ F[o].order = o /\ <<F[o], e>> \in N
  <2>1. o \in Orders /\ state.positions[o] # None
    BY DEF Exposed
  <2>2. \E f \in FillsIn(as) : f.order = o /\ state.positions[o] = PositionOf(f)
    BY <2>1 DEF Stems
  <2>3. PICK f : f = F[o]
    OBVIOUS
  <2>4. f \in FillsIn(as) /\ f.order = o /\ state.positions[o] = PositionOf(f)
    BY <1>2, <2>2, <2>3
  <2>5. state.positions[o].symbol = f.symbol /\ state.positions[o].opened_ts = f.ts
    BY <2>4 DEF PositionOf
  <2>6. f.symbol = e.symbol /\ f.ts < e.start
    BY <2>5 DEF Exposed
  <2>7. f \in FillsIn(as \cup {e}) /\ e \in WindowsIn(as \cup {e})
    BY <2>4 DEF FillsIn, WindowsIn
  <2>8. <<f, e>> \in Overtaken(as \cup {e})
    BY <2>6, <2>7 DEF Overtaken
  <2> QED BY <1>1, <2>3, <2>4, <2>8
<1>4. PICK G : G = [o \in Exposed(e) |-> <<F[o], e>>]
  OBVIOUS
<1>5. G \in Injection(Exposed(e), N)
  <2>1. G \in [Exposed(e) -> N]
    BY <1>3, <1>4
  <2>2. \A o, q \in Exposed(e) : G[o] = G[q] => o = q
    <3> SUFFICES ASSUME NEW o \in Exposed(e), NEW q \in Exposed(e), G[o] = G[q] PROVE o = q
      OBVIOUS
    <3>1. F[o] = F[q]
      BY <1>4
    <3> QED BY <1>3, <3>1
  <2> QED BY <2>1, <2>2 DEF Injection, IsInjective
<1>6. /\ IsFiniteSet(Overtaken(as)) /\ IsFiniteSet(Overtaken(as \cup {e}))
      /\ Overtaken(as) \subseteq Overtaken(as \cup {e}) /\ Cardinality(Overtaken(as)) \in Nat
  BY <1>0, CausesGrow
<1>7. IsFiniteSet(N) /\ Cardinality(N) \in Nat
  <2>1. N \in SUBSET Overtaken(as \cup {e})
    BY <1>1
  <2> QED BY <1>6, <2>1, FS_Subset, FS_CardinalityType
<1>8. IsFiniteSet(Exposed(e)) /\ Cardinality(Exposed(e)) \in Nat /\ Cardinality(Exposed(e)) <= Cardinality(N)
  BY <1>5, <1>7, FS_Injection, FS_CardinalityType
<1>9. Overtaken(as) \cap N = {}
  BY <1>1 DEF Overtaken, WindowsIn
<1>10. Cardinality(Overtaken(as) \cup N) = Cardinality(Overtaken(as)) + Cardinality(N)
  <2>1. PICK O : O = Overtaken(as)
    OBVIOUS
  <2>2. IsFiniteSet(O) /\ O \cap N = {} /\ Cardinality(O) \in Nat
    BY <1>6, <1>9, <2>1
  <2>3. Cardinality(O \cup N) = Cardinality(O) + Cardinality(N) - Cardinality({})
    BY <1>7, <2>2, FS_Union
  <2>4. Cardinality(O \cup N) = Cardinality(O) + Cardinality(N)
    BY <1>7, <2>2, <2>3, FS_EmptySet
  <2> QED BY <2>1, <2>4
<1>11. Cardinality(Overtaken(as) \cup N) <= Cardinality(Overtaken(as \cup {e}))
  <2>1. Overtaken(as) \cup N \in SUBSET Overtaken(as \cup {e})
    BY <1>1, <1>6
  <2> QED BY <1>6, <2>1, FS_Subset
<1>12. Cardinality(Overtaken(as \cup {e})) \in Nat
  BY <1>6, FS_CardinalityType
<1>13. PICK a, x, n, b : /\ a = Cardinality(Overtaken(as)) /\ x = Cardinality(Exposed(e))
                         /\ n = Cardinality(N) /\ b = Cardinality(Overtaken(as \cup {e}))
  OBVIOUS
<1>14. a \in Nat /\ x \in Nat /\ n \in Nat /\ b \in Nat /\ x <= n /\ a + n <= b
  BY <1>6, <1>7, <1>8, <1>10, <1>11, <1>12, <1>13
<1>15. a + x <= b
  BY <1>14
<1> QED BY <1>13, <1>14, <1>15

\* One event keeps what the account remembers among the events that took effect.
LEMMA StemsStep ==
  ASSUME Typed(state), GivenTo(verdicts, state), Stems(state, applied),
         NEW e \in Stream, Apply(e), Fresh(e)
  PROVE  /\ Stems(state', applied') /\ e \notin applied
         /\ applied' = applied \cup {e} /\ pack' = pack
<1>1. /\ applied' = applied \cup {e} /\ pack' = pack
      /\ state'.seen_dedup_keys = state.seen_dedup_keys \cup {DedupKey(e)}
  <2>1. ~UNCHANGED vars
    <3>1. ASSUME UNCHANGED vars PROVE FALSE
      <4>1. ~Duplicate(e)
        BY DEF Duplicate
      <4>2. state'.seen_dedup_keys # state.seen_dedup_keys
        <5>1. applied' = applied \cup {e}
          BY <4>1 DEF Apply, Mark, OrderFilled, TradeClosed, BalanceAdjustment,
                      AccountStateReport, NewsWindow, Rollover, Return
        <5>2. e \in applied
          BY <3>1, <5>1 DEF vars
        <5> QED BY <5>2 DEF Stems, Fresh
      <4> QED BY <3>1, <4>2 DEF vars
    <3> QED BY <3>1
  <2> QED BY <2>1, AppliedAndSeen
<1>2. e \notin applied
  BY DEF Stems, Fresh
<1>3. IsFiniteSet(applied') /\ applied' \subseteq Stream
  BY <1>1, FS_AddElement DEF Stems
<1>4. state'.seen_dedup_keys = {DedupKey(x) : x \in applied'}
  BY <1>1 DEF Stems
<1>5. \A w \in state'.news_windows : \E x \in applied' : x.type = "news" /\ w = WindowOf(x)
  <2> SUFFICES ASSUME NEW w \in state'.news_windows
               PROVE  \E x \in applied' : x.type = "news" /\ w = WindowOf(x)
    OBVIOUS
  <2>1. state'.news_windows \subseteq
          state.news_windows \cup (IF e.type = "news" THEN {WindowOf(e)} ELSE {})
    BY NewsStep
  <2>2. CASE w \in state.news_windows
    BY <1>1, <2>2 DEF Stems
  <2>3. CASE w \notin state.news_windows
    <3>1. e.type = "news" /\ w = WindowOf(e)
      BY <2>1, <2>3
    <3> QED BY <1>1, <3>1
  <2> QED BY <2>2, <2>3
<1>6. \A o \in Orders : state'.positions[o] # None =>
        \E f \in FillsIn(applied') : f.order = o /\ state'.positions[o] = PositionOf(f)
  <2> SUFFICES ASSUME NEW o \in Orders, state'.positions[o] # None
               PROVE  \E f \in FillsIn(applied') : f.order = o /\ state'.positions[o] = PositionOf(f)
    OBVIOUS
  <2>1. FillsIn(applied) \subseteq FillsIn(applied')
    BY <1>1 DEF FillsIn
  <2>2. CASE state'.positions[o] = state.positions[o]
    BY <2>1, <2>2 DEF Stems
  <2>3. CASE state'.positions[o] # state.positions[o]
    <3>1. \/ /\ e.type = "close" /\ e.order \in Orders
             /\ state'.positions = [state.positions EXCEPT ![e.order] = None]
          \/ /\ e.type = "fill" /\ e.px # Bad /\ e.order \in Orders
             /\ state'.positions = [state.positions EXCEPT ![e.order] = PositionOf(e)]
      <4>1. BookStepOf(e)
        BY BookStep
      <4>2. CASE Untouched(e) \/ Adjusted(e) \/ Deferred(e)
        BY <2>3, <4>2 DEF Untouched, Adjusted, Deferred
      <4>3. CASE ClosedNow(e)
        BY <4>3, EngineAssumption DEF ClosedNow
      <4>4. CASE OpenedNow(e)
        BY <4>4, EngineAssumption DEF OpenedNow
      <4>5. CASE \E c \in Stream : DrainedNow(e, c)
        BY <2>3, <4>5 DEF DrainedNow
      <4> QED BY <4>1, <4>2, <4>3, <4>4, <4>5 DEF BookStepOf
    <3>2. DOMAIN state.positions = Orders
      BY DEF Typed, Shaped
    <3>3. CASE state'.positions = [state.positions EXCEPT ![e.order] = None]
      BY <2>3, <3>2, <3>3
    <3>4. CASE /\ e.type = "fill" /\ e.px # Bad
               /\ state'.positions = [state.positions EXCEPT ![e.order] = PositionOf(e)]
      <4>1. e.order = o /\ state'.positions[o] = PositionOf(e)
        BY <2>3, <3>2, <3>4
      <4>2. e \in FillsIn(applied')
        BY <1>1, <3>4 DEF FillsIn
      <4> QED BY <4>1, <4>2
    <3> QED BY <3>1, <3>3, <3>4
  <2> QED BY <2>2, <2>3
<1> QED BY <1>1, <1>2, <1>3, <1>4, <1>5, <1>6 DEF Stems

\* The verdicts an event gives about news are paid for by what it brings.
LEMMA BackedStep ==
  ASSUME Typed(state), GivenTo(verdicts, state), Stems(state, applied), Backed(verdicts, applied),
         NEW e \in Stream, Apply(e), Fresh(e)
  PROVE  Backed(verdicts', applied')
<1>1. applied' = applied \cup {e} /\ e \notin applied
  BY StemsStep
<1>2. PICK n \in Seq(VerdictKinds) : \E j \in Seq(Judged) :
        verdicts' = (verdicts \o n) \o j /\ NewsGiven(e, n)
  BY NewsStep
<1>3. PICK j \in Seq(Judged) : verdicts' = (verdicts \o n) \o j /\ NewsGiven(e, n)
  BY <1>2
<1>4. PICK vs, w : vs = verdicts /\ w = vs \o n
  OBVIOUS
<1>5. vs \in Seq(VerdictKinds) /\ w \in Seq(VerdictKinds) /\ j \in Seq(VerdictKinds)
  <2>1. vs \in Seq(VerdictKinds)
    BY <1>4 DEF Backed
  <2>2. Judged \subseteq VerdictKinds
    BY DEF Judged
  <2>3. j \in Seq(VerdictKinds)
    BY <2>2, SeqMonotonic
  <2> QED BY <1>4, <2>1, <2>3, ConcatProperties
<1>6. w \o j \in Seq(VerdictKinds) /\ verdicts' = w \o j
  BY <1>3, <1>4, <1>5, ConcatProperties
<1>7. \A i \in DOMAIN j : j[i].rule # "NewsRule" /\ j[i].rule # "NewsPrePositioned"
  <2>1. \A i \in DOMAIN j : j[i] \in Judged
    BY ElementOfSeq, LenProperties
  <2> QED BY <2>1 DEF Judged, NewsKinds
<1>8. /\ Times(w \o j, "NewsRule") = Times(w, "NewsRule")
      /\ Times(w \o j, "NewsPrePositioned") = Times(w, "NewsPrePositioned")
  BY <1>5, <1>7, TimesJoin
<1>9. PICK a, b, k, l : /\ a = Times(vs, "NewsRule") /\ b = Times(vs, "NewsPrePositioned")
                        /\ k = Times(w, "NewsRule") /\ l = Times(w, "NewsPrePositioned")
  OBVIOUS
<1>10. PICK c, d, c2, d2 : /\ c = Cardinality(Caught(applied)) /\ d = Cardinality(Overtaken(applied))
                           /\ c2 = Cardinality(Caught(applied \cup {e}))
                           /\ d2 = Cardinality(Overtaken(applied \cup {e}))
  OBVIOUS
<1>11. /\ c \in Nat /\ d \in Nat /\ c2 \in Nat /\ d2 \in Nat /\ c <= c2 /\ d <= d2
       /\ a <= c /\ b <= d
  <2>1. IsFiniteSet(applied)
    BY DEF Stems
  <2>2. a <= c /\ b <= d
    BY <1>4, <1>9, <1>10 DEF Backed
  <2> QED BY <1>10, <2>1, <2>2, CausesGrow
<1>12. /\ a \in Nat /\ b \in Nat /\ k \in Nat /\ l \in Nat /\ Len(n) \in Nat
       /\ k <= a + Len(n) /\ l <= b + Len(n)
       /\ (\A i \in DOMAIN n : n[i].rule # "NewsRule") => k = a
       /\ (\A i \in DOMAIN n : n[i].rule # "NewsPrePositioned") => l = b
  <2>1. vs \in Seq(VerdictKinds) /\ n \in Seq(VerdictKinds)
    BY <1>5
  <2>2. w = vs \o n
    BY <1>4
  <2> QED BY <1>9, <2>1, <2>2, TimesJoin
<1>13. k <= c2 /\ l <= d2
  <2>1. CASE n = <<>>
    <3>1. k = a /\ l = b
      BY <1>12, <2>1
    <3> QED BY <1>11, <1>12, <3>1
  <2>2. CASE n # <<>> /\ e.type = "fill" /\ e.px # Bad /\ n = NewsVerdicts(e)
    <3>1. Len(n) = 1 /\ \A i \in DOMAIN n : n[i].rule = "NewsRule"
      BY <2>2 DEF NewsVerdicts, When, Verdict
    <3>2. c + 1 <= c2
      BY <1>1, <1>10, <2>2, FillCaught
    <3>3. l = b /\ k <= a + 1
      BY <1>12, <3>1
    <3> QED BY <1>11, <1>12, <3>2, <3>3
  <2>3. CASE /\ e.type = "news" /\ InScope(e) /\ Len(n) = Cardinality(Exposed(e))
             /\ \A i \in DOMAIN n : n[i].rule = "NewsPrePositioned"
    <3>1. d + Len(n) <= d2
      BY <1>1, <1>10, <2>3, OrdersOvertaken
    <3>2. k = a /\ l <= b + Len(n)
      BY <1>12, <2>3
    <3> QED BY <1>11, <1>12, <3>1, <3>2
  <2> QED BY <1>3, <2>1, <2>2, <2>3 DEF NewsGiven
<1> QED BY <1>1, <1>6, <1>8, <1>9, <1>10, <1>13 DEF Backed

\* The whole invariant of the verdict list.
Earned ==
  /\ Sound(state) /\ GivenTo(verdicts, state) /\ pack.min_trading_days \in Nat
  /\ Stems(state, applied) /\ Backed(verdicts, applied)

LEMMA EarnedInit == ASSUME Init PROVE Earned
<1>1. PICK p \in Packs : pack = Compile(p)
  BY DEF Init
<1>2. pack.min_trading_days = p.min_trading_days /\ p.min_trading_days \in Nat
  BY <1>1, EngineAssumption DEF Compile, RulePacks
<1>3. /\ state.day.date = InitialDay /\ state.day.daily_breached = FALSE
      /\ state.overall_breached = FALSE /\ state.target_reached = FALSE
      /\ state.day_counter = 0 /\ state.seen_dedup_keys = {} /\ state.news_windows = {}
      /\ state.positions = [o \in Orders |-> None]
      /\ verdicts = <<>> /\ applied = {}
  BY DEF Init, NewAccount, NewDay
<1>4. verdicts \in Seq(VerdictKinds) /\ DOMAIN verdicts = {} /\ Len(verdicts) = 0
  BY <1>3
<1>5. Cardinality(Rolls(verdicts, Len(verdicts))) = 0
  <2>1. Rolls(verdicts, Len(verdicts)) = {}
    BY <1>4 DEF Rolls
  <2> QED BY <2>1, FS_EmptySet
<1>6. GivenTo(verdicts, state)
  <2>1. state.day.date \in Days /\ state.day_counter \in Nat
    BY <1>3 DEF Days
  <2>2. state.day_counter <= Cardinality(Rolls(verdicts, Len(verdicts)))
    BY <1>3, <1>5
  <2> QED BY <1>3, <1>4, <2>1, <2>2 DEF GivenTo, Given, OnceEach
<1>7. Stems(state, applied)
  BY <1>3, FS_EmptySet DEF Stems
<1>8. Backed(verdicts, applied)
  <2>1. Caught(applied) = {} /\ Overtaken(applied) = {}
    BY <1>3 DEF Caught, Overtaken, FillsIn, WindowsIn
  <2>2. \A r : Times(verdicts, r) = 0
    <3> SUFFICES ASSUME NEW r PROVE Times(verdicts, r) = 0
      OBVIOUS
    <3>1. {i \in DOMAIN verdicts : verdicts[i].rule = r} = {}
      BY <1>4
    <3> QED BY <3>1, FS_EmptySet DEF Times
  <2> QED BY <1>4, <2>1, <2>2, FS_EmptySet DEF Backed
<1> QED BY <1>2, <1>6, <1>7, <1>8, NewAccountSound DEF Earned

LEMMA EarnedStep == ASSUME Earned, [Next]_vars PROVE Earned'
<1> USE DEF Earned
<1>1. Sound(state)'
  BY SoundStep
<1>2. CASE UNCHANGED vars
  BY <1>1, <1>2 DEF vars, GivenTo, Given, Stems, Backed, Caught, Overtaken, FillsIn, WindowsIn, InScope
<1>3. CASE ~UNCHANGED vars
  <2>1. PICK e \in Stream : Apply(e)
    BY <1>3 DEF Next
  <2>2. Typed(state)
    BY DEF Sound
  <2>3. Fresh(e)
    BY <1>3, <2>1, <2>2, AppliedAndSeen
  <2>4. GivenTo(verdicts', state')
    BY <2>1, <2>2, GivenStep
  <2>5. Stems(state', applied') /\ pack' = pack
    BY <2>1, <2>2, <2>3, StemsStep
  <2>6. Backed(verdicts', applied')
    BY <2>1, <2>2, <2>3, BackedStep
  <2>7. GivenTo(verdicts, state)'
    BY <2>4, <2>5 DEF GivenTo, Given
  <2>8. Backed(verdicts, applied)'
    BY <2>5, <2>6 DEF Backed, Caught, Overtaken, FillsIn, WindowsIn, InScope
  <2>9. Stems(state, applied)'
    BY <2>5 DEF Stems
  <2> QED BY <1>1, <2>5, <2>7, <2>8, <2>9
<1> QED BY <1>2, <1>3

\* The invariant says what the property counts.
LEMMA EarnedIs == ASSUME FirstDayApart, Earned PROVE VerdictsEarned
<1>1. VerdictsOnce
  BY DEF Earned, GivenTo, Given, OnceEach, VerdictsOnce
<1>2. TargetEarned
  <2>1. \A i \in DOMAIN verdicts : verdicts[i].rule = "ProfitTarget" =>
          Cardinality(Rolls(verdicts, i)) >= pack.min_trading_days
    BY DEF Earned, GivenTo, Given
  <2> QED BY <2>1 DEF Rolls, TargetEarned
<1>3. NewsVerdictsBacked
  <2>1. UNION {FillsOf(o) : o \in Orders} = FillsIn(applied)
    BY EngineAssumption DEF FillsOf, FillsIn, Earned, Stems
  <2>2. {w \in applied : /\ w.type = "news" /\ pack.news.enabled
                         /\ SymbolInScope(pack.news, w.symbol)
                         /\ TierInScope(pack.news, w.tier)} = WindowsIn(applied)
    BY DEF WindowsIn, InScope
  <2>3. Times(verdicts, "NewsRule") <= Cardinality(Caught(applied))
        /\ Times(verdicts, "NewsPrePositioned") <= Cardinality(Overtaken(applied))
    BY DEF Earned, Backed
  <2> QED BY <2>1, <2>2, <2>3 DEF NewsVerdictsBacked, Times, Caught, Overtaken
<1> QED BY <1>1, <1>2, <1>3 DEF VerdictsEarned

\* For every stream without a rollover into the account's first day, and every
\* pack: overall loss and target are reported once, daily loss and rollover once a
\* day; the target only after its trading days; and each news verdict has a fill
\* of its own that a delivered window in scope caught or overtook.
THEOREM VerdictsAreEarned ==
  ASSUME FirstDayApart
  PROVE  Spec => []VerdictsEarned
<1>1. Init => Earned
  BY EarnedInit
<1>2. Earned /\ [Next]_vars => Earned'
  BY EarnedStep
<1>3. Earned => VerdictsEarned
  BY EarnedIs
<1> QED BY <1>1, <1>2, <1>3, PTL DEF Spec

-----------------------------------------------------------------------------
(* Types, for every stream *)

\* What the invariant says of types.
LEMMA EarnedTyped == ASSUME Earned PROVE TypeOK
<1>1. Typed(state)
  BY DEF Earned, Sound
<1>2. \A o \in Orders : state.deferred_closes[o] \in Seq(Stream)
  <2> SUFFICES ASSUME NEW o \in Orders PROVE state.deferred_closes[o] \in Seq(Stream)
    OBVIOUS
  <2>1. ClosesFor(o) \subseteq Stream
    BY DEF ClosesFor
  <2>2. state.deferred_closes[o] \in Seq(ClosesFor(o))
    BY <1>1 DEF Typed
  <2> QED BY <2>1, <2>2, SeqMonotonic
<1>3. \A i \in DOMAIN verdicts : verdicts[i].status \in {"Breach", "Flagged", "TargetReached", "Info"}
  <2>1. verdicts \in Seq(VerdictKinds)
    BY DEF Earned, Backed
  <2>2. \A i \in DOMAIN verdicts : verdicts[i] \in VerdictKinds
    BY <2>1, ElementOfSeq, LenProperties
  <2> QED BY <2>2 DEF VerdictKinds
<1>4. applied \subseteq Stream /\ state.seen_dedup_keys = {DedupKey(e) : e \in applied}
  BY DEF Earned, Stems
<1> QED BY <1>1, <1>2, <1>3, <1>4 DEF TypeOK, Typed

\* For every stream, pack and order of delivery the account record, the verdicts
\* and the history are well typed, and the account has seen exactly the keys of the
\* events that took effect.
THEOREM AccountIsTyped == Spec => []TypeOK
<1>1. Init => Earned
  BY EarnedInit
<1>2. Earned /\ [Next]_vars => Earned'
  BY EarnedStep
<1>3. Earned => TypeOK
  BY EarnedTyped
<1> QED BY <1>1, <1>2, <1>3, PTL DEF Spec

-----------------------------------------------------------------------------
(* Book, balance and mismatch alerts are those of the deals that took effect *)

\* An order is opened by one deal and closed by one.
OneDealEach ==
  \A e, f \in Stream :
    e.type = f.type /\ e.type \in {"fill", "close"} /\ e.order = f.order => e.deal = f.deal

AdjustmentsIn(as) == {e \in as : e.type = "adjustment" /\ e.amount # Bad}
ClosesIn(as) == {e \in as : e.type = "close" /\ e.px # Bad}
FillsAt(o, as) == {e \in FillsIn(as) : e.order = o}
ClosesAt(o, as) == {e \in ClosesIn(as) : e.order = o}
TripsIn(as) == {t \in FillsIn(as) \X ClosesIn(as) : t[1].order = t[2].order}

Gain(f, c) == Pnl(PositionOf(f), c.px) + OrZero(c.fee)

Amounts == [e \in Stream |-> e.amount]
Comms == [e \in Stream |-> OrZero(e.comm)]
Gains == [t \in Stream \X Stream |-> Gain(t[1], t[2])]

Ledger(as) ==
  Total(Amounts, AdjustmentsIn(as)) + Total(Comms, FillsIn(as)) + Total(Gains, TripsIn(as))

\* The closes in a buffer that have a price.
Priced(q) == {q[i] : i \in Parsed(q)}

\* Position pos and deferred closes q of order o against the deals among as.
Paired(pos, q, o, as) ==
  /\ \A f, g \in FillsAt(o, as) : f = g
  /\ \A c, d \in ClosesAt(o, as) : c = d
  /\ pos # None <=> FillsAt(o, as) # {} /\ ClosesAt(o, as) = {}
  /\ pos # None => \A f \in FillsAt(o, as) : pos = PositionOf(f)
  /\ FillsAt(o, as) = {} => Priced(q) = ClosesAt(o, as)

DoubtedIn(as) == UNION {Doubted(PositionOf(t[1]), t[2]) : t \in TripsIn(as)}

Accounted(s, as, al) ==
  /\ \A o \in Orders : Paired(s.positions[o], s.deferred_closes[o], o, as)
  /\ s.balance = pack.start_balance + Ledger(as)
  /\ Mismatched(al) = DoubtedIn(as)

\* The sums of a finite part of the stream are integers.
LEMMA LedgerInts ==
  ASSUME NEW as, IsFiniteSet(as), as \subseteq Stream
  PROVE  /\ IsFiniteSet(AdjustmentsIn(as)) /\ IsFiniteSet(FillsIn(as)) /\ IsFiniteSet(TripsIn(as))
         /\ \A e \in AdjustmentsIn(as) : Amounts[e] \in Int /\ Amounts[e] = e.amount
         /\ \A e \in FillsIn(as) : Comms[e] \in Int /\ Comms[e] = OrZero(e.comm)
         /\ \A t \in TripsIn(as) : Gains[t] \in Int /\ Gains[t] = Gain(t[1], t[2])
         /\ Total(Amounts, AdjustmentsIn(as)) \in Int
         /\ Total(Comms, FillsIn(as)) \in Int
         /\ Total(Gains, TripsIn(as)) \in Int
<1>1. IsFiniteSet(AdjustmentsIn(as)) /\ IsFiniteSet(FillsIn(as)) /\ IsFiniteSet(TripsIn(as))
  <2>1. AdjustmentsIn(as) \in SUBSET as /\ FillsIn(as) \in SUBSET as /\ ClosesIn(as) \in SUBSET as
    BY DEF AdjustmentsIn, FillsIn, ClosesIn
  <2>2. IsFiniteSet(AdjustmentsIn(as)) /\ IsFiniteSet(FillsIn(as)) /\ IsFiniteSet(ClosesIn(as))
    BY <2>1, FS_Subset
  <2>3. IsFiniteSet(FillsIn(as) \X ClosesIn(as))
    BY <2>2, FS_Product
  <2>4. TripsIn(as) \in SUBSET (FillsIn(as) \X ClosesIn(as))
    BY DEF TripsIn
  <2> QED BY <2>2, <2>3, <2>4, FS_Subset
<1>2. \A e \in AdjustmentsIn(as) : Amounts[e] \in Int /\ Amounts[e] = e.amount
  BY EngineAssumption DEF AdjustmentsIn, Amounts
<1>3. \A e \in FillsIn(as) : Comms[e] \in Int /\ Comms[e] = OrZero(e.comm)
  <2> SUFFICES ASSUME NEW e \in FillsIn(as) PROVE Comms[e] \in Int /\ Comms[e] = OrZero(e.comm)
    OBVIOUS
  <2>1. e \in Stream /\ e.type = "fill"
    BY DEF FillsIn
  <2>2. e.comm \in Int \cup {Bad}
    BY <2>1, EngineAssumption
  <2>3. OrZero(e.comm) \in Int
    BY <2>2 DEF OrZero
  <2>4. Comms[e] = OrZero(e.comm)
    BY <2>1 DEF Comms
  <2> QED BY <2>3, <2>4
<1>4. ASSUME NEW t \in TripsIn(as)
      PROVE  Gains[t] \in Int /\ Gains[t] = Gain(t[1], t[2])
  <2>1. PICK f, c : f = t[1] /\ c = t[2]
    OBVIOUS
  <2>2. /\ f \in Stream /\ c \in Stream /\ f.type = "fill" /\ f.px # Bad /\ c.type = "close" /\ c.px # Bad
        /\ t \in Stream \X Stream
    BY <2>1 DEF TripsIn, FillsIn, ClosesIn
  <2>3. PositionOf(f) \in Positions
    BY <2>2, EngineAssumption DEF PositionOf, Positions
  <2>4. c.px \in Int /\ OrZero(c.fee) \in Int
    BY <2>2, EngineAssumption DEF OrZero
  <2>5. Pnl(PositionOf(f), c.px) \in Int
    BY <2>3, <2>4, PnlInt
  <2>6. Gain(f, c) \in Int
    BY <2>4, <2>5 DEF Gain
  <2>7. Gains[t] = Gain(t[1], t[2])
    BY <2>2 DEF Gains
  <2> QED BY <2>1, <2>6, <2>7
<1>5. Total(Amounts, AdjustmentsIn(as)) \in Int
  BY <1>1, <1>2, TotalInt
<1>6. Total(Comms, FillsIn(as)) \in Int
  BY <1>1, <1>3, TotalInt
<1>7. Total(Gains, TripsIn(as)) \in Int
  BY <1>1, <1>4, TotalInt
<1> QED BY <1>1, <1>2, <1>3, <1>4, <1>5, <1>6, <1>7

\* An event of neither kind, or without a price, adds no deal.
LEMMA DealsStay ==
  ASSUME NEW as, NEW e, e.type \notin {"fill", "close"} \/ e.px = Bad
  PROVE  /\ FillsIn(as \cup {e}) = FillsIn(as) /\ ClosesIn(as \cup {e}) = ClosesIn(as)
         /\ TripsIn(as \cup {e}) = TripsIn(as)
         /\ \A o : FillsAt(o, as \cup {e}) = FillsAt(o, as) /\ ClosesAt(o, as \cup {e}) = ClosesAt(o, as)
<1>1. FillsIn(as \cup {e}) = FillsIn(as) /\ ClosesIn(as \cup {e}) = ClosesIn(as)
  BY DEF FillsIn, ClosesIn
<1> QED BY <1>1 DEF TripsIn, FillsAt, ClosesAt

LEMMA FillArrives ==
  ASSUME NEW as, NEW e, e.type = "fill", e.px # Bad
  PROVE  /\ FillsIn(as \cup {e}) = FillsIn(as) \cup {e} /\ ClosesIn(as \cup {e}) = ClosesIn(as)
         /\ FillsAt(e.order, as \cup {e}) = FillsAt(e.order, as) \cup {e}
         /\ \A o : o # e.order => FillsAt(o, as \cup {e}) = FillsAt(o, as)
         /\ \A o : ClosesAt(o, as \cup {e}) = ClosesAt(o, as)
         /\ TripsIn(as \cup {e}) = TripsIn(as) \cup {<<e, c>> : c \in ClosesAt(e.order, as)}
<1>1. FillsIn(as \cup {e}) = FillsIn(as) \cup {e} /\ ClosesIn(as \cup {e}) = ClosesIn(as)
  BY DEF FillsIn, ClosesIn
<1>2. /\ FillsAt(e.order, as \cup {e}) = FillsAt(e.order, as) \cup {e}
      /\ \A o : o # e.order => FillsAt(o, as \cup {e}) = FillsAt(o, as)
      /\ \A o : ClosesAt(o, as \cup {e}) = ClosesAt(o, as)
  BY <1>1 DEF FillsAt, ClosesAt
<1>3. TripsIn(as \cup {e}) = TripsIn(as) \cup {<<e, c>> : c \in ClosesAt(e.order, as)}
  <2>1. PICK F, C, F2, C2 : /\ F = FillsIn(as) /\ C = ClosesIn(as)
                            /\ F2 = FillsIn(as \cup {e}) /\ C2 = ClosesIn(as \cup {e})
    OBVIOUS
  <2>2. PICK R, S : /\ R = {t \in F \X C : t[1].order = t[2].order}
                    /\ S = {t \in F2 \X C2 : t[1].order = t[2].order}
    OBVIOUS
  <2>3. ASSUME NEW t \in S
        PROVE  t \in R \cup {<<e, c>> : c \in ClosesAt(e.order, as)}
    <3>1. t = <<t[1], t[2]>> /\ t[1] \in F2 /\ t[2] \in C2 /\ t[1].order = t[2].order
      BY <2>2
    <3>2. CASE t[1] \in F /\ t[2] \in C
      BY <2>2, <3>1, <3>2
    <3>3. CASE ~(t[1] \in F /\ t[2] \in C)
      <4>1. t = <<e, t[2]>> /\ t[2] \in ClosesAt(e.order, as)
        BY <1>1, <2>1, <3>1, <3>3 DEF ClosesAt, FillsIn, ClosesIn
      <4> QED BY <4>1
    <3> QED BY <3>2, <3>3
  <2>4. R \subseteq S
    BY <1>1, <2>1, <2>2
  <2>5. ASSUME NEW c \in ClosesAt(e.order, as) PROVE <<e, c>> \in S
    BY <1>1, <2>1, <2>2 DEF ClosesAt
  <2>6. S = R \cup {<<e, c>> : c \in ClosesAt(e.order, as)}
    BY <2>3, <2>4, <2>5
  <2> QED BY <2>1, <2>2, <2>6 DEF TripsIn
<1> QED BY <1>1, <1>2, <1>3

LEMMA CloseArrives ==
  ASSUME NEW as, NEW e, e.type = "close", e.px # Bad
  PROVE  /\ FillsIn(as \cup {e}) = FillsIn(as) /\ ClosesIn(as \cup {e}) = ClosesIn(as) \cup {e}
         /\ ClosesAt(e.order, as \cup {e}) = ClosesAt(e.order, as) \cup {e}
         /\ \A o : o # e.order => ClosesAt(o, as \cup {e}) = ClosesAt(o, as)
         /\ \A o : FillsAt(o, as \cup {e}) = FillsAt(o, as)
         /\ TripsIn(as \cup {e}) = TripsIn(as) \cup {<<f, e>> : f \in FillsAt(e.order, as)}
<1>1. FillsIn(as \cup {e}) = FillsIn(as) /\ ClosesIn(as \cup {e}) = ClosesIn(as) \cup {e}
  BY DEF FillsIn, ClosesIn
<1>2. /\ ClosesAt(e.order, as \cup {e}) = ClosesAt(e.order, as) \cup {e}
      /\ \A o : o # e.order => ClosesAt(o, as \cup {e}) = ClosesAt(o, as)
      /\ \A o : FillsAt(o, as \cup {e}) = FillsAt(o, as)
  BY <1>1 DEF FillsAt, ClosesAt
<1>3. TripsIn(as \cup {e}) = TripsIn(as) \cup {<<f, e>> : f \in FillsAt(e.order, as)}
  <2>1. PICK F, C, F2, C2 : /\ F = FillsIn(as) /\ C = ClosesIn(as)
                            /\ F2 = FillsIn(as \cup {e}) /\ C2 = ClosesIn(as \cup {e})
    OBVIOUS
  <2>2. PICK R, S : /\ R = {t \in F \X C : t[1].order = t[2].order}
                    /\ S = {t \in F2 \X C2 : t[1].order = t[2].order}
    OBVIOUS
  <2>3. ASSUME NEW t \in S
        PROVE  t \in R \cup {<<f, e>> : f \in FillsAt(e.order, as)}
    <3>1. t = <<t[1], t[2]>> /\ t[1] \in F2 /\ t[2] \in C2 /\ t[1].order = t[2].order
      BY <2>2
    <3>2. CASE t[1] \in F /\ t[2] \in C
      BY <2>2, <3>1, <3>2
    <3>3. CASE ~(t[1] \in F /\ t[2] \in C)
      <4>1. t = <<t[1], e>> /\ t[1] \in FillsAt(e.order, as)
        BY <1>1, <2>1, <3>1, <3>3 DEF FillsAt, FillsIn, ClosesIn
      <4> QED BY <4>1
    <3> QED BY <3>2, <3>3
  <2>4. R \subseteq S
    BY <1>1, <2>1, <2>2
  <2>5. ASSUME NEW f \in FillsAt(e.order, as) PROVE <<f, e>> \in S
    BY <1>1, <2>1, <2>2 DEF FillsAt
  <2>6. S = R \cup {<<f, e>> : f \in FillsAt(e.order, as)}
    BY <2>3, <2>4, <2>5
  <2> QED BY <2>1, <2>2, <2>6 DEF TripsIn
<1> QED BY <1>1, <1>2, <1>3

\* Where an order has one deal of each kind, a deal that is no duplicate is its
\* order's first.
LEMMA FirstDeal ==
  ASSUME OneDealEach, Stems(state, applied), NEW e \in Stream, Fresh(e)
  PROVE  /\ e.type = "fill" => FillsAt(e.order, applied) = {}
         /\ e.type = "close" => ClosesAt(e.order, applied) = {}
<1>1. ASSUME NEW x \in applied, x.type = e.type, e.type \in {"fill", "close"}, x.order = e.order
      PROVE  FALSE
  <2>1. x \in Stream
    BY DEF Stems
  <2>2. x.deal = e.deal
    BY <1>1, <2>1 DEF OneDealEach
  <2>3. DedupKey(x) = DedupKey(e)
    BY <1>1, <2>2 DEF DedupKey
  <2> QED BY <2>3 DEF Stems, Fresh
<1> QED BY <1>1 DEF FillsAt, ClosesAt, FillsIn, ClosesIn

OneTripMore(as, bs, f, c) == TripsIn(bs) = TripsIn(as) \cup {<<f, c>>}
DoubtsJoined(as, bs, f, c) == DoubtedIn(bs) = DoubtedIn(as) \cup Doubted(PositionOf(f), c)

\* The doubts grow with the trips.
LEMMA DoubtsGrow ==
  ASSUME NEW as, NEW bs, NEW f, NEW c, OneTripMore(as, bs, f, c)
  PROVE  DoubtsJoined(as, bs, f, c)
<1>1. PICK t : t = <<f, c>>
  OBVIOUS
<1>2. t[1] = f /\ t[2] = c /\ TripsIn(bs) = TripsIn(as) \cup {t}
  BY <1>1 DEF OneTripMore
<1>3. DoubtedIn(bs) = DoubtedIn(as) \cup Doubted(PositionOf(t[1]), t[2])
  BY <1>2 DEF DoubtedIn
<1> QED BY <1>2, <1>3 DEF DoubtsJoined

\* Unfolded ledgers before and after.
LEMMA LedgerSame ==
  ASSUME NEW as, NEW bs, AdjustmentsIn(bs) = AdjustmentsIn(as), FillsIn(bs) = FillsIn(as),
         TripsIn(bs) = TripsIn(as)
  PROVE  Ledger(bs) = Ledger(as)
BY DEF Ledger

LEMMA LedgerAmount ==
  ASSUME NEW as, IsFiniteSet(as), as \subseteq Stream, NEW e \in Stream, e \notin as,
         e.type = "adjustment", e.amount # Bad
  PROVE  Ledger(as \cup {e}) = Ledger(as) + e.amount /\ Ledger(as) \in Int /\ e.amount \in Int
<1>0. IsFiniteSet(as \cup {e}) /\ as \cup {e} \subseteq Stream
  BY FS_AddElement
<1>1. PICK bs : bs = as \cup {e} /\ IsFiniteSet(bs) /\ bs \subseteq Stream
  BY <1>0
<1>2. /\ AdjustmentsIn(bs) = AdjustmentsIn(as) \cup {e} /\ e \notin AdjustmentsIn(as)
      /\ FillsIn(bs) = FillsIn(as) /\ TripsIn(bs) = TripsIn(as)
  <2>1. FillsIn(bs) = FillsIn(as) /\ TripsIn(bs) = TripsIn(as)
    BY <1>1, DealsStay
  <2> QED BY <1>1, <2>1 DEF AdjustmentsIn
<1>3. PICK A : A = AdjustmentsIn(as) /\ IsFiniteSet(A)
  BY LedgerInts
<1>4. \A x \in A \cup {e} : Amounts[x] \in Int /\ Amounts[x] = x.amount
  BY <1>1, <1>2, <1>3, LedgerInts
<1>5. Total(Amounts, A \cup {e}) = Amounts[e] + Total(Amounts, A)
  BY <1>2, <1>3, <1>4, TotalAdd
<1>6. PICK a, f, t : /\ a = Total(Amounts, A) /\ f = Total(Comms, FillsIn(as))
                     /\ t = Total(Gains, TripsIn(as)) /\ a \in Int /\ f \in Int /\ t \in Int
  BY <1>3, LedgerInts
<1>7. Ledger(as) = a + f + t /\ Ledger(bs) = (e.amount + a) + f + t
  BY <1>2, <1>3, <1>4, <1>5, <1>6 DEF Ledger
<1>8. PICK x \in Int : x = e.amount
  BY <1>4
<1>b. a \in Int /\ f \in Int /\ t \in Int
  BY <1>6
<1>9. (x + a) + f + t = (a + f + t) + x /\ a + f + t \in Int
  BY <1>b
<1>10. Ledger(bs) = Ledger(as) + e.amount /\ Ledger(as) \in Int
  BY <1>7, <1>8, <1>9
<1> QED BY <1>1, <1>8, <1>10

\* A fill, and the close c that waited for it if one did.
LEMMA LedgerFill ==
  ASSUME NEW as, IsFiniteSet(as), as \subseteq Stream, NEW e \in Stream, e \notin as,
         e.type = "fill", e.px # Bad
  PROVE  /\ Ledger(as) \in Int /\ OrZero(e.comm) \in Int
         /\ ClosesAt(e.order, as) = {} => Ledger(as \cup {e}) = Ledger(as) + OrZero(e.comm)
         /\ \A c : ClosesAt(e.order, as) = {c} =>
              /\ Ledger(as \cup {e}) = Ledger(as) + OrZero(e.comm) + Gain(e, c)
              /\ Gain(e, c) \in Int
<1>0. IsFiniteSet(as \cup {e}) /\ as \cup {e} \subseteq Stream
  BY FS_AddElement
<1>1. PICK bs : bs = as \cup {e} /\ IsFiniteSet(bs) /\ bs \subseteq Stream
  BY <1>0
<1>2. /\ FillsIn(bs) = FillsIn(as) \cup {e} /\ e \notin FillsIn(as)
      /\ TripsIn(bs) = TripsIn(as) \cup {<<e, c>> : c \in ClosesAt(e.order, as)}
      /\ AdjustmentsIn(bs) = AdjustmentsIn(as)
  <2>1. /\ FillsIn(bs) = FillsIn(as) \cup {e}
        /\ TripsIn(bs) = TripsIn(as) \cup {<<e, c>> : c \in ClosesAt(e.order, as)}
    BY <1>1, FillArrives
  <2> QED BY <1>1, <2>1 DEF AdjustmentsIn, FillsIn
<1>3. PICK F : F = FillsIn(as) /\ IsFiniteSet(F)
  BY LedgerInts
<1>4. \A x \in F \cup {e} : Comms[x] \in Int /\ Comms[x] = OrZero(x.comm)
  BY <1>1, <1>2, <1>3, LedgerInts
<1>5. Total(Comms, F \cup {e}) = Comms[e] + Total(Comms, F)
  BY <1>2, <1>3, <1>4, TotalAdd
<1>6. PICK a, f, t : /\ a = Total(Amounts, AdjustmentsIn(as)) /\ f = Total(Comms, F)
                     /\ t = Total(Gains, TripsIn(as)) /\ a \in Int /\ f \in Int /\ t \in Int
  BY <1>3, LedgerInts
<1>7. /\ Ledger(as) = a + f + t
      /\ Ledger(bs) = a + (OrZero(e.comm) + f) + Total(Gains, TripsIn(bs))
  BY <1>2, <1>3, <1>4, <1>5, <1>6 DEF Ledger
<1>8. OrZero(e.comm) \in Int
  BY <1>4
<1>b. a \in Int /\ f \in Int /\ t \in Int
  BY <1>6
<1>a. PICK x \in Int : x = OrZero(e.comm)
  BY <1>8
<1>9. ASSUME ClosesAt(e.order, as) = {}
      PROVE  Ledger(as \cup {e}) = Ledger(as) + OrZero(e.comm)
  <2>1. TripsIn(bs) = TripsIn(as)
    BY <1>2, <1>9
  <2>2. Ledger(as) = a + f + t /\ Ledger(bs) = a + (x + f) + t
    BY <1>6, <1>7, <1>a, <2>1
  <2>3. a + (x + f) + t = (a + f + t) + x
    BY <1>b
  <2>4. Ledger(bs) = Ledger(as) + OrZero(e.comm)
    BY <1>a, <2>2, <2>3
  <2> QED BY <1>1, <2>4
<1>10. ASSUME NEW c, ClosesAt(e.order, as) = {c}
       PROVE  /\ Ledger(as \cup {e}) = Ledger(as) + OrZero(e.comm) + Gain(e, c)
              /\ Gain(e, c) \in Int
  <2>1. PICK T, y : T = TripsIn(as) /\ y = <<e, c>> /\ IsFiniteSet(T)
    BY LedgerInts
  <2>2. TripsIn(bs) = T \cup {y} /\ y \notin T
    <3>1. y \notin T
      BY <1>2, <2>1 DEF TripsIn
    <3> QED BY <1>2, <1>10, <2>1, <3>1
  <2>3. \A z \in T \cup {y} : Gains[z] \in Int /\ Gains[z] = Gain(z[1], z[2])
    BY <1>1, <2>2, LedgerInts
  <2>4. Total(Gains, T \cup {y}) = Gains[y] + Total(Gains, T)
    BY <2>1, <2>2, <2>3, TotalAdd
  <2>5. PICK g : g = Gain(e, c) /\ g \in Int /\ Gains[y] = g
    BY <2>1, <2>3
  <2>6. Total(Gains, TripsIn(bs)) = g + t
    <3>1. Total(Gains, TripsIn(bs)) = Total(Gains, T \cup {y})
      BY <2>2
    <3>2. Total(Gains, T) = t
      BY <1>6, <2>1
    <3> QED BY <2>4, <2>5, <3>1, <3>2
  <2>7. Ledger(as) = a + f + t /\ Ledger(bs) = a + (x + f) + (g + t)
    BY <1>7, <1>a, <2>6
  <2>a. g \in Int
    BY <2>5
  <2>8. a + (x + f) + (g + t) = ((a + f + t) + x) + g
    BY <1>b, <2>a
  <2>9. Ledger(bs) = (Ledger(as) + x) + g
    BY <2>7, <2>8
  <2> QED BY <1>1, <1>a, <2>5, <2>9
<1>11. Ledger(as) \in Int
  <2>1. a + f + t \in Int
    BY <1>b
  <2> QED BY <1>7, <2>1
<1> QED BY <1>8, <1>9, <1>10, <1>11

\* A close of the one fill f of its order, or one that has no fill yet.
LEMMA LedgerClose ==
  ASSUME NEW as, IsFiniteSet(as), as \subseteq Stream, NEW e \in Stream, e \notin as,
         e.type = "close", e.px # Bad
  PROVE  /\ Ledger(as) \in Int
         /\ FillsAt(e.order, as) = {} => Ledger(as \cup {e}) = Ledger(as)
         /\ \A f : FillsAt(e.order, as) = {f} =>
              Ledger(as \cup {e}) = Ledger(as) + Gain(f, e) /\ Gain(f, e) \in Int
<1>0. IsFiniteSet(as \cup {e}) /\ as \cup {e} \subseteq Stream
  BY FS_AddElement
<1>1. PICK bs : bs = as \cup {e} /\ IsFiniteSet(bs) /\ bs \subseteq Stream
  BY <1>0
<1>2. /\ FillsIn(bs) = FillsIn(as) /\ e \notin ClosesIn(as)
      /\ TripsIn(bs) = TripsIn(as) \cup {<<f, e>> : f \in FillsAt(e.order, as)}
      /\ AdjustmentsIn(bs) = AdjustmentsIn(as)
  <2>1. /\ FillsIn(bs) = FillsIn(as)
        /\ TripsIn(bs) = TripsIn(as) \cup {<<f, e>> : f \in FillsAt(e.order, as)}
    BY <1>1, CloseArrives
  <2> QED BY <1>1, <2>1 DEF AdjustmentsIn, ClosesIn
<1>3. PICK a, f, t : /\ a = Total(Amounts, AdjustmentsIn(as)) /\ f = Total(Comms, FillsIn(as))
                     /\ t = Total(Gains, TripsIn(as)) /\ a \in Int /\ f \in Int /\ t \in Int
  BY LedgerInts
<1>b. a \in Int /\ f \in Int /\ t \in Int
  BY <1>3
<1>4. Ledger(as) = a + f + t /\ Ledger(bs) = a + f + Total(Gains, TripsIn(bs))
  BY <1>2, <1>3 DEF Ledger
<1>5. ASSUME FillsAt(e.order, as) = {} PROVE Ledger(as \cup {e}) = Ledger(as)
  <2>1. TripsIn(bs) = TripsIn(as)
    BY <1>2, <1>5
  <2> QED BY <1>1, <1>3, <1>4, <2>1
<1>6. ASSUME NEW h, FillsAt(e.order, as) = {h}
      PROVE  Ledger(as \cup {e}) = Ledger(as) + Gain(h, e) /\ Gain(h, e) \in Int
  <2>1. PICK T, y : T = TripsIn(as) /\ y = <<h, e>> /\ IsFiniteSet(T)
    BY LedgerInts
  <2>2. TripsIn(bs) = T \cup {y} /\ y \notin T
    <3>1. y \notin T
      BY <1>2, <2>1 DEF TripsIn
    <3> QED BY <1>2, <1>6, <2>1, <3>1
  <2>3. \A z \in T \cup {y} : Gains[z] \in Int /\ Gains[z] = Gain(z[1], z[2])
    BY <1>1, <2>2, LedgerInts
  <2>4. Total(Gains, T \cup {y}) = Gains[y] + Total(Gains, T)
    BY <2>1, <2>2, <2>3, TotalAdd
  <2>5. PICK g : g = Gain(h, e) /\ g \in Int /\ Gains[y] = g
    BY <2>1, <2>3
  <2>6. Total(Gains, TripsIn(bs)) = g + t
    <3>1. Total(Gains, TripsIn(bs)) = Total(Gains, T \cup {y})
      BY <2>2
    <3>2. Total(Gains, T) = t
      BY <1>3, <2>1
    <3> QED BY <2>4, <2>5, <3>1, <3>2
  <2>7. Ledger(as) = a + f + t /\ Ledger(bs) = a + f + (g + t)
    BY <1>4, <2>6
  <2>a. g \in Int
    BY <2>5
  <2>8. a + f + (g + t) = (a + f + t) + g
    BY <1>b, <2>a
  <2>9. Ledger(bs) = Ledger(as) + g
    BY <2>7, <2>8
  <2> QED BY <1>1, <2>5, <2>9
<1>7. Ledger(as) \in Int
  <2>1. a + f + t \in Int
    BY <1>b
  <2> QED BY <1>4, <2>1
<1> QED BY <1>5, <1>6, <1>7

\* Orders an event is not about keep what they have.
LEMMA PairedAlike ==
  ASSUME NEW pos, NEW q, NEW o, NEW as, NEW bs, Paired(pos, q, o, as),
         FillsAt(o, bs) = FillsAt(o, as), ClosesAt(o, bs) = ClosesAt(o, as)
  PROVE  Paired(pos, q, o, bs)
BY DEF Paired

\* Appending a close to the buffer of its order.
LEMMA ParsedAppended ==
  ASSUME NEW S, NEW q \in Seq(S), NEW e \in S
  PROVE  Priced(Append(q, e)) = Priced(q) \cup (IF e.px # Bad THEN {e} ELSE {})
<1>1. PICK w, l : w = Append(q, e) /\ l = Len(q) /\ l \in Nat
  BY LenProperties
<1>2. /\ DOMAIN q = 1..l /\ DOMAIN w = 1..(l + 1)
      /\ \A i \in 1..l : w[i] = q[i]
      /\ w[l + 1] = e
  BY <1>1, AppendedIs
<1>3. Parsed(w) = Parsed(q) \cup (IF e.px # Bad THEN {l + 1} ELSE {})
  <2>1. Parsed(w) = {i \in 1..(l + 1) : w[i].px # Bad} /\ Parsed(q) = {i \in 1..l : q[i].px # Bad}
    BY <1>2 DEF Parsed
  <2>2. 1..(l + 1) = (1..l) \cup {l + 1}
    BY <1>1
  <2> QED BY <1>2, <2>1, <2>2
<1>4. \A i \in Parsed(q) : w[i] = q[i]
  BY <1>2 DEF Parsed
<1>5. Priced(w) = Priced(q) \cup (IF e.px # Bad THEN {e} ELSE {})
  <2>1. CASE e.px # Bad
    <3>1. Parsed(w) = Parsed(q) \cup {l + 1}
      BY <1>3, <2>1
    <3> QED BY <1>2, <1>4, <2>1, <3>1 DEF Priced
  <2>2. CASE e.px = Bad
    <3>1. Parsed(w) = Parsed(q)
      BY <1>3, <2>2
    <3> QED BY <1>4, <2>2, <3>1 DEF Priced
  <2> QED BY <2>1, <2>2
<1> QED BY <1>1, <1>5

\* One event keeps the account in step with its deals.
LEMMA AccountedStep ==
  ASSUME OneDealEach, Typed(state), GivenTo(verdicts, state), Stems(state, applied),
         Accounted(state, applied, alerts), pack.start_balance \in Int,
         NEW e \in Stream, Apply(e), Fresh(e)
  PROVE  Accounted(state', applied', alerts')
<1>0. PICK as, bs : as = applied /\ bs = as \cup {e}
  OBVIOUS
<1>1. /\ applied' = bs /\ e \notin as /\ IsFiniteSet(as) /\ as \subseteq Stream
      /\ e.type = "fill" => FillsAt(e.order, as) = {}
      /\ e.type = "close" => ClosesAt(e.order, as) = {}
  BY <1>0, StemsStep, FirstDeal DEF Stems
<1>2. /\ \A o \in Orders : Paired(state.positions[o], state.deferred_closes[o], o, as)
      /\ state.balance = pack.start_balance + Ledger(as)
      /\ Mismatched(alerts) = DoubtedIn(as)
      /\ DOMAIN state.positions = Orders /\ DOMAIN state.deferred_closes = Orders
      /\ \A o \in Orders : state.deferred_closes[o] \in Seq(ClosesFor(o))
  BY <1>0 DEF Accounted, Typed, Shaped
<1>a. e.type \in {"fill", "close"} => e.order \in Orders
  BY EngineAssumption
<1>3. BookStepOf(e)
  BY BookStep
<1>4. CASE Untouched(e)
  <2>1. e.type \notin {"fill", "close"} \/ e.px = Bad
    <3>1. ASSUME e.type = "fill", e.px # Bad PROVE FALSE
      <4>1. state.positions[e.order] # None /\ FillsAt(e.order, as) = {}
        BY <1>1, <1>4, <3>1 DEF Untouched
      <4> QED BY <1>2, <1>a, <3>1, <4>1 DEF Paired
    <3> QED BY <1>4, <3>1 DEF Untouched
  <2>2. AdjustmentsIn(bs) = AdjustmentsIn(as)
    BY <1>0, <1>4 DEF Untouched, AdjustmentsIn
  <2>3. FillsIn(bs) = FillsIn(as) /\ TripsIn(bs) = TripsIn(as)
        /\ \A o : FillsAt(o, bs) = FillsAt(o, as) /\ ClosesAt(o, bs) = ClosesAt(o, as)
    BY <1>0, <2>1, DealsStay
  <2>4. Ledger(bs) = Ledger(as) /\ DoubtedIn(bs) = DoubtedIn(as)
    BY <2>2, <2>3, LedgerSame DEF DoubtedIn
  <2>5. \A o \in Orders : Paired(state'.positions[o], state'.deferred_closes[o], o, bs)
    BY <1>2, <1>4, <2>3, PairedAlike DEF Untouched
  <2> QED BY <1>1, <1>2, <1>4, <2>4, <2>5 DEF Untouched, Accounted
<1>5. CASE Adjusted(e)
  <2>1. e.type = "adjustment" /\ e.type \notin {"fill", "close"} /\ e.amount # Bad
    BY <1>5 DEF Adjusted
  <2>2. TripsIn(bs) = TripsIn(as)
        /\ \A o : FillsAt(o, bs) = FillsAt(o, as) /\ ClosesAt(o, bs) = ClosesAt(o, as)
    BY <1>0, <2>1, DealsStay
  <2>3. Ledger(bs) = Ledger(as) + e.amount /\ Ledger(as) \in Int /\ e.amount \in Int
    BY <1>0, <1>1, <2>1, LedgerAmount
  <2>4. state'.balance = pack.start_balance + Ledger(bs)
    <3>1. state'.balance = (pack.start_balance + Ledger(as)) + e.amount
      BY <1>2, <1>5 DEF Adjusted
    <3>2. PICK a, b, k : a = pack.start_balance /\ b = Ledger(as) /\ k = e.amount
      OBVIOUS
    <3>3. a \in Int /\ b \in Int /\ k \in Int
      BY <2>3, <3>2
    <3>4. (a + b) + k = a + (b + k)
      BY <3>3
    <3> QED BY <2>3, <3>1, <3>2, <3>4
  <2>5. \A o \in Orders : Paired(state'.positions[o], state'.deferred_closes[o], o, bs)
    BY <1>2, <1>5, <2>2, PairedAlike DEF Adjusted
  <2>6. Mismatched(alerts') = DoubtedIn(bs)
    BY <1>2, <1>5, <2>2 DEF Adjusted, DoubtedIn
  <2> QED BY <1>1, <2>4, <2>5, <2>6 DEF Accounted
<1>6. CASE Deferred(e)
  <2>0. e.type = "close" /\ e.order \in Orders /\ e \in ClosesFor(e.order)
    BY <1>6, EngineAssumption DEF Deferred, ClosesFor
  <2>1. FillsAt(e.order, as) = {} /\ ClosesAt(e.order, as) = {}
    <3>1. ClosesAt(e.order, as) = {} /\ state.positions[e.order] = None
      BY <1>1, <1>6, <2>0 DEF Deferred
    <3> QED BY <1>2, <2>0, <3>1 DEF Paired
  <2>2. AdjustmentsIn(bs) = AdjustmentsIn(as)
    BY <1>0, <2>0 DEF AdjustmentsIn
  <2>3. /\ FillsIn(bs) = FillsIn(as) /\ TripsIn(bs) = TripsIn(as)
        /\ \A o : FillsAt(o, bs) = FillsAt(o, as)
        /\ \A o : o # e.order => ClosesAt(o, bs) = ClosesAt(o, as)
        /\ ClosesAt(e.order, bs) = IF e.px # Bad THEN {e} ELSE {}
    <3>1. CASE e.px = Bad
      BY <1>0, <2>1, <3>1, DealsStay
    <3>2. CASE e.px # Bad
      <4>1. /\ FillsIn(bs) = FillsIn(as) /\ TripsIn(bs) = TripsIn(as) \cup {<<f, e>> : f \in FillsAt(e.order, as)}
            /\ \A o : FillsAt(o, bs) = FillsAt(o, as)
            /\ \A o : o # e.order => ClosesAt(o, bs) = ClosesAt(o, as)
            /\ ClosesAt(e.order, bs) = ClosesAt(e.order, as) \cup {e}
        <5>1. e.type = "close" /\ bs = as \cup {e}
          BY <1>0, <2>0
        <5> QED BY <3>2, <5>1, CloseArrives
      <4> QED BY <2>1, <3>2, <4>1
    <3> QED BY <3>1, <3>2
  <2>4. Ledger(bs) = Ledger(as) /\ DoubtedIn(bs) = DoubtedIn(as)
    BY <2>2, <2>3, LedgerSame DEF DoubtedIn
  <2>5. ASSUME NEW o \in Orders
        PROVE  Paired(state'.positions[o], state'.deferred_closes[o], o, bs)
    <3>1. /\ state'.positions = state.positions
          /\ state'.deferred_closes = [state.deferred_closes EXCEPT ![e.order] = Append(@, e)]
      BY <1>6 DEF Deferred
    <3>2. CASE o # e.order
      BY <1>2, <2>3, <3>1, <3>2, PairedAlike
    <3>3. CASE o = e.order
      <4>1. PICK q : q = state.deferred_closes[o] /\ q \in Seq(ClosesFor(o))
        BY <1>2
      <4>2. state'.deferred_closes[o] = Append(q, e)
        BY <1>2, <2>0, <3>1, <3>3, <4>1
      <4>3. Priced(q) = {}
        <5>1. Paired(state.positions[o], q, o, as)
          BY <1>2, <4>1
        <5> QED BY <2>1, <3>3, <5>1 DEF Paired
      <4>4. Priced(Append(q, e)) = ClosesAt(o, bs)
        <5>1. e \in ClosesFor(o)
          BY <2>0, <3>3
        <5>2. Priced(Append(q, e)) = Priced(q) \cup (IF e.px # Bad THEN {e} ELSE {})
          BY <4>1, <5>1, ParsedAppended
        <5> QED BY <2>3, <3>3, <4>3, <5>2
      <4>5. state'.positions[o] = None /\ FillsAt(o, bs) = {} /\ \A c, d \in ClosesAt(o, bs) : c = d
        BY <1>6, <2>1, <2>3, <3>1, <3>3 DEF Deferred
      <4> QED BY <4>2, <4>4, <4>5 DEF Paired
    <3> QED BY <3>2, <3>3
  <2>6. state'.balance = state.balance /\ Mismatched(alerts') = Mismatched(alerts)
    BY <1>6 DEF Deferred
  <2> QED BY <1>1, <1>2, <2>4, <2>5, <2>6 DEF Accounted
<1>7. CASE ClosedNow(e)
  <2>0. e.type = "close" /\ e.order \in Orders /\ e.px # Bad
    BY <1>7, EngineAssumption DEF ClosedNow
  <2>1. PICK f : FillsAt(e.order, as) = {f} /\ state.positions[e.order] = PositionOf(f)
    <3>1. state.positions[e.order] # None
      BY <1>7 DEF ClosedNow
    <3>2. /\ FillsAt(e.order, as) # {} /\ \A g, h \in FillsAt(e.order, as) : g = h
          /\ \A g \in FillsAt(e.order, as) : state.positions[e.order] = PositionOf(g)
      BY <1>2, <2>0, <3>1 DEF Paired
    <3> QED BY <3>2
  <2>2. AdjustmentsIn(bs) = AdjustmentsIn(as)
    BY <1>0, <2>0 DEF AdjustmentsIn
  <2>3. /\ TripsIn(bs) = TripsIn(as) \cup {<<f, e>>}
        /\ \A o : FillsAt(o, bs) = FillsAt(o, as)
        /\ \A o : o # e.order => ClosesAt(o, bs) = ClosesAt(o, as)
        /\ ClosesAt(e.order, bs) = {e}
    <3>1. /\ TripsIn(bs) = TripsIn(as) \cup {<<g, e>> : g \in FillsAt(e.order, as)}
          /\ \A o : FillsAt(o, bs) = FillsAt(o, as)
          /\ \A o : o # e.order => ClosesAt(o, bs) = ClosesAt(o, as)
          /\ ClosesAt(e.order, bs) = ClosesAt(e.order, as) \cup {e}
      <4>1. e.type = "close" /\ e.px # Bad /\ bs = as \cup {e}
        BY <1>0, <2>0
      <4> QED BY <4>1, CloseArrives
    <3>2. ClosesAt(e.order, as) = {}
      BY <1>1, <2>0
    <3> QED BY <2>1, <3>1, <3>2
  <2>4. Ledger(bs) = Ledger(as) + Gain(f, e) /\ Gain(f, e) \in Int /\ Ledger(as) \in Int
    BY <1>0, <1>1, <2>0, <2>1, LedgerClose
  <2>5. state'.balance = pack.start_balance + Ledger(bs)
    <3>1. PICK p, r : p = Pnl(PositionOf(f), e.px) /\ r = OrZero(e.fee)
      OBVIOUS
    <3>2. /\ state'.balance = (pack.start_balance + Ledger(as)) + p + r /\ Gain(f, e) = p + r
      BY <1>2, <1>7, <2>1, <3>1 DEF ClosedNow, Gain
    <3>3. p \in Int /\ r \in Int
      <4>1. f \in Stream /\ f.type = "fill" /\ f.px # Bad
        BY <1>1, <2>1 DEF FillsAt, FillsIn
      <4>2. PositionOf(f) \in Positions
        BY <4>1, EngineAssumption DEF PositionOf, Positions
      <4>3. e.px \in Int /\ OrZero(e.fee) \in Int
        BY <2>0, EngineAssumption DEF OrZero
      <4> QED BY <3>1, <4>2, <4>3, PnlInt
    <3>4. PICK a, b : a = pack.start_balance /\ b = Ledger(as)
      OBVIOUS
    <3>5. a \in Int /\ b \in Int
      BY <2>4, <3>4
    <3>6. (a + b) + p + r = a + (b + (p + r))
      BY <3>3, <3>5
    <3> QED BY <2>4, <3>2, <3>4, <3>6
  <2>6. ASSUME NEW o \in Orders
        PROVE  Paired(state'.positions[o], state'.deferred_closes[o], o, bs)
    <3>1. /\ state'.positions = [state.positions EXCEPT ![e.order] = None]
          /\ state'.deferred_closes = state.deferred_closes
      BY <1>7 DEF ClosedNow
    <3>2. CASE o # e.order
      BY <1>2, <2>3, <3>1, <3>2, PairedAlike
    <3>3. CASE o = e.order
      <4>1. state'.positions[o] = None /\ FillsAt(o, bs) = {f} /\ ClosesAt(o, bs) = {e}
        BY <1>2, <2>0, <2>1, <2>3, <3>1, <3>3
      <4> QED BY <4>1 DEF Paired
    <3> QED BY <3>2, <3>3
  <2>7. Mismatched(alerts') = DoubtedIn(bs)
    <3>1. DoubtedIn(bs) = DoubtedIn(as) \cup Doubted(PositionOf(f), e)
      <4>1. OneTripMore(as, bs, f, e)
        BY <2>3 DEF OneTripMore
      <4>2. DoubtsJoined(as, bs, f, e)
        BY <4>1, DoubtsGrow
      <4> QED BY <4>2 DEF DoubtsJoined
    <3>2. Mismatched(alerts') = Mismatched(alerts) \cup Doubted(PositionOf(f), e)
      BY <1>7, <2>1 DEF ClosedNow
    <3> QED BY <1>2, <3>1, <3>2
  <2> QED BY <1>1, <2>5, <2>6, <2>7 DEF Accounted
<1>8. CASE OpenedNow(e)
  <2>0. e.type = "fill" /\ e.order \in Orders /\ e.px # Bad
    BY <1>8, EngineAssumption DEF OpenedNow
  <2>1. FillsAt(e.order, as) = {} /\ ClosesAt(e.order, as) = {}
    <3>1. PICK q : q = state.deferred_closes[e.order] /\ ~Drains(q)
      BY <1>8 DEF OpenedNow
    <3>2. FillsAt(e.order, as) = {} /\ Paired(state.positions[e.order], q, e.order, as)
      BY <1>1, <1>2, <2>0, <3>1
    <3>3. Priced(q) = {} /\ Priced(q) = ClosesAt(e.order, as)
      BY <3>1, <3>2 DEF Drains, Priced, Paired
    <3> QED BY <3>2, <3>3
  <2>2. AdjustmentsIn(bs) = AdjustmentsIn(as)
    BY <1>0, <2>0 DEF AdjustmentsIn
  <2>3. /\ TripsIn(bs) = TripsIn(as) /\ FillsAt(e.order, bs) = {e}
        /\ \A o : o # e.order => FillsAt(o, bs) = FillsAt(o, as)
        /\ \A o : ClosesAt(o, bs) = ClosesAt(o, as)
    <3>1. /\ TripsIn(bs) = TripsIn(as) \cup {<<e, c>> : c \in ClosesAt(e.order, as)}
          /\ FillsAt(e.order, bs) = FillsAt(e.order, as) \cup {e}
          /\ \A o : o # e.order => FillsAt(o, bs) = FillsAt(o, as)
          /\ \A o : ClosesAt(o, bs) = ClosesAt(o, as)
      <4>1. e.type = "fill" /\ e.px # Bad /\ bs = as \cup {e}
        BY <1>0, <2>0
      <4> QED BY <4>1, FillArrives
    <3> QED BY <2>1, <3>1
  <2>4. state'.balance = pack.start_balance + Ledger(bs)
    <3>1. Ledger(bs) = Ledger(as) + OrZero(e.comm) /\ Ledger(as) \in Int /\ OrZero(e.comm) \in Int
      BY <1>0, <1>1, <2>0, <2>1, LedgerFill
    <3>2. state'.balance = (pack.start_balance + Ledger(as)) + OrZero(e.comm)
      BY <1>2, <1>8 DEF OpenedNow
    <3>3. PICK a, b, k : a = pack.start_balance /\ b = Ledger(as) /\ k = OrZero(e.comm)
      OBVIOUS
    <3>4. a \in Int /\ b \in Int /\ k \in Int
      BY <3>1, <3>3
    <3>5. (a + b) + k = a + (b + k)
      BY <3>4
    <3> QED BY <3>1, <3>2, <3>3, <3>5
  <2>5. ASSUME NEW o \in Orders
        PROVE  Paired(state'.positions[o], state'.deferred_closes[o], o, bs)
    <3>1. /\ state'.positions = [state.positions EXCEPT ![e.order] = PositionOf(e)]
          /\ state'.deferred_closes = [state.deferred_closes EXCEPT ![e.order] = <<>>]
      BY <1>8 DEF OpenedNow
    <3>2. CASE o # e.order
      BY <1>2, <2>3, <3>1, <3>2, PairedAlike
    <3>3. CASE o = e.order
      <4>1. /\ state'.positions[o] = PositionOf(e) /\ FillsAt(o, bs) = {e} /\ ClosesAt(o, bs) = {}
        BY <1>2, <2>0, <2>1, <2>3, <3>1, <3>3
      <4>2. PositionOf(e) # None
        <5>1. PositionOf(e) \in Positions
          BY <2>0, EngineAssumption DEF PositionOf, Positions
        <5> QED BY <5>1, EngineAssumption
      <4> QED BY <4>1, <4>2 DEF Paired
    <3> QED BY <3>2, <3>3
  <2>6. Mismatched(alerts') = DoubtedIn(bs)
    BY <1>2, <1>8, <2>3 DEF OpenedNow, DoubtedIn
  <2> QED BY <1>1, <2>4, <2>5, <2>6 DEF Accounted
<1>9. ASSUME NEW c \in Stream, DrainedNow(e, c) PROVE Accounted(state', applied', alerts')
  <2>0. e.type = "fill" /\ e.order \in Orders /\ e.px # Bad /\ c.type = "close" /\ c.px # Bad
    BY <1>9, EngineAssumption DEF DrainedNow, ClosesFor
  <2>1. FillsAt(e.order, as) = {} /\ ClosesAt(e.order, as) = {c}
    <3>1. FillsAt(e.order, as) = {}
      BY <1>1, <2>0
    <3>2. PICK q : q = state.deferred_closes[e.order]
      OBVIOUS
    <3>3. PICK i \in Parsed(q) : c = q[i]
      BY <1>9, <3>2 DEF DrainedNow
    <3>4. Paired(state.positions[e.order], q, e.order, as)
      BY <1>2, <2>0, <3>2
    <3>5. ClosesAt(e.order, as) = {q[i]}
      <4>1. Priced(q) = ClosesAt(e.order, as) /\ \A x, y \in ClosesAt(e.order, as) : x = y
        BY <3>1, <3>4 DEF Paired
      <4>2. q[i] \in ClosesAt(e.order, as)
        BY <4>1 DEF Priced
      <4> QED BY <4>1, <4>2
    <3> QED BY <3>1, <3>3, <3>5
  <2>2. AdjustmentsIn(bs) = AdjustmentsIn(as)
    BY <1>0, <2>0 DEF AdjustmentsIn
  <2>3. /\ TripsIn(bs) = TripsIn(as) \cup {<<e, c>>} /\ FillsAt(e.order, bs) = {e}
        /\ \A o : o # e.order => FillsAt(o, bs) = FillsAt(o, as)
        /\ \A o : ClosesAt(o, bs) = ClosesAt(o, as)
    <3>1. /\ TripsIn(bs) = TripsIn(as) \cup {<<e, d>> : d \in ClosesAt(e.order, as)}
          /\ FillsAt(e.order, bs) = FillsAt(e.order, as) \cup {e}
          /\ \A o : o # e.order => FillsAt(o, bs) = FillsAt(o, as)
          /\ \A o : ClosesAt(o, bs) = ClosesAt(o, as)
      <4>1. e.type = "fill" /\ e.px # Bad /\ bs = as \cup {e}
        BY <1>0, <2>0
      <4> QED BY <4>1, FillArrives
    <3> QED BY <2>1, <3>1
  <2>4. state'.balance = pack.start_balance + Ledger(bs)
    <3>1. /\ Ledger(bs) = Ledger(as) + OrZero(e.comm) + Gain(e, c)
          /\ Ledger(as) \in Int /\ OrZero(e.comm) \in Int /\ Gain(e, c) \in Int
      BY <1>0, <1>1, <2>0, <2>1, LedgerFill
    <3>2. PICK p, r, k : p = Pnl(PositionOf(e), c.px) /\ r = OrZero(c.fee) /\ k = OrZero(e.comm)
      OBVIOUS
    <3>3. /\ state'.balance = (pack.start_balance + Ledger(as)) + k + p + r /\ Gain(e, c) = p + r
      BY <1>2, <1>9, <3>2 DEF DrainedNow, Gain
    <3>4. p \in Int /\ r \in Int /\ k \in Int
      <4>1. PositionOf(e) \in Positions
        BY <2>0, EngineAssumption DEF PositionOf, Positions
      <4>2. c.px \in Int /\ OrZero(c.fee) \in Int
        BY <2>0, EngineAssumption DEF OrZero
      <4> QED BY <3>1, <3>2, <4>1, <4>2, PnlInt
    <3>5. PICK a, b : a = pack.start_balance /\ b = Ledger(as)
      OBVIOUS
    <3>6. a \in Int /\ b \in Int
      BY <3>1, <3>5
    <3>7. (a + b) + k + p + r = a + (b + k + (p + r))
      BY <3>4, <3>6
    <3> QED BY <3>1, <3>2, <3>3, <3>5, <3>7
  <2>5. ASSUME NEW o \in Orders
        PROVE  Paired(state'.positions[o], state'.deferred_closes[o], o, bs)
    <3>1. /\ state'.positions = state.positions /\ state.positions[e.order] = None
          /\ state'.deferred_closes = [state.deferred_closes EXCEPT ![e.order] = <<>>]
      BY <1>9 DEF DrainedNow
    <3>2. CASE o # e.order
      BY <1>2, <2>3, <3>1, <3>2, PairedAlike
    <3>3. CASE o = e.order
      <4>1. state'.positions[o] = None /\ FillsAt(o, bs) = {e} /\ ClosesAt(o, bs) = {c}
        BY <2>1, <2>3, <3>1, <3>3
      <4> QED BY <4>1 DEF Paired
    <3> QED BY <3>2, <3>3
  <2>6. Mismatched(alerts') = DoubtedIn(bs)
    <3>1. DoubtedIn(bs) = DoubtedIn(as) \cup Doubted(PositionOf(e), c)
      <4>1. OneTripMore(as, bs, e, c)
        BY <2>3 DEF OneTripMore
      <4>2. DoubtsJoined(as, bs, e, c)
        BY <4>1, DoubtsGrow
      <4> QED BY <4>2 DEF DoubtsJoined
    <3>2. Mismatched(alerts') = Mismatched(alerts) \cup Doubted(PositionOf(e), c)
      BY <1>9 DEF DrainedNow
    <3> QED BY <1>2, <3>1, <3>2
  <2> QED BY <1>1, <2>4, <2>5, <2>6 DEF Accounted
<1> QED BY <1>3, <1>4, <1>5, <1>6, <1>7, <1>8, <1>9 DEF BookStepOf

\* The whole invariant of the account.
InAccount == Earned /\ pack.start_balance \in Int /\ Accounted(state, applied, alerts)

LEMMA InAccountInit == ASSUME Init PROVE InAccount
<1>1. /\ state.positions = [o \in Orders |-> None] /\ state.balance = pack.start_balance
      /\ state.deferred_closes = [o \in Orders |-> <<>>]
      /\ applied = {} /\ alerts = {}
  BY DEF Init, NewAccount
<1>2. pack.start_balance \in Int
  BY NewAccountSound
<1>3. AdjustmentsIn(applied) = {} /\ FillsIn(applied) = {} /\ ClosesIn(applied) = {} /\ TripsIn(applied) = {}
  BY <1>1 DEF AdjustmentsIn, FillsIn, ClosesIn, TripsIn
<1>4. Ledger(applied) = 0
  <2>1. Total(Amounts, {}) = 0 /\ Total(Comms, {}) = 0 /\ Total(Gains, {}) = 0
    BY TotalEmpty
  <2> QED BY <1>3, <2>1 DEF Ledger
<1>5. \A o \in Orders : Paired(state.positions[o], state.deferred_closes[o], o, applied)
  <2> SUFFICES ASSUME NEW o \in Orders
               PROVE  Paired(state.positions[o], state.deferred_closes[o], o, applied)
    OBVIOUS
  <2>1. state.positions[o] = None /\ state.deferred_closes[o] = <<>>
    BY <1>1
  <2>2. FillsAt(o, applied) = {} /\ ClosesAt(o, applied) = {}
    BY <1>3 DEF FillsAt, ClosesAt
  <2>3. Priced(<<>>) = {}
    BY DEF Priced, Parsed
  <2> QED BY <2>1, <2>2, <2>3 DEF Paired
<1>6. Mismatched(alerts) = DoubtedIn(applied)
  BY <1>1, <1>3 DEF Mismatched, DoubtedIn
<1> QED BY <1>1, <1>2, <1>4, <1>5, <1>6, EarnedInit DEF InAccount, Accounted

LEMMA InAccountStep == ASSUME OneDealEach, InAccount, [Next]_vars PROVE InAccount'
<1>1. Earned'
  BY EarnedStep DEF InAccount
<1>2. CASE UNCHANGED vars
  BY <1>1, <1>2 DEF vars, InAccount, Accounted, Ledger, DoubtedIn, Doubted, Mismatched
<1>3. CASE ~UNCHANGED vars
  <2>1. PICK e \in Stream : Apply(e)
    BY <1>3 DEF Next
  <2>2. Typed(state) /\ GivenTo(verdicts, state) /\ Stems(state, applied)
    BY DEF InAccount, Earned, Sound
  <2>3. Fresh(e)
    BY <1>3, <2>1, <2>2, AppliedAndSeen
  <2>4. Accounted(state', applied', alerts')
    BY <2>1, <2>2, <2>3, AccountedStep DEF InAccount
  <2>5. pack' = pack
    BY <2>1, PackKept
  <2>6. Accounted(state, applied, alerts)'
    BY <2>4, <2>5 DEF Accounted, DoubtedIn, Doubted
  <2> QED BY <1>1, <2>5, <2>6 DEF InAccount
<1> QED BY <1>2, <1>3

\* The sums of the property are those of the ledger.
LEMMA AmountsSum ==
  ASSUME NEW S
  PROVE  MapThenSumSet(LAMBDA e : e.amount, S) = Total([e \in S |-> e.amount], S)
BY ZenonT(60) DEF MapThenSumSet, MapThenFoldSet, Sums, SumsOf, Total, Choice

LEMMA CommsSum ==
  ASSUME NEW S
  PROVE  MapThenSumSet(LAMBDA f : OrZero(f.comm), S) = Total([f \in S |-> OrZero(f.comm)], S)
BY ZenonT(60) DEF MapThenSumSet, MapThenFoldSet, Sums, SumsOf, Total, Choice

LEMMA GainsSum ==
  ASSUME NEW S
  PROVE  MapThenSumSet(LAMBDA t : OrZero(t[2].fee)
                + (IF t[1].side = "buy" THEN t[2].px - t[1].px ELSE t[1].px - t[2].px) * t[1].volume, S)
         = Total([t \in S |-> OrZero(t[2].fee)
                + (IF t[1].side = "buy" THEN t[2].px - t[1].px ELSE t[1].px - t[2].px) * t[1].volume], S)
BY ZenonT(60) DEF MapThenSumSet, MapThenFoldSet, Sums, SumsOf, Total, Choice

\* What a round trip gained, as a number.
LEMMA TripGain ==
  ASSUME NEW f \in Stream, f.type = "fill", f.px # Bad, NEW c \in Stream, c.type = "close", c.px # Bad
  PROVE  /\ Pnl(PositionOf(f), c.px)
              = (IF f.side = "buy" THEN c.px - f.px ELSE f.px - c.px) * f.volume
         /\ Pnl(PositionOf(f), c.px)
              = f.volume * (IF f.side = "buy" THEN c.px - f.px ELSE f.px - c.px)
         /\ Gain(f, c) = OrZero(c.fee) + (IF f.side = "buy" THEN c.px - f.px ELSE f.px - c.px) * f.volume
         /\ Pnl(PositionOf(f), c.px) \in Int
<1>1. /\ PositionOf(f).side = f.side /\ PositionOf(f).entry_px = f.px /\ PositionOf(f).volume = f.volume
  BY DEF PositionOf
<1>2. PICK d : d = IF f.side = "buy" THEN c.px - f.px ELSE f.px - c.px
  OBVIOUS
<1>3. c.px \in Int /\ f.px \in Int /\ f.volume \in Int /\ OrZero(c.fee) \in Int
  BY EngineAssumption DEF OrZero
<1>4. d \in Int
  BY <1>2, <1>3
<1>5. Pnl(PositionOf(f), c.px) = d * f.volume
  BY <1>1, <1>2 DEF Pnl
<1>6. PICK v, z : v = f.volume /\ z = OrZero(c.fee)
  OBVIOUS
<1>7. v \in Int /\ z \in Int
  BY <1>3, <1>6
<1>8. d * v = v * d /\ d * v \in Int
  BY <1>4, <1>7
<1>9. d * v + z = z + d * v
  BY <1>7, <1>8
<1> QED BY <1>2, <1>5, <1>6, <1>8, <1>9 DEF Gain

\* The invariant says what the property says of book, balance and alerts.
LEMMA InAccountIs == ASSUME InAccount PROVE DealsAccounted
<1>1. TypeOK
  BY EarnedTyped DEF InAccount
<1>2. /\ \A o \in Orders : FillsOf(o) = FillsAt(o, applied) /\ ClosesOf(o) = ClosesAt(o, applied)
      /\ Adjustments = AdjustmentsIn(applied)
  BY DEF FillsOf, ClosesOf, FillsAt, ClosesAt, FillsIn, ClosesIn, Adjustments, AdjustmentsIn
<1>3. IsFiniteSet(applied) /\ applied \subseteq Stream
  BY DEF InAccount, Earned, Stems
<1>4. UNION {FillsOf(o) : o \in Orders} = FillsIn(applied)
  BY <1>3, EngineAssumption DEF FillsOf, FillsIn
<1>5. RoundTrips = TripsIn(applied)
  <2>1. ASSUME NEW t \in RoundTrips PROVE t \in TripsIn(applied)
    <3>1. PICK o \in Orders : t \in FillsOf(o) \X ClosesOf(o)
      BY DEF RoundTrips
    <3>2. PICK f \in FillsOf(o) : \E c \in ClosesOf(o) : t = <<f, c>>
      BY <3>1
    <3>3. PICK c \in ClosesOf(o) : t = <<f, c>>
      BY <3>2
    <3> QED BY <3>3 DEF TripsIn, FillsOf, ClosesOf, FillsIn, ClosesIn
  <2>2. ASSUME NEW t \in TripsIn(applied) PROVE t \in RoundTrips
    <3>1. PICK f \in FillsIn(applied) : \E c \in ClosesIn(applied) : t = <<f, c>>
      BY DEF TripsIn
    <3>2. PICK c \in ClosesIn(applied) : t = <<f, c>>
      BY <3>1
    <3>3. f.order = c.order /\ f.order \in Orders
      BY <1>3, <3>2, EngineAssumption DEF TripsIn, FillsIn
    <3>4. f \in FillsOf(f.order) /\ c \in ClosesOf(f.order)
      BY <3>3 DEF FillsOf, ClosesOf, FillsIn, ClosesIn
    <3> QED BY <3>2, <3>3, <3>4 DEF RoundTrips
  <2> QED BY <2>1, <2>2
<1>6. ASSUME NEW t \in TripsIn(applied)
      PROVE  /\ t[1] \in Stream /\ t[1].type = "fill" /\ t[1].px # Bad
             /\ t[2] \in Stream /\ t[2].type = "close" /\ t[2].px # Bad
  BY <1>3 DEF TripsIn, FillsIn, ClosesIn
<1>7. BookMatchesDeals
  <2>1. \A o \in Orders : Paired(state.positions[o], state.deferred_closes[o], o, applied)
    BY DEF InAccount, Accounted
  <2> QED BY <1>2, <2>1 DEF Paired, BookMatchesDeals
<1>8. LedgerBalanced
  <2>1. PICK A, F, T : A = AdjustmentsIn(applied) /\ F = FillsIn(applied) /\ T = TripsIn(applied)
    OBVIOUS
  <2>2. IsFiniteSet(A) /\ IsFiniteSet(F) /\ IsFiniteSet(T)
    BY <1>3, <2>1, LedgerInts
  <2>3. MapThenSumSet(LAMBDA e : e.amount, A) = Total(Amounts, A)
    <3>1. PICK g : g = [e \in A |-> e.amount]
      OBVIOUS
    <3>2. \A x \in A : g[x] = Amounts[x]
      BY <1>3, <2>1, <3>1, LedgerInts
    <3>3. Total(g, A) = Total(Amounts, A)
      BY <2>2, <3>2, TotalAgree
    <3> QED BY <3>1, <3>3, AmountsSum
  <2>4. MapThenSumSet(LAMBDA f : OrZero(f.comm), F) = Total(Comms, F)
    <3>1. PICK g : g = [f \in F |-> OrZero(f.comm)]
      OBVIOUS
    <3>2. \A x \in F : g[x] = Comms[x]
      BY <1>3, <2>1, <3>1, LedgerInts
    <3>3. Total(g, F) = Total(Comms, F)
      BY <2>2, <3>2, TotalAgree
    <3> QED BY <3>1, <3>3, CommsSum
  <2>5. MapThenSumSet(LAMBDA t : OrZero(t[2].fee)
                + (IF t[1].side = "buy" THEN t[2].px - t[1].px ELSE t[1].px - t[2].px) * t[1].volume, T)
          = Total(Gains, T)
    <3>1. PICK g : g = [t \in T |-> OrZero(t[2].fee)
                + (IF t[1].side = "buy" THEN t[2].px - t[1].px ELSE t[1].px - t[2].px) * t[1].volume]
      OBVIOUS
    <3>2. ASSUME NEW x \in T PROVE g[x] = Gains[x]
      <4>1. Gains[x] = Gain(x[1], x[2])
        BY <1>3, <2>1, LedgerInts
      <4>2. g[x] = OrZero(x[2].fee)
                + (IF x[1].side = "buy" THEN x[2].px - x[1].px ELSE x[1].px - x[2].px) * x[1].volume
        BY <3>1
      <4>3. Gain(x[1], x[2]) = OrZero(x[2].fee)
                + (IF x[1].side = "buy" THEN x[2].px - x[1].px ELSE x[1].px - x[2].px) * x[1].volume
        BY <1>6, <2>1, TripGain
      <4> QED BY <4>1, <4>2, <4>3
    <3>3. Total(g, T) = Total(Gains, T)
      BY <2>2, <3>2, TotalAgree
    <3> QED BY <3>1, <3>3, GainsSum
  <2>6. state.balance = pack.start_balance + (Total(Amounts, A) + Total(Comms, F) + Total(Gains, T))
    BY <2>1 DEF InAccount, Accounted, Ledger
  <2>7. PICK a, b, c, d : /\ a = pack.start_balance /\ b = Total(Amounts, A)
                          /\ c = Total(Comms, F) /\ d = Total(Gains, T)
    OBVIOUS
  <2>8. a \in Int /\ b \in Int /\ c \in Int /\ d \in Int
    BY <1>3, <2>1, <2>7, LedgerInts DEF InAccount
  <2>9. a + (b + c + d) = a + b + c + d
    BY <2>8
  <2> QED BY <1>2, <1>4, <1>5, <2>1, <2>3, <2>4, <2>5, <2>6, <2>7, <2>9 DEF LedgerBalanced
<1>9. MismatchesReported
  <2>1. Mismatched(alerts) = DoubtedIn(applied)
    BY DEF InAccount, Accounted
  <2>2. PICK T : T = {u \in RoundTrips :
         /\ u[2].pnl # Bad
         /\ LET gap == u[2].pnl - u[1].volume
                        * (IF u[1].side = "buy" THEN u[2].px - u[1].px ELSE u[1].px - u[2].px)
            IN  gap > pack.pnl_tolerance \/ -gap > pack.pnl_tolerance}
    OBVIOUS
  <2>3. ASSUME NEW t \in TripsIn(applied)
        PROVE  Doubted(PositionOf(t[1]), t[2]) = IF t \in T THEN {DedupKey(t[2])} ELSE {}
    <3>1. Pnl(PositionOf(t[1]), t[2].px)
            = t[1].volume * (IF t[1].side = "buy" THEN t[2].px - t[1].px ELSE t[1].px - t[2].px)
      BY <1>6, TripGain
    <3> QED BY <1>5, <2>2, <3>1 DEF Doubted
  <2>4. DoubtedIn(applied) = {DedupKey(t[2]) : t \in T}
    <3>1. T \subseteq TripsIn(applied)
      BY <1>5, <2>2
    <3>2. ASSUME NEW k \in DoubtedIn(applied) PROVE k \in {DedupKey(t[2]) : t \in T}
      <4>1. PICK t \in TripsIn(applied) : k \in Doubted(PositionOf(t[1]), t[2])
        BY DEF DoubtedIn
      <4>2. t \in T /\ k = DedupKey(t[2])
        BY <2>3, <4>1
      <4> QED BY <4>2
    <3>3. ASSUME NEW t \in T PROVE DedupKey(t[2]) \in DoubtedIn(applied)
      BY <2>3, <3>1 DEF DoubtedIn
    <3> QED BY <3>2, <3>3
  <2> QED BY <2>1, <2>2, <2>4, Zenon DEF MismatchesReported, Mismatched
<1> QED BY <1>1, <1>7, <1>8, <1>9 DEF DealsAccounted

\* For every stream in which an order is opened by one deal and closed by one,
\* and in every order and repetition of delivery, the book holds the orders whose
\* fill and not whose close took effect, the balance is the start balance with
\* every adjustment, commission and round trip once, and the mismatch alerts are
\* those of the round trips whose reported gain differs from the recomputed one.
THEOREM DealsAreAccounted ==
  ASSUME OneDealEach
  PROVE  Spec => []DealsAccounted
<1>1. Init => InAccount
  BY InAccountInit
<1>2. InAccount /\ [Next]_vars => InAccount'
  BY InAccountStep
<1>3. InAccount => DealsAccounted
  BY InAccountIs
<1> QED BY <1>1, <1>2, <1>3, PTL DEF Spec
=============================================================================
