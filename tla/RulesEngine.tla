----------------------------- MODULE RulesEngine -----------------------------
(***************************************************************************)
(* The rules engine (pf-platform/rust/crates/rules-engine): one account's  *)
(* state machine over canonical events.                                    *)
(*                                                                         *)
(* Stream is the set of events that exist for the account.  Delivery is    *)
(* at least once and in any order: every step hands some event of Stream   *)
(* to apply.  Two members of Stream may carry one deal id, event id or     *)
(* date: they are versions of one event (a malformed one and its           *)
(* correction, say), and whichever comes first wins.                       *)
(*                                                                         *)
(* apply is pure, so one call is one step: its state transformers are      *)
(* operators on the account record, composed in the order of the calls.    *)
(***************************************************************************)
EXTENDS RulePack, Sequences, FiniteSets, FiniteSetsExt

CONSTANTS
  Orders,
  Packs,       \* the rule packs (RulePacks) an account may be created under
  Stream,      \* the account's canonical events
  InitialDay,
  Bad          \* a wire string Decimal::from_str refuses

Positions == [symbol : Symbols, side : {"buy", "sell"}, volume : Int, entry_px : Int, opened_ts : Int]

\* What deserialisation guarantees of packs and events: enumerations, integers
\* and finite volumes are what they should be, a decimal may be a string that
\* is none.
ASSUME EngineAssumption ==
  /\ Packs \subseteq RulePacks
  /\ Bad \notin Int /\ None \notin Positions
  /\ \A e \in Stream :
       /\ e.type \in {"fill", "close", "mark", "adjustment", "report", "news", "rollover"}
       /\ e.seq \in Nat /\ e.ts \in Int
       /\ e.type \in {"fill", "close"} => e.order \in Orders
       /\ e.type \in {"fill", "close", "mark", "news"} => e.symbol \in Symbols
       /\ e.type \in {"fill", "close", "mark"} => e.px \in Int \cup {Bad}
       /\ e.type = "fill" => e.side \in {"buy", "sell"} /\ e.volume \in Int /\ e.comm \in Int \cup {Bad}
       /\ e.type = "close" => e.pnl \in Int \cup {Bad} /\ e.fee \in Int \cup {Bad}
       /\ e.type = "adjustment" => e.amount \in Int \cup {Bad}
       /\ e.type = "report" => e.balance \in Int \cup {Bad}
       /\ e.type = "news" => e.tier \in Tiers /\ e.start \in Int /\ e.end \in Int

VARIABLES
  pack,        \* the compiled pack, chosen when the account is created
  state,       \* AccountState
  verdicts,    \* every verdict returned so far, in order
  alerts,      \* every integrity alert returned so far
  applied      \* the events that were not dropped as duplicates (history)

vars == <<pack, state, verdicts, alerts, applied>>

-----------------------------------------------------------------------------
(* Events *)

DedupKey(e) ==
  CASE e.type \in {"fill", "close"} -> <<"deal", e.deal>>
    [] e.type = "rollover"          -> <<"day", e.date>>
    [] OTHER                        -> <<"ev", e.id>>

\* decimal(s).unwrap_or(ZERO)
OrZero(amount) == IF amount = Bad THEN 0 ELSE amount

Verdict(s, rule, status) == [rule |-> rule, status |-> status, day |-> s.day.date]

Alert(kind, e) == [kind |-> kind, key |-> DedupKey(e)]

-----------------------------------------------------------------------------
(* Account state *)

NewDay(date, equity) ==
  [date |-> date, start_equity |-> equity, worst_equity |-> equity,
   traded |-> FALSE, daily_breached |-> FALSE]

\* AccountState::new.  deferred_closes is kept per order: a drain only looks
\* at the closes of one order.
NewAccount(p) ==
  [balance |-> p.start_balance,
   hwm |-> p.start_balance,
   day |-> NewDay(InitialDay, p.start_balance),
   day_counter |-> 0,
   positions |-> [o \in Orders |-> None],
   last_px |-> [y \in Symbols |-> None],
   overall_breached |-> FALSE,
   target_reached |-> FALSE,
   news_windows |-> {},
   deferred_closes |-> [o \in Orders |-> <<>>],
   seen_dedup_keys |-> {},
   seq_applied |-> 0,
   last_broker_ts |-> None]

Pnl(pos, px) == (IF pos.side = "buy" THEN px - pos.entry_px ELSE pos.entry_px - px) * pos.volume

Unrealized(pos, last_px) ==
  IF last_px[pos.symbol] = None THEN 0 ELSE Pnl(pos, last_px[pos.symbol])

Equity(balance, positions, last_px) ==
  balance + MapThenSumSet(LAMBDA o : Unrealized(positions[o], last_px),
                          {o \in Orders : positions[o] # None})

EquityOf(s) == Equity(s.balance, s.positions, s.last_px)

\* Mutated form: the high-water mark follows the balance.
TrailedBalance(s) ==
  IF pack.trailing /\ s.balance > s.hwm THEN s.balance ELSE s.hwm

TrailedHwm(s) ==
  IF pack.trailing /\ EquityOf(s) > s.hwm THEN EquityOf(s) ELSE s.hwm

-----------------------------------------------------------------------------
(* check_rules *)

\* Mutated form: every pack is judged on the balance.
DailyHitOnBalance(s) ==
  /\ pack.daily_breach_intraday
  /\ ~s.day.daily_breached
  /\ BelowDailyFloor(pack, s.balance, s.day.start_equity)

\* max daily loss, intraday packs
DailyHit(s) ==
  /\ pack.daily_breach_intraday
  /\ ~s.day.daily_breached
  /\ BelowDailyFloor(pack, IF pack.daily_basis_equity THEN EquityOf(s) ELSE s.balance,
                     s.day.start_equity)

\* Mutated form: a breach is reported again.
OverallHitAgain(s) == ~DailyHit(s) /\ BelowOverallFloor(pack, EquityOf(s), s.hwm)

\* The return after a daily breach skips the two rules below it.
OverallHit(s) ==
  /\ ~DailyHit(s)
  /\ ~s.overall_breached
  /\ BelowOverallFloor(pack, EquityOf(s), s.hwm)

\* Mutated form: the running day counts as traded.
TargetHitEarly(s) ==
  /\ ~DailyHit(s)
  /\ ~s.target_reached
  /\ s.day_counter + 1 >= pack.min_trading_days
  /\ AtTarget(pack, EquityOf(s))

TargetHit(s) ==
  /\ ~DailyHit(s)
  /\ ~s.target_reached
  /\ s.day_counter >= pack.min_trading_days
  /\ AtTarget(pack, EquityOf(s))

\* Mutated form: the worst balance is tracked.
WorstBalance(s) ==
  IF ~pack.daily_breach_intraday /\ s.balance < s.day.worst_equity
  THEN s.balance
  ELSE s.day.worst_equity

WorstEquity(s) ==
  IF ~pack.daily_breach_intraday /\ EquityOf(s) < s.day.worst_equity
  THEN EquityOf(s)
  ELSE s.day.worst_equity

CheckRules(s) ==
  [s EXCEPT !.day.worst_equity = WorstEquity(s),
            !.day.daily_breached = @ \/ DailyHit(s),
            !.overall_breached = @ \/ OverallHit(s),
            !.target_reached = @ \/ TargetHit(s)]

\* A sequence of one verdict, or of none.
When(hit, v) == IF hit THEN <<v>> ELSE <<>>

RuleVerdicts(s) ==
  When(DailyHit(s), Verdict(s, "DailyMaxLoss", "Breach"))
    \o When(OverallHit(s), Verdict(s, "MaxOverallLoss", "Breach"))
    \o When(TargetHit(s), Verdict(s, "ProfitTarget", "TargetReached"))

-----------------------------------------------------------------------------
(* apply_close *)

\* Mutated forms: the position stays in the book; the reported PnL is booked;
\* a breached account is not settled.
SettledStillOpen(s, c) ==
  LET t == [s EXCEPT !.balance = @ + Pnl(s.positions[c.order], c.px) + OrZero(c.fee),
                     !.last_px[c.symbol] = c.px,
                     !.day.traded = TRUE]
  IN  [t EXCEPT !.hwm = TrailedHwm(t)]
SettledAsReported(s, c) ==
  LET t == [s EXCEPT !.balance = @ + OrZero(c.pnl) + OrZero(c.fee),
                     !.positions[c.order] = None,
                     !.last_px[c.symbol] = c.px,
                     !.day.traded = TRUE]
  IN  [t EXCEPT !.hwm = TrailedHwm(t)]
SettledUnlessBreached(s, c) ==
  IF s.day.daily_breached THEN [s EXCEPT !.positions[c.order] = None]
  ELSE LET t == [s EXCEPT !.balance = @ + Pnl(s.positions[c.order], c.px) + OrZero(c.fee),
                          !.positions[c.order] = None,
                          !.last_px[c.symbol] = c.px,
                          !.day.traded = TRUE]
       IN  [t EXCEPT !.hwm = TrailedHwm(t)]

\* The ledger part of apply_close, for a parsed close c of an open position.
Settled(s, c) ==
  LET t == [s EXCEPT !.balance = @ + Pnl(s.positions[c.order], c.px) + OrZero(c.fee),
                     !.positions[c.order] = None,
                     !.last_px[c.symbol] = c.px,
                     !.day.traded = TRUE]
  IN  [t EXCEPT !.hwm = TrailedHwm(t)]

CloseAlerts(s, c) ==
  LET gap == c.pnl - Pnl(s.positions[c.order], c.px) IN
  IF c.pnl # Bad /\ (gap > pack.pnl_tolerance \/ -gap > pack.pnl_tolerance)
  THEN {Alert("PNL_MISMATCH", c)}
  ELSE {}

\* apply_close on each deferred close q of an order just filled, in turn: the
\* malformed ones are dropped with an alert, the first parsed one closes the
\* position, the ones after it find no position and return.
Parsed(q) == {i \in DOMAIN q : q[i].px # Bad}
Drains(q) == Parsed(q) # {}
Drainer(q) == q[Min(Parsed(q))]

\* Mutated form: a fill forgets the closes that overtook it.
Undrained(s, o) == s

Drained(s, o) ==
  LET q == s.deferred_closes[o]
      t == [s EXCEPT !.deferred_closes[o] = <<>>]
  IN  IF Drains(q) THEN CheckRules(Settled(t, Drainer(q))) ELSE t

DrainVerdicts(s, o) ==
  LET q == s.deferred_closes[o] IN
  IF Drains(q) THEN RuleVerdicts(Settled(s, Drainer(q))) ELSE <<>>

\* Mutated form: a drained close is not cross-checked.
DrainAlertsQuiet(s, o) ==
  LET q == s.deferred_closes[o] IN {Alert("MALFORMED", q[i]) : i \in DOMAIN q \ Parsed(q)}

DrainAlerts(s, o) ==
  LET q == s.deferred_closes[o] IN
  {Alert("MALFORMED", q[i]) : i \in DOMAIN q \ Parsed(q)}
    \cup (IF Drains(q) THEN CloseAlerts(s, Drainer(q)) ELSE {})

-----------------------------------------------------------------------------
(* apply: steps 1 and 2, and the bookkeeping at its end *)

Fresh(e) == DedupKey(e) \notin state.seen_dedup_keys

\* Mutated form: the dedup key is looked up but never stored.
ArrivedUnrecorded(e) == state

Arrived(e) == [state EXCEPT !.seen_dedup_keys = @ \cup {DedupKey(e)}]

ClockAlerts(e) ==
  (IF state.last_broker_ts # None /\ e.ts < state.last_broker_ts
   THEN {Alert("BROKER_TS_REGRESSION", e)} ELSE {})
    \cup (IF e.seq < state.seq_applied THEN {Alert("SEQ_REGRESSION", e)} ELSE {})

Booked(s, e) ==
  [s EXCEPT !.seq_applied = IF e.seq > @ THEN e.seq ELSE @,
            !.last_broker_ts = IF @ = None \/ e.ts > @ THEN e.ts ELSE @]

\* apply returns state s, verdicts vs and alerts as for event e.
Return(e, s, vs, as) ==
  /\ state' = s
  /\ verdicts' = verdicts \o vs
  /\ alerts' = alerts \cup ClockAlerts(e) \cup as
  /\ applied' = applied \cup {e}
  /\ UNCHANGED pack

-----------------------------------------------------------------------------
(* apply: one action per event type *)

Duplicate(e) == ~Fresh(e) /\ UNCHANGED vars

\* An unparseable mark falls through to the bookkeeping without an alert.
Mark(e) ==
  /\ e.type = "mark" /\ Fresh(e)
  /\ \/ /\ e.px = Bad
        /\ Return(e, Booked(Arrived(e), e), <<>>, {})
     \/ /\ e.px # Bad
        /\ LET s == [Arrived(e) EXCEPT !.last_px[e.symbol] = e.px]
           IN  Return(e, Booked(CheckRules(s), e), RuleVerdicts(s), {})

\* Mutated form: a window never ends.
NewsVerdictsOpenEnded(e) ==
  When(/\ pack.news.enabled
       /\ SymbolInScope(pack.news, e.symbol)
       /\ \E w \in state.news_windows :
             w.symbol = e.symbol /\ TierInScope(pack.news, w.tier) /\ w.start <= e.ts,
       Verdict(state, "NewsRule", IF pack.news.pre_positioned_flag THEN "Flagged" ELSE "Breach"))

NewsVerdicts(e) ==
  When(/\ pack.news.enabled
       /\ SymbolInScope(pack.news, e.symbol)
       /\ \E w \in state.news_windows :
             /\ w.symbol = e.symbol
             /\ TierInScope(pack.news, w.tier)
             /\ w.start <= e.ts /\ e.ts <= w.end,
       Verdict(state, "NewsRule", IF pack.news.pre_positioned_flag THEN "Flagged" ELSE "Breach"))

Opened(s, e) ==
  [s EXCEPT !.positions[e.order] = [symbol |-> e.symbol, side |-> e.side, volume |-> e.volume,
                                    entry_px |-> e.px, opened_ts |-> e.ts],
            !.last_px[e.symbol] = e.px,
            !.balance = @ + OrZero(e.comm)]

OrderFilled(e) ==
  /\ e.type = "fill" /\ Fresh(e)
  /\ \/ /\ e.px = Bad
        /\ Return(e, Arrived(e), <<>>, {Alert("MALFORMED", e)})
     \/ /\ e.px # Bad
        /\ state.positions[e.order] # None
        /\ Return(e, Arrived(e), NewsVerdicts(e), {Alert("DUPLICATE_FILL", e)})
     \/ /\ e.px # Bad
        /\ state.positions[e.order] = None
        /\ LET s == Opened(Arrived(e), e)
               t == Drained(s, e.order)
           IN  Return(e, Booked(CheckRules(t), e),
                      NewsVerdicts(e) \o DrainVerdicts(s, e.order) \o RuleVerdicts(t),
                      DrainAlerts(s, e.order))

TradeClosed(e) ==
  /\ e.type = "close" /\ Fresh(e)
  /\ \/ /\ state.positions[e.order] = None
        /\ Return(e, [Arrived(e) EXCEPT !.deferred_closes[e.order] = Append(@, e)], <<>>,
                  {Alert("CLOSE_DEFERRED", e)})
     \/ /\ state.positions[e.order] # None
        /\ e.px = Bad
        /\ Return(e, Booked(Arrived(e), e), <<>>, {Alert("MALFORMED", e)})
     \/ /\ state.positions[e.order] # None
        /\ e.px # Bad
        /\ LET s == Settled(Arrived(e), e)
           IN  Return(e, Booked(CheckRules(s), e), RuleVerdicts(s), CloseAlerts(state, e))

BalanceAdjustment(e) ==
  /\ e.type = "adjustment" /\ Fresh(e)
  /\ \/ /\ e.amount = Bad
        /\ Return(e, Arrived(e), <<>>, {Alert("MALFORMED", e)})
     \/ /\ e.amount # Bad
        /\ LET t == [Arrived(e) EXCEPT !.balance = @ + e.amount]
               s == [t EXCEPT !.hwm = TrailedHwm(t)]
           IN  Return(e, Booked(CheckRules(s), e), RuleVerdicts(s), {})

\* A cross-check only: the platform ledger is never overwritten.
AccountStateReport(e) ==
  /\ e.type = "report" /\ Fresh(e)
  /\ LET drift == e.balance - state.balance IN
     Return(e, Booked(Arrived(e), e), <<>>,
            IF e.balance # Bad /\ (drift > pack.pnl_tolerance \/ -drift > pack.pnl_tolerance)
            THEN {Alert("BALANCE_DRIFT", e)} ELSE {})

\* Every window is recorded; one out of scope returns before the bookkeeping.
NewsWindow(e) ==
  /\ e.type = "news" /\ Fresh(e)
  /\ LET s == [Arrived(e) EXCEPT !.news_windows =
                 @ \cup {[symbol |-> e.symbol, tier |-> e.tier, start |-> e.start, end |-> e.end]}]
         pre == {o \in Orders : /\ state.positions[o] # None
                                /\ state.positions[o].symbol = e.symbol
                                /\ state.positions[o].opened_ts < e.start}
         inScope == /\ pack.news.enabled
                    /\ SymbolInScope(pack.news, e.symbol)
                    /\ TierInScope(pack.news, e.tier)
     IN  \/ ~inScope /\ Return(e, s, <<>>, {})
         \/ /\ inScope
            /\ Return(e, Booked(s, e),
                      [i \in 1..Cardinality(pre) |-> Verdict(state, "NewsPrePositioned", "Flagged")],
                      {})

\* eod packs judge the day that ends, by its worst equity.
EodHit(s) ==
  /\ ~pack.daily_breach_intraday
  /\ ~s.day.daily_breached
  /\ BelowDailyFloor(pack, s.day.worst_equity, s.day.start_equity)

Rollover(e) ==
  /\ e.type = "rollover" /\ Fresh(e)
  /\ LET s == [Arrived(e) EXCEPT !.day_counter = IF state.day.traded THEN @ + 1 ELSE @,
                                 !.hwm = TrailedHwm(state),
                                 !.day = NewDay(e.date, EquityOf(state))]
     IN  Return(e, Booked(s, e),
                When(EodHit(state), Verdict(state, "DailyMaxLoss", "Breach"))
                  \o <<Verdict(state, "Rollover", "Info")>>,
                {})

-----------------------------------------------------------------------------
Init ==
  /\ pack \in {Compile(p) : p \in {q \in Packs : ~PackError(q)}}
  /\ state = NewAccount(pack)
  /\ verdicts = <<>>
  /\ alerts = {}
  /\ applied = {}

Apply(e) ==
  \/ Duplicate(e)
  \/ Mark(e)
  \/ OrderFilled(e)
  \/ TradeClosed(e)
  \/ BalanceAdjustment(e)
  \/ AccountStateReport(e)
  \/ NewsWindow(e)
  \/ Rollover(e)

Next == \E e \in Stream : Apply(e)

Spec == Init /\ [][Next]_vars

-----------------------------------------------------------------------------
(* Properties *)

\* Types of the account record, of the verdicts and of the alerts.
TypeOK ==
  /\ state.balance \in Int /\ state.hwm \in Int
  /\ state.day.start_equity \in Int /\ state.day.worst_equity \in Int
  /\ state.day.traded \in BOOLEAN /\ state.day.daily_breached \in BOOLEAN
  /\ state.day_counter \in Nat
  /\ state.positions \in [Orders -> Positions \cup {None}]
  /\ state.last_px \in [Symbols -> Int \cup {None}]
  /\ state.overall_breached \in BOOLEAN /\ state.target_reached \in BOOLEAN
  /\ \A o \in Orders : state.deferred_closes[o] \in Seq(Stream)
  /\ state.seen_dedup_keys = {DedupKey(e) : e \in applied}
  /\ state.seq_applied \in Nat
  /\ applied \subseteq Stream
  /\ \A i \in DOMAIN verdicts : verdicts[i].status \in {"Breach", "Flagged", "TargetReached", "Info"}

\* The fill and the close that took effect for an order, in the streams where
\* an order has one fill deal and one close deal.
FillsOf(o) == {e \in applied : e.type = "fill" /\ e.order = o /\ e.px # Bad}
ClosesOf(o) == {e \in applied : e.type = "close" /\ e.order = o /\ e.px # Bad}
RoundTrips == UNION {FillsOf(o) \X ClosesOf(o) : o \in Orders}
Adjustments == {e \in applied : e.type = "adjustment" /\ e.amount # Bad}

\* Whatever the order and the number of deliveries, a close that overtook its
\* fill is not left waiting once the position is open (the drain loop of
\* OrderFilled).
NoCloseWaitsForOpen ==
  \A o \in Orders : state.positions[o] # None => state.deferred_closes[o] = <<>>

\* The position book depends on which deals were delivered, never on their
\* order: an order is open exactly when its fill and not its close took effect
\* (delivery-order robustness of tests/property.rs).
BookMatchesDeals ==
  \A o \in Orders : state.positions[o] # None <=> FillsOf(o) # {} /\ ClosesOf(o) = {}

\* Money conservation at every prefix of every delivery order: the balance is
\* the start balance plus each adjustment, opening commission and settled
\* round trip, once each.
LedgerBalanced ==
  state.balance = pack.start_balance
    + MapThenSumSet(LAMBDA e : e.amount, Adjustments)
    + MapThenSumSet(LAMBDA f : OrZero(f.comm), UNION {FillsOf(o) : o \in Orders})
    + MapThenSumSet(LAMBDA t : OrZero(t[2].fee)
                      + (IF t[1].side = "buy" THEN t[2].px - t[1].px ELSE t[1].px - t[2].px) * t[1].volume,
                    RoundTrips)

\* A reported PnL that differs from the recomputed one by more than the
\* tolerance is alerted once its fill is known, and no other is, also when
\* the close waited in the deferred buffer.
MismatchesReported ==
  {a.key : a \in {b \in alerts : b.kind = "PNL_MISMATCH"}}
    = {DedupKey(t[2]) : t \in {u \in RoundTrips :
         /\ u[2].pnl # Bad
         /\ LET gap == u[2].pnl - u[1].volume
                        * (IF u[1].side = "buy" THEN u[2].px - u[1].px ELSE u[1].px - u[2].px)
            IN  gap > pack.pnl_tolerance \/ -gap > pack.pnl_tolerance}}

\* In an intraday equity pack, whichever event moved the equity, it is never
\* under the day's floor without the day being breached: no path that changes
\* balance, positions or marks forgets check_rules.  (A day that starts with
\* negative equity has its floor above it, and is left out.)
DailyLossNoticed ==
  (/\ pack.daily_breach_intraday /\ pack.daily_basis_equity
   /\ state.day.start_equity \in Nat
   /\ BelowDailyFloor(pack, EquityOf(state), state.day.start_equity))
  => state.day.daily_breached

\* An eod pack's worst equity covers the equity after every event of the day,
\* deferred closes drained by a fill included, so the rollover judges the day
\* by a low it really had.
WorstCoversEquity ==
  ~pack.daily_breach_intraday => state.day.worst_equity <= EquityOf(state)

\* A trailing pack's high-water mark is never below the equity a day started
\* with: rolling over raises it before the new day's snapshot is taken.
HwmCoversDayStart == pack.trailing => state.day.start_equity <= state.hwm

\* Verdict multiplicity: overall loss and target once per account, daily loss
\* and rollover once per trading day.  (For streams with no rollover into the
\* account's first day.)
VerdictsOnce ==
  \A i, j \in DOMAIN verdicts :
    LET v == verdicts[i]
        w == verdicts[j]
    IN  (/\ v.rule = w.rule
         /\ \/ v.rule \in {"MaxOverallLoss", "ProfitTarget"}
            \/ v.rule \in {"DailyMaxLoss", "Rollover"} /\ v.day = w.day)
        => i = j

\* The target is reported only after min_trading_days rollovers, each closing
\* a day in which a position was closed: one rollover delivered twice, or
\* a day without a closed deal, earns nothing.
TargetEarned ==
  \A i \in DOMAIN verdicts :
    verdicts[i].rule = "ProfitTarget" =>
      Cardinality({j \in 1..i : verdicts[j].rule = "Rollover"}) >= pack.min_trading_days

\* No trader is failed or flagged for news without a window in force: each
\* NewsRule verdict has a fill of its own inside a delivered in-scope window,
\* each NewsPrePositioned verdict a fill opened before one.
NewsVerdictsBacked ==
  LET inScope == {w \in applied : /\ w.type = "news" /\ pack.news.enabled
                                  /\ SymbolInScope(pack.news, w.symbol)
                                  /\ TierInScope(pack.news, w.tier)}
      fills == UNION {FillsOf(o) : o \in Orders}
      Count(rule) == Cardinality({i \in DOMAIN verdicts : verdicts[i].rule = rule})
  IN  /\ Count("NewsRule") <=
            Cardinality({f \in fills : \E w \in inScope :
                           w.symbol = f.symbol /\ w.start <= f.ts /\ f.ts <= w.end})
      /\ Count("NewsPrePositioned") <=
            Cardinality({t \in fills \X inScope : t[1].symbol = t[2].symbol /\ t[1].ts < t[2].start})

\* Whatever the order, repetition and versions of delivery, the state is well
\* typed, and book, balance and mismatch alerts are what the deals that took
\* effect make them (apply, apply_close).
DealsAccounted == TypeOK /\ BookMatchesDeals /\ LedgerBalanced /\ MismatchesReported

\* The lows and highs the rules judge by are never passed by the equity they are
\* taken from (worst_equity, hwm, roll_day).
ExtremesCover == WorstCoversEquity /\ HwmCoversDayStart

\* Every verdict is given as often as its rule allows and has its cause among the
\* events that took effect (check_rules, news, rollover).
VerdictsEarned == VerdictsOnce /\ TargetEarned /\ NewsVerdictsBacked

=============================================================================
