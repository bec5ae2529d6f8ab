---------------------------- MODULE MCRulesEngine ----------------------------
(* Instances of RulesEngine for TLC. *)
EXTENDS RulesEngine, TLC

MCLower == [t \in Tiers |-> IF t = "HIGH" THEN "high" ELSE t]

\* ---- packs ----
News(pre) == [enabled |-> TRUE, tiers |-> {"high"}, instruments |-> None, pre_positioned |-> pre]

RawPack(basis, breach, mode, minDays, news) ==
  [pack_id |-> "p", start_balance |-> 100, basis |-> basis, breach |-> breach,
   max_daily_loss_pct |-> 4, overall_mode |-> mode, max_overall_loss_pct |-> 8,
   profit_target_pct |-> 10, min_trading_days |-> minDays, pnl_tolerance |-> None, news |-> news]

Unusable == {[RawPack("equity", "intraday", "static", 0, None) EXCEPT !.basis = "margin"],
             [RawPack("equity", "intraday", "static", 0, None) EXCEPT !.max_daily_loss_pct = 0]}

Usable   == {RawPack("equity", "intraday", "static", 0, None)}
MCRulesPacks == {RawPack("equity", "intraday", "static", 1, None),
                 RawPack("balance", "intraday", "trailing", 0, None),
                 RawPack("equity", "eod", "trailing", 1, None),
                 RawPack("equity", "intraday", "trailing", 0, None)}
MCNewsPacks == {RawPack("equity", "intraday", "static", 0, News("flag")),
                RawPack("equity", "intraday", "static", 0, News("fail")),
                RawPack("equity", "intraday", "static", 0, [News("fail") EXCEPT !.enabled = FALSE])}

\* ---- events; seq and ts are the place in the original stream ----
Fill(n, o, side, vol, px, comm) ==
  [type |-> "fill", id |-> n, seq |-> n, ts |-> n, order |-> o, deal |-> n, symbol |-> "EURUSD",
   side |-> side, volume |-> vol, px |-> px, comm |-> comm]
Close(n, o, px, pnl, fee) ==
  [type |-> "close", id |-> n, seq |-> n, ts |-> n, order |-> o, deal |-> n, symbol |-> "EURUSD",
   px |-> px, pnl |-> pnl, fee |-> fee]
Mk(n, px) == [type |-> "mark", id |-> n, seq |-> n, ts |-> n, symbol |-> "EURUSD", px |-> px]
Adj(n, amount) == [type |-> "adjustment", id |-> n, seq |-> n, ts |-> n, amount |-> amount]
Report(n, balance) == [type |-> "report", id |-> n, seq |-> n, ts |-> n, balance |-> balance]
Roll(n, date) == [type |-> "rollover", id |-> n, seq |-> n, ts |-> n, date |-> date]
Window(n, tier, from, to) ==
  [type |-> "news", id |-> n, seq |-> n, ts |-> n, symbol |-> "EURUSD", tier |-> tier,
   start |-> from, end |-> to]

\* Two round trips, one long and one short, with malformed and repriced
\* versions of their deals, an adjustment, a report and a mark.
MCDeals ==
  {Fill(1, "o1", "buy", 2, px, -1) : px \in {10, Bad}}
    \cup {Fill(2, "o2", "sell", 1, 10, Bad)}
    \cup {Close(3, "o1", px, 4, -2) : px \in {7, 12, Bad}}
    \cup {Close(4, "o2", 9, pnl, 0) : pnl \in {1, Bad}}
    \cup {Adj(5, a) : a \in {-7, Bad}}
    \cup {Report(6, 99), Mk(7, Bad)}

\* A long and a short position, price moves either side of every floor and of the target, an
\* adjustment and two day changes.
MCDays ==
  {Fill(1, "o1", "buy", 2, 10, 0), Close(2, "o1", 15, 10, 0), Close(2, "o1", 9, -2, 0)}
    \cup {Mk(3, 7), Mk(4, 16), Adj(5, -6), Roll(6, "d1"), Roll(7, "d2"), Fill(8, "o2", "sell", 1, 12, -1)}

\* Fills and windows in and out of scope, in every order, one fill sent twice.
MCNews ==
  {Fill(3, "o1", "buy", 1, 10, 0), Fill(5, "o2", "sell", 1, 10, 0),
   [Fill(5, "o2", "sell", 1, 10, 0) EXCEPT !.deal = 55, !.id = 55],
   Window(1, "high", 2, 4), Window(2, "high", 5, 6), Window(4, "low", 1, 9), Close(6, "o1", 10, 0, 0)}

\* Each scenario is a stream of its own, judged under its own packs.
Scenario(packs, events) == [packs |-> {Compile(p) : p \in packs}, events |-> events]
MCScenarios == {Scenario(Usable, MCDeals), Scenario(MCRulesPacks, MCDays), Scenario(MCNewsPacks, MCNews)}
MCPacks     == Usable \cup Unusable \cup MCRulesPacks \cup MCNewsPacks
MCStream    == MCDeals \cup MCDays \cup MCNews
InScenario  == \E s \in MCScenarios : pack \in s.packs /\ applied \subseteq s.events

MCNext ==
  \E e \in Stream :
    \/ Duplicate(e)
    \/ Mark(e) /\ InScenario'
    \/ OrderFilled(e) /\ InScenario'
    \/ TradeClosed(e) /\ InScenario'
    \/ BalanceAdjustment(e) /\ InScenario'
    \/ AccountStateReport(e) /\ InScenario'
    \/ NewsWindow(e) /\ InScenario'
    \/ Rollover(e) /\ InScenario'

MCSpec == Init /\ [][MCNext]_vars

\* ---- the stream of the divergence ----
MCMarks == {Fill(1, "o1", "buy", 2, 10, 0), Mk(2, 5), Mk(3, 10)}

=============================================================================
