----------------------------- MODULE MCPackPair -----------------------------
(* Instances of PackPair for TLC: the packs of tests/property.rs (4% / 8%    *)
(* against 8% / 16%), intraday and eod.                                      *)
EXTENDS PackPair, TLC

MCLower == [t \in Tiers |-> t]

RawPack(breach, mode, daily, overall) ==
  [pack_id |-> "p", start_balance |-> 100, basis |-> "equity", breach |-> breach,
   max_daily_loss_pct |-> daily, overall_mode |-> mode, max_overall_loss_pct |-> overall,
   profit_target_pct |-> 10, min_trading_days |-> 0, pnl_tolerance |-> None, news |-> None]

Kinds == {<<"intraday", "static">>, <<"intraday", "trailing">>, <<"eod", "static">>, <<"eod", "trailing">>}
MCTight == {RawPack(k[1], k[2], 4, 8) : k \in Kinds}
MCLoose == {RawPack(k[1], k[2], d, 16) : k \in Kinds, d \in {4, 8}}

Mk(n, px) == [type |-> "mark", id |-> n, seq |-> n, ts |-> n, symbol |-> "EURUSD", px |-> px]

\* One position opened at 100, prices around every floor, one day change.
MCStream ==
  {[type |-> "fill", id |-> 1, seq |-> 1, ts |-> 1, order |-> "o1", deal |-> 1, symbol |-> "EURUSD",
    side |-> "buy", volume |-> 1, px |-> 100, comm |-> 0],
   [type |-> "close", id |-> 7, seq |-> 7, ts |-> 7, order |-> "o1", deal |-> 7, symbol |-> "EURUSD",
    px |-> 96, pnl |-> -4, fee |-> 0],
   [type |-> "rollover", id |-> 4, seq |-> 4, ts |-> 4, date |-> "d1"],
   Mk(2, 90), Mk(3, 83), Mk(5, 100)}

=============================================================================
