------------------------------ MODULE RulePack ------------------------------
(***************************************************************************)
(* Rule packs of the rules engine: what CompiledPack::compile accepts, the *)
(* typed plan it produces, and the thresholds the plan defines.            *)
(*                                                                         *)
(* Money is an integer number of hundredths and a percentage an integer; a *)
(* threshold base * (1 -+ pct / 100) is compared after multiplying both    *)
(* sides by 100, which is exact, as the code's decimals are.               *)
(***************************************************************************)
EXTENDS Integers

CONSTANTS
  Symbols,
  Tiers,       \* economic-impact tiers as spelled in packs and calendars
  LowerCase,   \* Tiers -> Tiers, to_ascii_lowercase
  AnySymbol,   \* the instrument "*"
  None         \* an absent optional value

ASSUME PackAssumption ==
  /\ AnySymbol \notin Symbols
  /\ LowerCase \in [Tiers -> Tiers]
  /\ \A t \in Tiers : LowerCase[LowerCase[t]] = LowerCase[t]

RawNews ==
  [enabled : BOOLEAN, tiers : SUBSET Tiers, instruments : SUBSET (Symbols \cup {AnySymbol}) \cup {None},
   pre_positioned : {"flag", "fail", "close", None}]

\* The JSON document after deserialisation: an unknown overall-loss mode is
\* already refused there, an unknown basis or breach mode is not.
RulePacks ==
  [pack_id : STRING, start_balance : Int, basis : STRING, breach : STRING,
   max_daily_loss_pct : Int, overall_mode : {"static", "trailing"}, max_overall_loss_pct : Int,
   profit_target_pct : Int, min_trading_days : Nat, pnl_tolerance : Nat \cup {None},
   news : RawNews \cup {None}]

PackError(p) ==
  \/ p.pack_id = ""
  \/ p.basis \notin {"equity", "balance"}
  \/ p.breach \notin {"intraday", "eod"}
  \/ p.max_daily_loss_pct <= 0
  \/ p.profit_target_pct <= 0

NoNews == [enabled |-> FALSE, pre_positioned_flag |-> TRUE, tiers |-> {}, symbols |-> {}]

\* "close" is enforced by the control plane: the engine flags.
CompiledNews(n) ==
  [enabled |-> n.enabled,
   pre_positioned_flag |-> n.pre_positioned # "fail",
   tiers |-> {LowerCase[t] : t \in n.tiers},
   symbols |-> IF n.instruments = None THEN {AnySymbol} ELSE n.instruments]

Compile(p) ==
  [pack_id |-> p.pack_id,
   start_balance |-> p.start_balance,
   daily_loss_pct |-> p.max_daily_loss_pct,
   trailing |-> p.overall_mode = "trailing",
   overall_loss_pct |-> p.max_overall_loss_pct,
   target_pct |-> p.profit_target_pct,
   min_trading_days |-> p.min_trading_days,
   daily_basis_equity |-> p.basis = "equity",
   daily_breach_intraday |-> p.breach = "intraday",
   news |-> IF p.news = None THEN NoNews ELSE CompiledNews(p.news),
   pnl_tolerance |-> IF p.pnl_tolerance = None THEN 1 ELSE p.pnl_tolerance]

SymbolInScope(news, symbol) == {AnySymbol, symbol} \cap news.symbols # {}

TierInScope(news, tier) == news.tiers = {} \/ tier \in news.tiers

\* Mutated form: the limit is added.
AboveBase(x, base, pct) == 100 * x < base * (100 + pct)

\* x < base * (1 - pct / 100)
BelowFloor(x, base, pct) == 100 * x < base * (100 - pct)

BelowDailyFloor(pack, x, dayStart) == BelowFloor(x, dayStart, pack.daily_loss_pct)

BelowOverallFloor(pack, x, hwm) ==
  BelowFloor(x, IF pack.trailing THEN hwm ELSE pack.start_balance, pack.overall_loss_pct)

\* x >= start_balance * (1 + target_pct / 100)
AtTarget(pack, x) == 100 * x >= pack.start_balance * (100 + pack.target_pct)

=============================================================================
