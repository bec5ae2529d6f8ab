------------------------------ MODULE PackPair ------------------------------
(***************************************************************************)
(* One event stream evaluated under two rule packs, as tests/property.rs   *)
(* does to compare them and as a pack migration is verified: two copies of *)
(* the engine are given the same deliveries.  The loose pack differs from  *)
(* the tight one only in wider loss limits.                                *)
(***************************************************************************)
EXTENDS Integers, FiniteSets

CONSTANTS Symbols, Tiers, LowerCase, AnySymbol, None, Orders, Stream, InitialDay, Bad,
          TightPacks, LoosePacks

VARIABLES tPack, tState, tVerdicts, tAlerts, tApplied,
          lPack, lState, lVerdicts, lAlerts, lApplied

vars == <<tPack, tState, tVerdicts, tAlerts, tApplied,
          lPack, lState, lVerdicts, lAlerts, lApplied>>

Tight == INSTANCE RulesEngine WITH
  Packs <- TightPacks, pack <- tPack, state <- tState, verdicts <- tVerdicts,
  alerts <- tAlerts, applied <- tApplied

Loose == INSTANCE RulesEngine WITH
  Packs <- LoosePacks, pack <- lPack, state <- lState, verdicts <- lVerdicts,
  alerts <- lAlerts, applied <- lApplied

\* Both packs and the events are what deserialisation makes of them.
ASSUME PairAssumption == Tight!PackAssumption /\ Tight!EngineAssumption /\ Loose!EngineAssumption

Wider(p, q) ==
  /\ p.daily_loss_pct <= q.daily_loss_pct
  /\ p.overall_loss_pct <= q.overall_loss_pct
  /\ \E d, o \in {q.daily_loss_pct, q.overall_loss_pct} :
       [p EXCEPT !.daily_loss_pct = d, !.overall_loss_pct = o] = q

Init == Tight!Init /\ Loose!Init /\ Wider(tPack, lPack)

Next == \E e \in Stream : Tight!Apply(e) /\ Loose!Apply(e)

Spec == Init /\ [][Next]_vars

-----------------------------------------------------------------------------
Breaches(verdicts, rule) ==
  {i \in DOMAIN verdicts : verdicts[i].rule = rule /\ verdicts[i].status = "Breach"}

\* Money and books never depend on the limits: both engines hold the same
\* balance, positions, marks, high-water mark and day snapshot.
SameLedger ==
  /\ tState.balance = lState.balance
  /\ tState.positions = lState.positions
  /\ tState.last_px = lState.last_px
  /\ tState.hwm = lState.hwm
  /\ tState.day_counter = lState.day_counter
  /\ tState.day.start_equity = lState.day.start_equity
  /\ tState.deferred_closes = lState.deferred_closes

\* Widening the limits never produces more daily-loss breaches, at any prefix
\* of any delivery order, intraday and eod alike.  (A day that starts with
\* negative equity has its floor above it, and the streams have none.)
DailyMonotone ==
  Cardinality(Breaches(lVerdicts, "DailyMaxLoss")) <= Cardinality(Breaches(tVerdicts, "DailyMaxLoss"))

\* Replaying one stream under a tight and a wider pack compares like with like: the
\* same money and books, and no more daily breaches under the wider one (replay).
PacksCompare == SameLedger /\ DailyMonotone

=============================================================================
