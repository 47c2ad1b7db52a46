-------------------------------- MODULE Sizing --------------------------------
(***************************************************************************)
(* Position sizing (risk/riskManager.ts) and the exchange's precision      *)
(* rules (execution/precision.ts, exchangeInfo.ts).  Prices and quantities *)
(* are integers in a unit fine enough for every tick and step, so that     *)
(* decimal.js and this module compute the same;  a quantity that is not    *)
(* rounded yet is a fraction num / den.                                    *)
(***************************************************************************)
EXTENDS Integers

CONSTANTS
  PerTradePct,     \* risk.per_trade_pct
  NotionalCapPct   \* risk.notional_cap_pct

ASSUME PctAssumption == {PerTradePct, NotionalCapPct} \subseteq Nat

SymbolFilters == [tickSize : Nat \ {0}, stepSize : Nat \ {0}, minQty : Nat, minNotional : Nat]

\* What applyFilters() does without filters: nothing beyond the unit itself.
Unfiltered == [tickSize |-> 1, stepSize |-> 1, minQty |-> 0, minNotional |-> 0]

\* ROUND_DOWN is towards zero.
RoundQtyDownToStep(num, den, step) ==
  IF num >= 0 THEN (num \div (den * step)) * step ELSE -(((-num) \div (den * step)) * step)

\* Half a tick is rounded up.
RoundPriceToTick(num, den, tick) == ((2 * num + den * tick) \div (2 * (den * tick))) * tick

MinimumViolation(qty, price, f) ==
  CASE f = Unfiltered -> "none"
    [] f # Unfiltered /\ qty < f.minQty -> "below_min_qty"
    [] f # Unfiltered /\ qty >= f.minQty /\ qty * price < f.minNotional -> "below_min_notional"
    [] OTHER -> "none"

\* (mutant) rounded, but not compared with the minimums
ApplyFiltersUnchecked(num, den, price, f) ==
  [qty |-> RoundQtyDownToStep(num, den, f.stepSize), violation |-> "none"]

ApplyFilters(num, den, price, f) ==
  LET qty == RoundQtyDownToStep(num, den, f.stepSize)
  IN [qty |-> qty, violation |-> MinimumViolation(qty, price, f)]

\* The quantity that risks per_trade_pct of the balance costs more than the cap.
\* Without a distance to the stop it is infinite (the balance being positive); with
\* a negative distance it is negative.
OverCap(balance, entry, stop) ==
  LET risk == entry - stop  target == balance * PerTradePct  cap == balance * NotionalCapPct
  IN \/ risk = 0
     \/ risk > 0 /\ target * entry > cap * risk
     \/ risk < 0 /\ target * entry < cap * risk

SizePosition(balance, entry, stop, f) ==
  IF OverCap(balance, entry, stop)
  THEN ApplyFilters(balance * NotionalCapPct, 100 * entry, entry, f)
  ELSE IF stop < entry THEN ApplyFilters(balance * PerTradePct, 100 * (entry - stop), entry, f)
  ELSE ApplyFilters(-(balance * PerTradePct), 100 * (stop - entry), entry, f)

Accepted(sizing) == sizing.violation = "none"
===============================================================================
