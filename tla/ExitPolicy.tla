----------------------------- MODULE ExitPolicy -----------------------------
(***************************************************************************)
(* The exit policy of one position: positions/exitPolicy.ts (and, line for *)
(* line, research/exit_policy.py).  A long position is opened from a       *)
(* signal and an entry fill and then sees one CLOSED candle at a time; on  *)
(* each candle it may sell (stop, partial target, target, time limit) or   *)
(* move its stop and target up.  It may also be closed from outside the    *)
(* candle loop (regime invalidation, manual close, kill).                  *)
(*                                                                         *)
(* Prices are integers in an arbitrary unit, quantities integers in the    *)
(* 1e-8 unit that r8() rounds to.  Multiples such as breakeven_r * risk or *)
(* k * ATR are integer products; the partial quantity is rounded half up   *)
(* to the unit, as Math.round does.                                        *)
(***************************************************************************)
EXTENDS Integers, Sequences

CONSTANTS
  Null,       \* the null of trail_atr_k, tp_ratchet_atr, max_bars and tp1_price
  Price,      \* prices that candles, signals and fills may carry
  Atr,        \* values of the ATR given with a candle
  Qty,        \* entry quantities
  ParamSet,   \* exit parameter records a strategy instance may be configured with
  FeeScale    \* fee_pct is fee / FeeScale of the price

ExitParams ==
  [tp1_r : Nat, tp1_num : Nat, tp1_den : Nat \ {0}, breakeven_r : Nat,
   trail_atr_k : Nat \cup {Null}, tp_ratchet_atr : Nat \cup {Null},
   fee : Nat, max_bars : Nat \cup {Null}]

ASSUME NullAssumption  == Null \notin Int
ASSUME PriceAssumption == Price \subseteq Nat /\ Atr \subseteq Nat
ASSUME QtyAssumption   == Qty \subseteq Nat \ {0}
ASSUME ScaleAssumption == FeeScale \in Nat \ {0}
ASSUME ParamAssumption ==
  \A prm \in ParamSet : prm \in ExitParams /\ prm.tp1_num <= prm.tp1_den

VARIABLES
  params,   \* the exit parameters of this position (never change)
  pos,      \* PositionState
  evs       \* the events returned by the last call

vars == <<params, pos, evs>>

-----------------------------------------------------------------------------
(* State and events *)

State      == {"open", "breakeven", "trailing", "closed"}
OwnReason  == {"stop", "take_profit", "time"}        \* decided by step()
Outside    == {"regime", "manual", "kill"}           \* decided by the caller
MoveReason == {"breakeven", "trailing", "ratchet"}

Fill(type, reason, price, qty) ==
  [type |-> type, reason |-> reason, price |-> price, qty |-> qty]
Move(type, reason, price) ==
  [type |-> type, reason |-> reason, price |-> price, qty |-> 0]

Bars == {b \in [high : Price, low : Price, close : Price, atr : Atr] :
            b.low <= b.close /\ b.close <= b.high}

Larger(a, b)  == IF a >= b THEN a ELSE b
Smaller(a, b) == IF a <= b THEN a ELSE b

Risk(p)             == p.entry - p.sl_initial
Tp1Default(e, r, q) == e + q.tp1_r * r
BreakevenAt(p, q)   == p.entry + q.breakeven_r * Risk(p)
\* Mutant of BreakevenStop: only one of the two fees is covered.
BreakevenOneFee(p, q) == p.entry + (p.entry * q.fee) \div FeeScale
BreakevenStop(p, q) == p.entry + (p.entry * 2 * q.fee) \div FeeScale

\* r8(pos.qty * tp1_fraction): half a unit rounds up.
PartialQty(p, q) == (2 * p.qty * q.tp1_num + q.tp1_den) \div (2 * q.tp1_den)

\* Mutant of OpenPosition: a signal without a tp1_price leaves tp1 null.
OpenWithoutTp1(entry, qty, sl, tp, tp1, q) ==
  [entry |-> entry, qty |-> qty, sl_initial |-> sl, sl |-> sl, tp |-> tp,
   tp1 |-> tp1, remaining_qty |-> qty, highest_high |-> entry,
   lowest_low |-> entry, tp1_done |-> FALSE, state |-> "open", bars |-> 0,
   fills |-> <<>>]

\* openPosition(): the entry and quantity are the fill's, the rest the signal's.
OpenPosition(entry, qty, sl, tp, tp1, q) ==
  [entry |-> entry, qty |-> qty, sl_initial |-> sl, sl |-> sl, tp |-> tp,
   tp1 |-> IF tp1 = Null THEN Tp1Default(entry, entry - sl, q) ELSE tp1,
   remaining_qty |-> qty, highest_high |-> entry, lowest_low |-> entry,
   tp1_done |-> FALSE, state |-> "open", bars |-> 0, fills |-> <<>>]

-----------------------------------------------------------------------------
(* The parts of step(), each a change to the position *)

\* Mutant of Observe: the high is not recorded.
ObserveNoHigh(p, b) ==
  [p EXCEPT !.bars = @ + 1, !.lowest_low = Smaller(@, b.low)]

Observe(p, b) ==
  [p EXCEPT !.bars = @ + 1,
            !.highest_high = Larger(@, b.high),
            !.lowest_low = Smaller(@, b.low)]

\* Mutant of CloseAt: sells the quantity bought, not what remains of it.
CloseAtBought(p, reason, price) ==
  [p EXCEPT !.fills = Append(@, Fill("closed", reason, price, p.qty)),
            !.remaining_qty = 0,
            !.state = "closed"]

CloseAt(p, reason, price) ==
  [p EXCEPT !.fills = Append(@, Fill("closed", reason, price, p.remaining_qty)),
            !.remaining_qty = 0,
            !.state = "closed"]

TakesPartial(p, b) == ~p.tp1_done /\ b.high >= p.tp1

TakePartial(p, q) ==
  [p EXCEPT !.fills = Append(@, Fill("tp_partial", Null, p.tp1, PartialQty(p, q))),
            !.remaining_qty = @ - PartialQty(p, q),
            !.tp1_done = TRUE]

\* The position after the high and low are recorded and TP1, if reached, is sold.
AfterPartial(p, b, q) ==
  IF TakesPartial(p, b) THEN TakePartial(Observe(p, b), q) ELSE Observe(p, b)

SoldOut(p, b, q)   == TakesPartial(p, b) /\ PartialQty(p, q) >= p.remaining_qty
TimeIsUp(p, q) == q.max_bars # Null /\ p.bars + 1 >= q.max_bars

\* 5) The stop moves to breakeven once the close reaches +breakeven_r.
ReachesBreakeven(p, b, q) == p.state = "open" /\ b.close >= BreakevenAt(p, q)
Breakeven(p, b, q) ==
  IF ReachesBreakeven(p, b, q)
  THEN [p EXCEPT !.sl = Larger(@, BreakevenStop(p, q)), !.state = "breakeven"]
  ELSE p

\* 6) Trailing starts when TP1 was sold (openPosition never leaves tp1 null).
Trails(p)         == p.tp1_done
\* Mutant of TrailStop: follows the ATR down as well as up.
TrailStopLoose(p, b, q) ==
  IF q.trail_atr_k = Null THEN p.sl ELSE p.highest_high - q.trail_atr_k * b.atr
TrailStop(p, b, q) ==
  IF q.trail_atr_k = Null THEN p.sl
  ELSE Larger(p.sl, p.highest_high - q.trail_atr_k * b.atr)
RatchetTarget(p, b, q) ==
  IF q.tp_ratchet_atr = Null THEN p.tp
  ELSE Larger(p.tp, p.highest_high + q.tp_ratchet_atr * b.atr)
Trail(p, b, q) ==
  IF Trails(p)
  THEN [p EXCEPT !.state = "trailing", !.sl = TrailStop(p, b, q),
                 !.tp = RatchetTarget(p, b, q)]
  ELSE p

-----------------------------------------------------------------------------
(* The events a call returns *)

NewFills(p, p2) == SubSeq(p2.fills, Len(p.fills) + 1, Len(p2.fills))

If(c, s) == IF c THEN s ELSE <<>>

MoveEvents(p, b, p1, p2, p3) ==
  If(p2.sl # p1.sl, <<Move("sl_moved", "breakeven", p2.sl)>>)
    \o If(p3.sl # p2.sl, <<Move("sl_moved", "trailing", p3.sl)>>)
    \o If(p3.tp # p2.tp, <<Move("tp_moved", "ratchet", p3.tp)>>)

-----------------------------------------------------------------------------
(* Actions.  step() is the disjunction of its four ways to return. *)

IsLive == pos.state # "closed"

\* Mutant of StopOut: the stop is filled at the low of the bar.
StopOutAtLow(b) ==
  /\ IsLive
  /\ b.low <= pos.sl
  /\ pos' = CloseAt(Observe(pos, b), "stop", b.low)
  /\ evs' = NewFills(pos, pos')
  /\ UNCHANGED params

\* 1) Hard stop first, whatever else the bar reached.
StopOut(b) ==
  /\ IsLive
  /\ b.low <= pos.sl
  /\ pos' = CloseAt(Observe(pos, b), "stop", pos.sl)
  /\ evs' = NewFills(pos, pos')
  /\ UNCHANGED params

\* Mutant of TakeProfit: the target is looked at before the stop.
TakeProfitFirst(b) ==
  /\ IsLive
  /\ b.high >= pos.tp
  /\ pos' = CloseAt(AfterPartial(pos, b, params), "take_profit", pos.tp)
  /\ evs' = NewFills(pos, pos')
  /\ UNCHANGED params

\* 2) + 3) The partial target sold everything, or the final target was reached.
TakeProfit(b) ==
  LET p == AfterPartial(pos, b, params)
  IN /\ IsLive
     /\ b.low > pos.sl
     /\ \/ /\ SoldOut(pos, b, params)
           /\ pos' = CloseAt(p, "take_profit", pos.tp1)
        \/ /\ ~SoldOut(pos, b, params)
           /\ b.high >= pos.tp
           /\ pos' = CloseAt(p, "take_profit", pos.tp)
     /\ evs' = NewFills(pos, pos')
     /\ UNCHANGED params

\* 4) Time stop, at the close.
TimeStop(b) ==
  /\ IsLive
  /\ b.low > pos.sl
  /\ ~SoldOut(pos, b, params)
  /\ b.high < pos.tp
  /\ TimeIsUp(pos, params)
  /\ pos' = CloseAt(AfterPartial(pos, b, params), "time", b.close)
  /\ evs' = NewFills(pos, pos')
  /\ UNCHANGED params

\* Mutant of Hold: step() does not return early for a closed position.
HoldClosed(b) ==
  LET p1 == AfterPartial(pos, b, params)
      p2 == Breakeven(p1, b, params)
      p3 == Trail(p2, b, params)
  IN /\ b.low > pos.sl
     /\ ~SoldOut(pos, b, params)
     /\ b.high < pos.tp
     /\ ~TimeIsUp(pos, params)
     /\ pos' = p3
     /\ evs' = NewFills(pos, p3) \o MoveEvents(pos, b, p1, p2, p3)
     /\ UNCHANGED params

\* 5) + 6) The position stays open; its stop and target may move.
Hold(b) ==
  LET p1 == AfterPartial(pos, b, params)
      p2 == Breakeven(p1, b, params)
      p3 == Trail(p2, b, params)
  IN /\ IsLive
     /\ b.low > pos.sl
     /\ ~SoldOut(pos, b, params)
     /\ b.high < pos.tp
     /\ ~TimeIsUp(pos, params)
     /\ pos' = p3
     /\ evs' = NewFills(pos, p3) \o MoveEvents(pos, b, p1, p2, p3)
     /\ UNCHANGED params

Step(b) == StopOut(b) \/ TakeProfit(b) \/ TimeStop(b) \/ Hold(b)

\* closeManual(): regime invalidation, manual close or kill, at any price.
CloseManual(price, reason) ==
  /\ IsLive
  /\ pos' = CloseAt(pos, reason, price)
  /\ evs' = NewFills(pos, pos')
  /\ UNCHANGED params

\* openPosition requires sl < entry < tp; every strategy puts tp1 above its own
\* entry price, hence above the stop, but the fill may come in above it.
Openable(entry, sl, tp, tp1) ==
  /\ sl < entry /\ entry < tp
  /\ tp1 # Null => sl < tp1

Init ==
  /\ params \in ParamSet
  /\ \E entry \in Price, qty \in Qty, sl \in Price, tp \in Price, tp1 \in Price \cup {Null} :
       /\ Openable(entry, sl, tp, tp1)
       /\ pos = OpenPosition(entry, qty, sl, tp, tp1, params)
  /\ evs = <<>>

Next ==
  \/ \E b \in Bars : Step(b)
  \/ \E price \in Price, reason \in Outside : CloseManual(price, reason)

Spec == Init /\ [][Next]_vars

-----------------------------------------------------------------------------
(* Properties *)

FillType == [type : {"tp_partial", "closed"},
             reason : OwnReason \cup Outside \cup {Null},
             price : Int, qty : Int]

\* The state of a position is a PositionState record of exitPolicy.ts.
TypeOK ==
  /\ params \in ParamSet
  /\ pos \in [entry : Int, qty : Int, sl_initial : Int, sl : Int, tp : Int,
              tp1 : Int, remaining_qty : Int, highest_high : Int,
              lowest_low : Int, tp1_done : BOOLEAN, state : State,
              bars : Nat, fills : Seq(FillType)]

\* At most two fills leave a position: a partial one and the closing one.
FillQty(p, i)   == IF i <= Len(p.fills) THEN p.fills[i].qty ELSE 0
FillGross(p, i) == IF i <= Len(p.fills)
                   THEN (p.fills[i].price - p.entry) * p.fills[i].qty ELSE 0
Sold(p)         == FillQty(p, 1) + FillQty(p, 2)
\* The pnl of realizedR before fees.
Gross(p)        == FillGross(p, 1) + FillGross(p, 2)

OwnFill(f)     == f.type = "tp_partial" \/ f.reason \in OwnReason
OwnFillsOnly(p) == \A i \in DOMAIN p.fills : OwnFill(p.fills[i])
ClosedBy(p, reasons) ==
  p.state = "closed" /\ p.fills[Len(p.fills)].reason \in reasons

\* Whatever the rounding of the partial sale, what was sold plus what remains
\* is what was bought; a live position still holds something and a closed one
\* nothing (the manager sells exactly the quantities of these events).
QtyConserved ==
  /\ Sold(pos) + pos.remaining_qty = pos.qty
  /\ Len(pos.fills) <= 2
  /\ IF IsLive THEN pos.remaining_qty > 0 ELSE pos.remaining_qty = 0

\* Over any sequence of candles, breakeven, trailing and ratchet only ever move
\* the stop and the target up (PLAN_BUILD: "trailing never lowers the stop").
RatchetOnly == [][pos'.sl >= pos.sl /\ pos'.tp >= pos.tp]_vars

\* A position the policy closes by itself never loses more than the risk it was
\* sized for, 1 R before fees, whatever was sold on the way.
LossWithinRisk ==
  OwnFillsOnly(pos) => Gross(pos) >= -(Risk(pos) * Sold(pos))

\* The policy sells at prices between the lowest low and the highest high it has
\* recorded, so the journal's realised R stays between -MAE and MFE.  It needs
\* an entry not above TP1 and a breakeven trigger that covers the fees.
FeeCovered == BreakevenStop(pos, params) <= BreakevenAt(pos, params)
ExitsWithinExcursion ==
  (FeeCovered /\ pos.entry <= pos.tp1) =>
    \A i \in DOMAIN pos.fills :
      OwnFill(pos.fills[i]) =>
        /\ pos.lowest_low <= pos.fills[i].price
        /\ pos.fills[i].price <= pos.highest_high

\* Worst-case ordering over the whole life: a position that is still live, or
\* that ended at its target or time limit, never traded at or below its initial
\* stop (its MAE is below 1 R), even in a bar that also reached the target.
SurvivorNeverTouchedStop ==
  (IsLive \/ ClosedBy(pos, {"take_profit", "time"})) =>
    pos.lowest_low > pos.sl_initial

\* A position goes through the stages of PositionLife: one partial sale at most,
\* and no candle or manual close reopens a closed position.
Life == INSTANCE PositionLife
          WITH Positions <- {"position"}, Start <- {"full"},
               stage <- [p \in {"position"} |-> IF ~IsLive THEN "closed"
                                               ELSE IF pos.tp1_done THEN "part" ELSE "full"]
LivesOnce == Life!Spec
=============================================================================
