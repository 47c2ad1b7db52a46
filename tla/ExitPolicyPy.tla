---------------------------- MODULE ExitPolicyPy ----------------------------
(***************************************************************************)
(* The reference implementation of the exit policy,                        *)
(* services/research/research/exit_policy.py, as functions from a position *)
(* and a bar to the next position and the events returned.  It is written  *)
(* independently of ExitPolicy, which models the TypeScript port: one      *)
(* function with early returns here, one action per outcome there.         *)
(***************************************************************************)
EXTENDS Integers, Sequences

CONSTANTS Null, FeeScale

\* round(x, 8) of num / den: to the nearest unit, ties to the even one.
PyRound(num, den) ==
  LET down == num \div den
      rest == 2 * (num - down * den)
  IN IF rest > den \/ (rest = den /\ down % 2 = 1) THEN down + 1 ELSE down

PyEvent(type, reason, price, qty) ==
  [type |-> type, reason |-> reason, price |-> price, qty |-> qty]

PyOpen(entry, qty, sl, tp, tp1, q) ==
  [entry |-> entry, qty |-> qty, sl_initial |-> sl, sl |-> sl, tp |-> tp,
   tp1 |-> IF tp1 # Null THEN tp1 ELSE entry + q.tp1_r * (entry - sl),
   remaining_qty |-> qty, highest_high |-> entry, lowest_low |-> entry,
   tp1_done |-> FALSE, state |-> "open", bars |-> 0, fills |-> <<>>]

\* emit() of an event that sells, of an event that only moves a level, and close()
PySell(r, ev) == [pos |-> [r.pos EXCEPT !.fills = Append(@, ev)],
                  evs |-> Append(r.evs, ev)]
PyMove(r, ev) == [r EXCEPT !.evs = Append(@, ev)]
PyClose(r, reason, price) ==
  LET sold == PySell(r, PyEvent("closed", reason, price, r.pos.remaining_qty))
  IN [sold EXCEPT !.pos.remaining_qty = 0, !.pos.state = "closed"]

PyPartial(r, q) ==
  LET sell == PyRound(r.pos.qty * q.tp1_num, q.tp1_den)
      sold == PySell(r, PyEvent("tp_partial", Null, r.pos.tp1, sell))
  IN [sold EXCEPT !.pos.remaining_qty = @ - sell, !.pos.tp1_done = TRUE]

PyBreakeven(r, b, q) ==
  LET p  == r.pos
      be == p.entry + (p.entry * 2 * q.fee) \div FeeScale
      up == IF be > p.sl
            THEN PyMove([r EXCEPT !.pos.sl = be], PyEvent("sl_moved", "breakeven", be, 0))
            ELSE r
  IN IF p.state = "open" /\ b.close >= p.entry + q.breakeven_r * (p.entry - p.sl_initial)
     THEN [up EXCEPT !.pos.state = "breakeven"] ELSE r

PyTrailStop(r, b, q) ==
  LET new == r.pos.highest_high - q.trail_atr_k * b.atr
  IN IF q.trail_atr_k # Null /\ r.pos.state = "trailing" /\ new > r.pos.sl
     THEN PyMove([r EXCEPT !.pos.sl = new], PyEvent("sl_moved", "trailing", new, 0))
     ELSE r

PyRatchet(r, b, q) ==
  LET new == r.pos.highest_high + q.tp_ratchet_atr * b.atr
  IN IF q.tp_ratchet_atr # Null /\ r.pos.state = "trailing" /\ new > r.pos.tp
     THEN PyMove([r EXCEPT !.pos.tp = new], PyEvent("tp_moved", "ratchet", new, 0))
     ELSE r

PyTrail(r) == IF r.pos.tp1_done THEN [r EXCEPT !.pos.state = "trailing"] ELSE r

PyStep(p, b, q) ==
  LET seen  == [pos |-> [p EXCEPT !.bars = @ + 1,
                           !.highest_high = IF b.high > @ THEN b.high ELSE @,
                           !.lowest_low = IF b.low < @ THEN b.low ELSE @],
                evs |-> <<>>]
      part  == IF ~p.tp1_done /\ b.high >= p.tp1 THEN PyPartial(seen, q) ELSE seen
      be    == PyBreakeven(part, b, q)
      trail == PyTrail(be)
  IN CASE p.state = "closed"               -> [pos |-> p, evs |-> <<>>]
       [] p.state # "closed" /\ b.low <= p.sl -> PyClose(seen, "stop", p.sl)
       [] OTHER ->
            IF part.pos.remaining_qty <= 0 THEN PyClose(part, "take_profit", p.tp1)
            ELSE IF b.high >= p.tp THEN PyClose(part, "take_profit", p.tp)
            ELSE IF q.max_bars # Null /\ part.pos.bars >= q.max_bars
                 THEN PyClose(part, "time", b.close)
            ELSE PyRatchet(PyTrailStop(trail, b, q), b, q)

PyCloseManual(p, price, reason) ==
  IF p.state = "closed" THEN [pos |-> p, evs |-> <<>>]
  ELSE PyClose([pos |-> p, evs |-> <<>>], reason, price)
=============================================================================
