---------------------------- MODULE MCExitPolicy ----------------------------
(* Bounded instances of ExitPolicy for TLC. *)
EXTENDS ExitPolicy

CONSTANT BarLimit   \* candles a position without a time limit is followed for

MCPrice == 8..13
MCAtr   == {0, 1, 2}

Prm(num, k, ratchet, fee, limit) ==
  [tp1_r |-> 1, tp1_num |-> num, tp1_den |-> 3, breakeven_r |-> 1,
   trail_atr_k |-> k, tp_ratchet_atr |-> ratchet, fee |-> fee,
   max_bars |-> limit]

\* The default trailing, everything sold at TP1, nothing sold at TP1 and no
\* trailing (S4), and a time limit.  A third and two thirds of 4 are rounded down
\* and up; no fraction is a tie.
MCParamSet == {Prm(1, 2, 1, 1, Null), Prm(3, 1, 1, 1, 3),
               Prm(0, Null, Null, 1, 2), Prm(2, 1, Null, 6, 3)}

BarBound == pos.bars <= BarLimit
=============================================================================
