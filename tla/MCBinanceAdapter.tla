--------------------------- MODULE MCBinanceAdapter ---------------------------
(* Bounded instances of BinanceAdapter for TLC. *)
EXTENDS BinanceAdapter
Pairs(H, I) == {{h, i} : h \in H, i \in I}
\* One handler at a time.
Serial == {}
\* Every handler beside every other.
Anyone == Pairs(Handlers, Handlers)
\* Nothing happens but what is named.
None == [d \in Disturbances |-> 0]
StaleBounds == [d \in Disturbances \ {"polls"} |-> 1] @@ [polls |-> 0, all |-> 3]
FaultBounds == [candles |-> 2, faults |-> 3, early |-> 1, polls |-> 1, reports |-> 1,
                rejects |-> 1, lostBuys |-> 1, all |-> 3] @@ None
CandleBounds == [candles |-> 1, early |-> 1, all |-> 2] @@ None
CrashBounds == [crashes |-> 1, all |-> 1] @@ None
=============================================================================
