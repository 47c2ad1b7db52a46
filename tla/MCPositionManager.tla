-------------------------- MODULE MCPositionManager --------------------------
(* Bounded instances of PositionManager for TLC: which handlers overlap. *)
EXTENDS PositionManager, TLC
Symmetry == Permutations(Signals)
Pairs(H, I) == {{h, i} : h \in H, i \in I}
\* Signals arrive while anything else is under way.
SignalsAnyTime == Pairs({"signals"}, Handlers)
\* Only two candles of one timeframe never overlap.
AllButSameCandle == Pairs(Handlers, Handlers) \ Pairs(Handlers, {"entry2"})
=============================================================================
