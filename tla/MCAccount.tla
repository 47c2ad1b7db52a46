------------------------------- MODULE MCAccount -------------------------------
(* Bounded instances of Account for TLC. *)
EXTENDS Account, TLC
Symmetry == Permutations(Signals)
Lots == {[tickSize |-> 1, stepSize |-> 1, minQty |-> 2, minNotional |-> 200]}
===============================================================================
