-------------------------- MODULE ExitPolicyParity --------------------------
(***************************************************************************)
(* The TypeScript port and the Python reference side by side: the same     *)
(* position is opened in both and both see the same candles and the same   *)
(* closes from outside.  py is the Python side: its position and the       *)
(* events its last call returned.                                          *)
(***************************************************************************)
EXTENDS ExitPolicy

VARIABLE py

Py == INSTANCE ExitPolicyPy

\* Math.round and Python's round differ only on exact halves of the 1e-8 unit.
\* Quantities are multiples of the exchange step (1e-5 and coarser for the
\* traded symbols), so half of one is never half a unit.
ASSUME NoTieAssumption ==
  \A q \in ParamSet, n \in Qty : (2 * n * q.tp1_num) % (2 * q.tp1_den) # q.tp1_den

ParityInit ==
  /\ params \in ParamSet
  /\ evs = <<>>
  /\ \E entry \in Price, qty \in Qty, sl \in Price, tp \in Price, tp1 \in Price \cup {Null} :
       /\ Openable(entry, sl, tp, tp1)
       /\ pos = OpenPosition(entry, qty, sl, tp, tp1, params)
       /\ py = [pos |-> Py!PyOpen(entry, qty, sl, tp, tp1, params), evs |-> <<>>]

ParityNext ==
  \/ \E b \in Bars : Step(b) /\ py' = Py!PyStep(py.pos, b, params)
  \/ \E price \in Price, reason \in Outside :
       /\ CloseManual(price, reason)
       /\ py' = Py!PyCloseManual(py.pos, price, reason)

ParitySpec == ParityInit /\ [][ParityNext]_<<vars, py>>

\* exitPolicy.ts:4 "Both must produce identical event streams": after every call
\* the two sides hold the same position and returned the same events.
SameStream == py.pos = pos /\ py.evs = evs
=============================================================================
