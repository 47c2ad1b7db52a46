---------------------------- MODULE PositionLife ----------------------------
(***************************************************************************)
(* What a position goes through, whoever looks at it: it may wait for its  *)
(* fill, it is held in full, a part of it may be sold once, and it is      *)
(* closed for good.  A wait may also end without a fill.                   *)
(***************************************************************************)
CONSTANTS
  Positions,
  Start       \* stages a position may be first seen in

VARIABLE stage

Stages == {"none", "pending", "full", "part", "closed"}

Move(p, from, to) == stage[p] \in from /\ stage' = [stage EXCEPT ![p] = to]

Park(p)     == Move(p, {"none"}, "pending")
Open(p)     == Move(p, {"none", "pending"}, "full")
Cancel(p)   == Move(p, {"pending"}, "closed")
SellPart(p) == Move(p, {"full"}, "part")
Close(p)    == Move(p, {"full", "part"}, "closed")

Init == stage \in [Positions -> Start]
Next == \E p \in Positions : Park(p) \/ Open(p) \/ Cancel(p) \/ SellPart(p) \/ Close(p)
Spec == Init /\ [][Next]_stage
=============================================================================
