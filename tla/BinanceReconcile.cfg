CONSTANTS
  Qty = 2
  Tp1Qty = 1
  Spare = 0
  Overlap <- Serial
  MaxTickets = 6
  Bounds <- CandleBounds
SPECIFICATION Spec
CHECK_DEADLOCK FALSE
INVARIANTS
  Protected
