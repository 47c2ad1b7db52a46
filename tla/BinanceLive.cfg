CONSTANTS
  Qty = 3
  Tp1Qty = 1
  Spare = 1
  Overlap <- Serial
  MaxTickets = 6
  Bounds <- FaultBounds
SPECIFICATION FairSpec
CHECK_DEADLOCK FALSE
INVARIANTS
  ClosedFlat
  CandleProtects
PROPERTIES
  Reprotected
