CONSTANTS
  Qty = 2
  Tp1Qty = 0
  Spare = 0
  Overlap <- Anyone
  MaxTickets = 6
  Bounds <- StaleBounds
SPECIFICATION Spec
CHECK_DEADLOCK FALSE
INVARIANTS
  TypeOK
  RowsTrue
  EntryTrue
