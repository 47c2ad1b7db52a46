CONSTANTS
  Qty = 3
  Tp1Qty = 1
  Spare = 0
  Overlap <- Serial
  MaxTickets = 6
  Bounds <- CrashBounds
SPECIFICATION FairSpec
CHECK_DEADLOCK FALSE
PROPERTIES
  BoughtManaged
