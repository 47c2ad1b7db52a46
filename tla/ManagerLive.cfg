CONSTANTS
  Signals = {s1}
  None = None
  Modes = {"paper", "shadow"}
  MaxOpen = 1
  Overlap <- AllButSameCandle
  Commands = {"kill"}
  MaxCommands = 1
  MaxFaults = 1
  MaxCrashes = 0
SPECIFICATION FairSpec
CHECK_DEADLOCK FALSE
PROPERTIES
  PendingResolved
  ExitFinished
