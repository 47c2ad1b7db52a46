CONSTANTS
  Signals = {s1, s2}
  None = None
  Modes = {"paper", "shadow"}
  MaxOpen = 1
  Overlap <- SignalsAnyTime
  Commands = {"close_all", "close_position", "kill", "pause", "resume"}
  MaxCommands = 1
  MaxFaults = 0
  MaxCrashes = 1
SPECIFICATION Spec
SYMMETRY Symmetry
CHECK_DEADLOCK FALSE
INVARIANTS
  TypeOK
  BooksBalance
  RestartSafe
  OutcomeTrue
  MaxOpenKept
PROPERTIES
  RowsLive
