SPECIFICATION FairSpec
CONSTANTS
  Series = {"quarter", "half"}
  Period <- TwoPeriods
  LastTick = 3
  Bootstrap = 2
  Page = 2
  Bounds <- Reconnects
CHECK_DEADLOCK FALSE
INVARIANTS TypeOK StepSeesAll
PROPERTIES KeepsTable CaughtUp
