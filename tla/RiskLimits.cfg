SPECIFICATION Spec
CONSTANTS
  Signals = {s1, s2, s3}
  None = None
  Results <- OneR
  MaxOpen = 2
  LimitR = 1
  LossRun = 2
  Cooldown = 2
  DayLen = 2
  LastTick = 2
  MaxCrashes = 1
  MaxFaults = 1
SYMMETRY SignalSymmetry
CHECK_DEADLOCK FALSE
INVARIANTS TypeOK DayLossBounded Announced
PROPERTIES LimitHolds CooldownHolds
