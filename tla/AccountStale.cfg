SPECIFICATION Spec
CONSTANTS
  Signals = {s1, s2}
  Kinds = {"exchange"}
  FilterSets <- Lots
  Start = 12000
  MaxOpen = 2
  Entry = 100
  Stop = 80
  Tp = 140
  Opens = {78, 79, 90, 110}
  Exits = {80, 140}
  Slippage = 2
  FeePct = 1
  PerTradePct = 5
  NotionalCapPct = 25
SYMMETRY Symmetry
CHECK_DEADLOCK FALSE
PROPERTIES ExchangeRiskKept
