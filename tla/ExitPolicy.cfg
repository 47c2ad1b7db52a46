CONSTANTS
  Null = Null
  Price <- MCPrice
  Atr <- MCAtr
  Qty = {4}
  ParamSet <- MCParamSet
  FeeScale = 20
  BarLimit = 4
SPECIFICATION ParitySpec
CONSTRAINT BarBound
CHECK_DEADLOCK FALSE
INVARIANTS
  TypeOK
  QtyConserved
  LossWithinRisk
  ExitsWithinExcursion
  SurvivorNeverTouchedStop
  SameStream
PROPERTIES
  RatchetOnly
  LivesOnce
