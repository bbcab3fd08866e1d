CONSTANTS
  lte = lte
  sta = sta
  rndis0 = rndis0
  Ltes = {lte}
  Stas = {sta}
  Lan = rndis0
  Nil = Nil
  Kinds <- MCKinds
  MaxChanges = 4
  MaxQueue = 1
SPECIFICATION Spec
INVARIANTS
  RulesExact
  BothMeansRule
  CanBeWithdrawn
  NoneForgotten
CHECK_DEADLOCK FALSE
