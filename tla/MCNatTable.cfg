CONSTANTS
  r1 = r1
  r2 = r2
  r3 = r3
  Nil = Nil
  ClntRules <- RulesDef
  DstHash <- OneBucket
  SrcHash <- OneBucket
  Base = 3
  Expn = 4
  MaxFailures = 1
SPECIFICATION TableSpec
INVARIANTS
  RulesFound
  OnlyInstalledFound
  IndexLeadsToRule
  NothingLeaked
  HandlesAccepted
CHECK_DEADLOCK FALSE
SYMMETRY RuleSymmetry
