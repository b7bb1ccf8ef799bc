CONSTANTS
  Programs <- MCPrograms
  NoBlock = 0
  Reach <- MCReach
  OutputOrder <- MCOutputOrder
  Damaged <- MCDamaged
SPECIFICATION VerifiedSpec
CHECK_DEADLOCK FALSE
INVARIANTS Precise Exact VerdictIsExact
PROPERTIES ImplementsPaths EveryTableJudged
