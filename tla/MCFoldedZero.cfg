CONSTANTS
  IntMax = 15
  ExactMax = 6
  SignedZero = TRUE
  Programs <- MCPrograms
SPECIFICATION Spec
CHECK_DEADLOCK FALSE
INVARIANT FoldingKeepsValues
