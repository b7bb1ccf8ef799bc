CONSTANTS
  IntMax = 15
  ExactMax = 6
  SignedZero = FALSE
  Programs <- MCPrograms
SPECIFICATION Spec
CHECK_DEADLOCK FALSE
INVARIANTS FoldingKeepsValues FoldsAll
PROPERTY Completes
