CONSTANTS
  SizeMax <- MCSizeMax
  Programs <- MCPrograms
SPECIFICATION FairSpec
CHECK_DEADLOCK FALSE
INVARIANTS VerdictExact NormalizedAccepted
PROPERTIES RepeatChangesNothing Terminates
