CONSTANTS
  SizeMax = 15
  EnumerationLimit = 2
  Programs <- AllPrograms
  Executed <- ExecutedPrograms
SPECIFICATION ExecSpec
CHECK_DEADLOCK FALSE
INVARIANTS AnswersTrue FixedPoint LoopsCut MarksCloseLoops NoDependenceLostIfCertain OrderKept
PROPERTY Terminates
