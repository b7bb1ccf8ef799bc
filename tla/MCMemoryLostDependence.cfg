CONSTANTS
  SizeMax = 15
  EnumerationLimit = 2
  Programs <- LossyPrograms
  Executed <- LossyPrograms
SPECIFICATION ExecSpec
CHECK_DEADLOCK FALSE
INVARIANT NoDependenceLost
