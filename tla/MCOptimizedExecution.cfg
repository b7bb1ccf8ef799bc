CONSTANTS
  Values <- MCValues
  NoBlock = 0
  Programs <- MCPrograms
  MaxSteps = 7
SPECIFICATION Spec
CHECK_DEADLOCK FALSE
INVARIANTS NothingDangles StaysVerified SamePath SameValues PropagationComplete
