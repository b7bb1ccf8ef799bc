SPECIFICATION Spec
CONSTANTS
  Programs <- MCPrograms
  NoStorage = "none"
INVARIANTS
  SummariesClosed
  NothingInvented
  CallsMatchCallees
  EscapesAgree
  OverlapsReported
PROPERTY Terminates
