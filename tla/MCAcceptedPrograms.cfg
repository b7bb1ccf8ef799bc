CONSTANTS
  Variables = {1, 2, 3}
  Programs <- Refuted
SPECIFICATION RunSpec
PROPERTY AcceptedProgramsRun
