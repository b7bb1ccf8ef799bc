CONSTANTS
  Variables = {1, 2, 3}
  Programs <- Rebinding
SPECIFICATION RunSpec
INVARIANT ArgumentsActual
