CONSTANT Modules <- MCModules
SPECIFICATION OrderSpec
CHECK_DEADLOCK FALSE
INVARIANTS RecursiveExact FactsReady UsesDeclared
PROPERTY UnitComplete
