CONSTANTS
  Variables = {1, 2, 3}
  Programs <- Tests
SPECIFICATION RunSpec
INVARIANTS
  FlowFactsTrue
  UsesFindValuesUnlessSkipped
  InnermostHandler
  LoweringVerifiesUnlessDead
  ArgumentsCurrent
PROPERTY ImplementsSource
