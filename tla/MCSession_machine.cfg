SPECIFICATION Spec
CONSTANTS
  W = 8
  HandlerBase = 160
  Chunk = 2
  MaxSteps = 5
  MaxDamage = 1
  Plantable = {138}
  Scenarios <- MCScenarios
INVARIANT TypeInvariant
PROPERTIES
  ImplementsProgram
  ResultsMatchReference
  InterruptStopsTarget
CHECK_DEADLOCK FALSE
