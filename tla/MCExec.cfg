CONSTANTS
  Statements <- MCStatements
  Programs <- MCPrograms
  Bodies <- MCBodies
  PrivateMode = FALSE
  MaxIterations = 2
  MaxWhile = 1
  MaxTrace = 3
SPECIFICATION Spec
INVARIANT LoopDepthExact
PROPERTIES BreakExact CounterRestored
CHECK_DEADLOCK FALSE
