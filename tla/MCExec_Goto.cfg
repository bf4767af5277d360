CONSTANTS
  Statements <- MCStatements
  Programs <- JumpPrograms
  Bodies <- MCBodies
  PrivateMode = FALSE
  MaxIterations = 2
  MaxWhile = 1
  MaxTrace = 3
SPECIFICATION Spec
PROPERTY GotoLands
CHECK_DEADLOCK FALSE
