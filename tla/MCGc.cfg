CONSTANTS
  Programs <- MCPrograms
  Qualified <- MCQualified
  Flag = "flag"
  MaxCalls = 3
SPECIFICATION Spec
INVARIANT LossesExplained
CHECK_DEADLOCK FALSE
