SPECIFICATION FairSpec
CONSTANTS
  MaxN = 3
  MaxIterations = 2
  MaxBreak = 2
  Names = {"x", "y"}
  Types = {"INT", "STR"}
  Unknown = "UNKNOWN"
  Locals <- MCLocals
  Nobody = Nobody
  Absent = Absent
INVARIANTS
  LateIterationsSkip
  MergesWhole
PROPERTIES ForkJoinSpec ParforReturns
CHECK_DEADLOCK FALSE
