CONSTANTS
  Callers = {owner, other}
  Owner = owner
  MaxRuns = 3
  MaxTimers = 1
  MaxCalls = 3
SPECIFICATION FairSpec
INVARIANT OneWorker
PROPERTIES ReturnsAfterBody OnlyStopCuts StopReturns
CHECK_DEADLOCK FALSE
