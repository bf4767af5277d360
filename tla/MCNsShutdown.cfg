CONSTANTS
  Threads = {main, w1, w2}
  Names = {x}
  Values = {v1}
  FrozenNames = {}
  Unbound = Unbound
  NoReq = NoReq
  NoResult = NoResult
  NoThread = NoThread
  Prepare = Prepare
  Main = main
  MaxCalls = 1
  Ops <- MCOps
  Reads <- MCReads
  Stores <- MCStores
  InitStore <- MCInitStore
  Results <- MCResults
  Execute <- MCExecute
  Lookup <- MCLookup
SPECIFICATION ShutdownFairSpec
PROPERTIES QueuedWriteSurvives ShutdownReturns
CHECK_DEADLOCK FALSE
