CONSTANTS
  Threads = {t1, t2, w1}
  Names = {x}
  Values = {v1, v2}
  FrozenNames = {}
  Unbound = Unbound
  NoReq = NoReq
  NoResult = NoResult
  NoThread = NoThread
  Prepare = Prepare
  MaxCalls = 2
  Ops <- MCOps
  Reads <- MCReads
  Stores <- MCStores
  InitStore <- MCInitStore
  Results <- MCResults
  Execute <- MCExecute
  Lookup <- MCLookup
  IndexOps <- MCIndexOps
  IndexError = FALSE
  Workers = {w1}
  MaxNested = 2
SPECIFICATION IndexFairSpec
INVARIANT IndexAssignExclusive
PROPERTY IndexAssignReturnsOrJoins
