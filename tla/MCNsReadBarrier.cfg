CONSTANTS
  Threads = {t1, t2, t3}
  Names = {x, y}
  Values = {v1}
  FrozenNames = {y}
  Unbound = Unbound
  NoReq = NoReq
  NoResult = NoResult
  NoThread = NoThread
  Prepare = Prepare
  MaxCalls = 1
  Ops <- MCOps
  Reads <- MCReads
  Stores <- MCStores
  InitStore <- MCInitStore
  Results <- MCResults
  Execute <- MCExecute
  Lookup <- MCLookup
SPECIFICATION BarrierFairSpec
INVARIANTS TypeOK LookupExcludesExecute NsOpAlive PendingExact NoLostWakeup
  DispatchedWritesProcessed
PROPERTIES NsSpec CallsReturn
