SPECIFICATION Spec
VIEW View
CONSTANTS
  Key <- MCKey
  Hash <- MCHash
  SmallMap = 2
  MinBuckets = 2
  Name <- MCName
  Declared <- MCDeclared
  MaxLive = 4
  Assigned <- MCAssigned
  Indexed <- MCIndexed
  Deleted <- MCDeleted
  Lockable = {"y"}
INVARIANTS
  HeapExact
  LookupExact
  ReadBack
  SelectionMeant
