CONSTANTS
  Actors <- MCActors
  Files <- MCFiles
  FileAt <- MCFileAt
  PathTo <- MCPathTo
  BaseName <- MCBaseName
  DirOf <- MCDirOf
  Body <- MCBody
  Readable <- MCReadable
  WellFormed <- MCWellFormed
  MainDir = "here"
  LibDirs <- MCLibDirs
  ExtPlaces <- MCExtPlaces
  LibraryAt <- MCLibraryAt
  ExtensionOf <- MCExtensionOf
  Operators <- MCOperators
  Restricted <- MCRestricted
  Missing = "missing"
  NoInit = "no init"
  NoName = "none"
  NoLibrary = "no library"
  Str = "str"
  MaxDepth = 3
  Programs <- MCPrograms
  MaxWorkers = 2
  StartCanFail = TRUE
  Coercible <- MCCoercible
  NoFunction <- MCNoFunction
  NoDefault = "none"
  Failing = "fails"
SPECIFICATION Spec
INVARIANT OneEnvPerFile
PROPERTY ForkJoinSpec
PROPERTY ImportComplete
PROPERTY AssignmentTyped
CHECK_DEADLOCK FALSE
PROPERTY ParallelReturns
