CONSTANTS
  Envs = {g, f}
  Global = g
  Function = f
  FunctionNames = {a}
  Names = {a, b}
  KindsChecked = {"define", "assign", "delete", "alias", "restore", "freeze", "thaw",
                  "permafreeze"}
  Types = {"MAP"}
  Values = {"m", "n", "i"}
  Schemas = {"has_m"}
  Lineage <- MCLineage
  Ops <- MCOps
  Accepts <- MCAccepts
  Compatible <- MCCompatible
  Fits <- MCFits
  Unknown = Unknown
  Null = Null
  NoSchema = NoSchema
  Absent = Absent
  Nowhere = Nowhere
  Capacity = 1
  MaxDepth = 4
SPECIFICATION Spec
INVARIANTS ValueFitsType AssignThenReadNear AliasReadsTarget
PROPERTY FrozenEntryKept
