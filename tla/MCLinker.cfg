SPECIFICATION Spec
CONSTANTS
  Names <- MCNames
  Plt <- MCPlt
  GotName = "_GLOBAL_OFFSET_TABLE_"
  UserSections <- MCUserSections
  Start <- MCStart
  Stop <- MCStop
  Hash <- MCHash
  Decls <- MCDecls
  RelocTypes = {"pc32", "plt32", "gotpcrel"}
  AddedNames = {"f"}
  AddedValue = 7
  Base <- MCBase
  MaxFiles = 2
  MaxSyms = 3
  MaxRelocs = 2
  MaxAdded = 1
CHECK_DEADLOCK FALSE
INVARIANTS TypeOK HashFinds WinnerKept MissingReported ReferencesReach
