CONSTANTS
    Paths <- MCPaths
    NoDb = NoDb
    OtherName = OtherName
SPECIFICATION Spec
INVARIANTS
    OpenHonoursReadonly
