CONSTANTS
    Files <- MCFiles
    Pools <- MCPools
    Types <- MCTypes
    FileOf <- MCFileOf
    Imports <- MCImports
    Generated = "old"
    StampedType = "StampedMessage"
    StampedEntry = "_protobag.StampedMessage"
    NoType = ""
    UserEntries <- MCUserEntries
    MaxEntries = 3
SPECIFICATION SpecAll
INVARIANTS TypeOK CollectedIsClosure PinnedTypesKnown NothingMissing DecodedAsWritten
PROPERTIES FirstDefinitionStays WriteReturns
CHECK_DEADLOCK FALSE
