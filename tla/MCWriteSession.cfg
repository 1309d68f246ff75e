SPECIFICATION Spec
CONSTANTS
    AllTopics <- MCTopics
    MaxTimestamp = 3
    Sessions = {s1, s2}
    Kinds = {"memory", "directory", "zip"}
    UserEntries <- MCEntries
    IndexTimes = {3}
    Specs <- MCSpecs
    MaxWrites = 3
    MaxLost = 1
SYMMETRY Symmetry
INVARIANTS
    TypeOK
    IndexMatchesArchive
    IndexStatsAgree
    OneIndexPerSession
    IndexedNamesResolve
PROPERTIES
    DestroyedIsIndexed
CHECK_DEADLOCK FALSE
