SPECIFICATION Spec
CONSTANTS
    AllTopics <- MCTopics
    MaxTimestamp = 3
    Sessions = {s1}
    Kinds = {"directory", "zip"}
    UserEntries <- MCEntries
    IndexTimes = {3}
    Specs <- MCSpecs
    MaxWrites = 2
    MaxLost = 0
INVARIANTS
    FlushedWhenClosed
CHECK_DEADLOCK FALSE
