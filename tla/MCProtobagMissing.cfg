SPECIFICATION SpecBag
CONSTANTS
    AllTopics <- MCTopics
    MaxTimestamp = 3
    Sessions = {s1, s2}
    Kinds = {"directory", "zip"}
    UserEntries <- MCEntries
    IndexTimes = {3}
    Specs <- MCSpecs
    MaxWrites = 2
    MaxLost = 0
    Selections <- MCSelections
    Registered = {"BagIndex"}
    MaxAnswers = 5
INVARIANTS RequiredNamesRead
CHECK_DEADLOCK FALSE
