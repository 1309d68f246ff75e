SPECIFICATION Spec
CONSTANTS
    AllTopics <- MCTopics
    MaxTimestamp = 9
    Indexing = {2}
    Contents <- MCContents
    Selections <- MCSelections
    MaxAnswers = 1
PROPERTIES
    LatestIndexRead
CHECK_DEADLOCK FALSE
