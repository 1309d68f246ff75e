SPECIFICATION FairSpec
CONSTANTS
    AllTopics <- MCTopics
    MaxTimestamp = 9
    Indexing = {1, 2}
    Contents <- MCContents
    Selections <- MCSelections
    MaxAnswers = 5
INVARIANTS
    TypeOK
    PlaybackInTimeOrder
    PlaybackComplete
    RequestedAnswered
    EndIsFinal
PROPERTIES
    CallReturns
CHECK_DEADLOCK FALSE
