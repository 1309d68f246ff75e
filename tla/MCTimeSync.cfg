SPECIFICATION FairSpec
CONSTANTS
    a = a
    b = b
    c = c
    Topics <- MCTopics
    Stamps = {0, 1, 2}
    Specs <- MCSpecs
    MaxReads = 5
INVARIANTS
    TypeOK
    QueuesBounded
    BundlesSound
    NoBundleWithheld
PROPERTIES
    LossJustified
    CallReturns
    MinimalWhenInOrder
