SPECIFICATION FairSpec
CONSTANTS
    MaxPools = 3
    MaxPoolSize = 3
    PoolSizes <- MCPoolSizes
INVARIANTS
    TypeOK
    NoProductSkipped
PROPERTIES
    ImplementsEnumeration
    Exhausted
