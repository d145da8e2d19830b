CONSTANTS
    N = 3
    Kinds <- MCKinds
SPECIFICATION FairSpec
INVARIANTS
    TypeOK
    ResultsComplete
    DownIsRebootedOrFailed
PROPERTIES
    EveryoneEnds
    PrepareSpec
CHECK_DEADLOCK FALSE
