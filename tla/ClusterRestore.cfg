CONSTANTS
    OldNodes = 3
    Scheduled <- MCScheduled
SPECIFICATION Spec
INVARIANTS
    TypeOK
    OneClusterServes
PROPERTIES
    DataIsKept
    GateSeesNewServer
CHECK_DEADLOCK FALSE
