CONSTANTS
    Workers = {w1, w2, w3}
    Conns = {c1, c2, c3, c4, c5}
    NoConn = NoConn
    MaxSessions = 3
    MaxCalls = 2
    MaxFaults = 2
SPECIFICATION Spec
SYMMETRY Symmetry
INVARIANTS
    TypeOK
    PoolServes
PROPERTY CommandsAreNotCut
