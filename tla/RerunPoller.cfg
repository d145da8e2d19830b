CONSTANTS
    Pollers = {p1, p2}
    Runs = {r1, r2, r3}
    NoPid = NoPid
    NoRun = NoRun
    Overlap = FALSE
    MaxTS = 3
    MaxFresh = 2
    MaxFaults = 2
SPECIFICATION Spec
SYMMETRY Symmetry
INVARIANTS
    TypeOK
    PollerExclusion
    RerunAtMostOnce
PROPERTIES
    ProcessedNeverGoesBack
    ServiceSpec
