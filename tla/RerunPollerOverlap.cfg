CONSTANTS
    Pollers = {p1, p2}
    Runs = {r1, r2, r3}
    NoPid = NoPid
    NoRun = NoRun
    Overlap = TRUE
    MaxTS = 3
    MaxFresh = 2
    MaxFaults = 1
SPECIFICATION Spec
SYMMETRY Symmetry
INVARIANT RerunAtMostOnce
