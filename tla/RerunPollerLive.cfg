CONSTANTS
    Pollers = {p1, p2}
    Runs = {r1, r2, r3}
    NoPid = NoPid
    NoRun = NoRun
    Overlap = FALSE
    MaxTS = 3
    MaxFresh = 1
    MaxFaults = 1
SPECIFICATION FairSpec
PROPERTY RequestsAreProcessed
