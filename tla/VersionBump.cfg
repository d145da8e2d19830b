CONSTANTS
    N = 3
    Run <- MCRun
    MaxPolls = 7
SPECIFICATION Spec
INVARIANTS
    TypeOK
    PassedWasChecked
CHECK_DEADLOCK FALSE
