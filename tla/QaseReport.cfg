CONSTANTS
    s1 = s1
    s2 = s2
    Suites = {s1, s2}
    NoSuite = NoSuite
    Outputs <- MCOutputs
    CaseIds <- MCCaseIds
    Included = {s1, s2}
    WithDir = {s1, s2}
    Interleavings = {TRUE, FALSE}
    MaxRows = 4
SPECIFICATION Spec
INVARIANTS
    TypeOK
    FailureReachesSlack
    FailureReachesQase
    CountsMatchTests
    SuccessIsReported
CHECK_DEADLOCK FALSE
