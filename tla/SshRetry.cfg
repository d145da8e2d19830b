CONSTANTS
    AttemptCounts <- MCAttemptCounts
    Delays <- MCDelays
    Durations <- MCDurations
SPECIFICATION RetrySpec
INVARIANTS
    RetryTypeOK
    RetriesAreTimed
