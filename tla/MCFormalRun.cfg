SPECIFICATION FairSpec
CONSTANTS
    Last = 2
    MaxReady = 2
    MaxFaults = 1
    MaxCrashes = 1
    MaxRestarts = 1
    MaxDrifts = 1
    MaxCalls = 1
    MaxTroubles = 2
INVARIANT EvidenceIsOfTheRun
INVARIANT SealedIsBacked
CHECK_DEADLOCK FALSE
PROPERTY FlowRests
INVARIANT ProgressIsTrue
