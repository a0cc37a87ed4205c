CHECK_DEADLOCK FALSE
SPECIFICATION FairSpec
CONSTANTS
    Job = {j1, j2}
    NoJob = NoJob
    j1 = j1
    j2 = j2
    Results = {"succeeded"}
    MaxConcurrency = 1
    Keep = 1
    DiskFails = TRUE
    MaxCrashes = 1
    MaxQueued = 1
INVARIANT NoStrandedJob
INVARIANT CancelledIsIdle
INVARIANT EvidenceOnlyOfOutcome
INVARIANT RerunOnlyIfForgotten
PROPERTY KeepsContract
PROPERTY AcceptedEnds
INVARIANT SlotsAccounted
