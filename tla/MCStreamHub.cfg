CHECK_DEADLOCK FALSE
SPECIFICATION HubFairSpec
CONSTANTS
    Part = {p1, p2}
    p1 = p1
    p2 = p2
    Client = {k1, k2}
    k2 = k2
    k1 = k1
    Retain = 2
    MaxBurst = 1
    MaxSent = 4
    MaxBreaks = 1
    MaxRestarts = 1
INVARIANT NoSilentGap
PROPERTY ResetOnlyWhenMissed
PROPERTY CatchesUp
