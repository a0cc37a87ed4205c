CHECK_DEADLOCK FALSE
SPECIFICATION FairSpec
CONSTANTS
    Job = {j1}
    j1 = j1
    Corr = {1, 2}
    Request = {1, 2}
    Poller = {p1}
    p1 = p1
    Results = {"succeeded"}
    MaxFaults = 1
INVARIANT ReapedIsGone
INVARIANT NoInventedOutcome
INVARIANT EvidenceBacked
PROPERTY Converges
