CHECK_DEADLOCK FALSE
SPECIFICATION Spec
CONSTANTS
    Opener = {o1, o2}
    o1 = o1
    o2 = o2
    MaxWork = 3
    MaxSubs = 5
    MaxReadiness = 3
    MaxFormal = 2
    MaxEdits = 1
SYMMETRY OpenerSymmetry
INVARIANT ReleaseIsWhatWasEvaluated
INVARIANT ReviewKeepsFormalInput
INVARIANT ProjectIsConsistent
INVARIANT HistoryInOrder
