CHECK_DEADLOCK FALSE
SPECIFICATION Spec
CONSTANTS
    p = p
    q = q
    a = a
    b = b
    absent = absent
    Path = {p, q}
    Content = {a, b, absent}
    Absent = absent
    Origin <- MCOrigin
    Asks <- MCAsks
    Writer = {w1}
    w1 = w1
    Registrar = {g1}
    g1 = g1
    Editor = {e1}
    e1 = e1
    Adoption = {d1, d2}
    d1 = d1
    d2 = d2
    NoOne = NoOne
    MaxCommits = 3
    MaxEdits = 1
    MaxCrashes = 1
    MaxFails = 1
INVARIANT RevisionsAreCommitted
INVARIANT RevisionsFollowHistory
INVARIANT AdoptionTold
PROPERTY KeepsPromise
