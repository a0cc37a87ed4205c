CHECK_DEADLOCK FALSE
SPECIFICATION Spec
CONSTANTS
    a = a
    b = b
    App = {a, b}
    s = s
    t = t
    Process = {s, t}
    MaxManual = 1
    MaxToggles = 2
    MaxFaults = 1
INVARIANT HandedOutIsReserved
INVARIANT ReservationsAreLive
PROPERTY NothingJudgedWhilePaused
PROPERTY PendingIsJudged
