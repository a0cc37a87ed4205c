CHECK_DEADLOCK FALSE
SPECIFICATION Spec
CONSTANTS
    a = a
    b = b
    App = {a}
    s = s
    t = t
    Process = {s, t}
    MaxManual = 1
    MaxToggles = 0
    MaxFaults = 1
PROPERTY CyclesGoOn
