SPECIFICATION Spec
CONSTANTS
    m1 = m1
    m2 = m2
    Message = {m1, m2}
    Roles = {"side", "project"}
    Start = start
    MaxRetries = 1
    MaxAborts = 1
    MaxCrashes = 1
    MaxSilences = 2
INVARIANT GivenAtMostOnce
INVARIANT LocalSuccessIsCores
PROPERTY NeverWedged
CHECK_DEADLOCK FALSE
