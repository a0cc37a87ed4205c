SPECIFICATION LearningFairSpec
CONSTANTS
    Episode = {e1}
    Distiller = {d1, d2}
    Start <- MCStart
    MaxVersions = 2
    MaxControls = 2
    MaxUses = 1
    MaxSwitches = 2
    MaxFailures = 1
PROPERTY ControlledIsLeftAlone
PROPERTY NothingCameBetween
PROPERTY DistillationEnds
CHECK_DEADLOCK FALSE
