SPECIFICATION FairSpec
CONSTANTS
    Caller = {c1, c2}
    MaxTime = 2
    MaxArms = 3
INVARIANTS
    SingleShot
    DisarmedNeverRuns
PROPERTIES
    NeverEarly
    ArmedFires
    DestroyTerminates
CHECK_DEADLOCK FALSE
