SPECIFICATION Spec
CONSTANTS
    Caller = {c1}
    MaxTime = 1
    MaxArms = 1
PROPERTIES
    DisarmPreventsCallback
CHECK_DEADLOCK FALSE
