CONSTANTS
    Client = {c1}
    Server = server
    Index = {i1, i2}
    None = None
    kWindowSize = 2
    U64 = 8
    kRejectAfterMessages = 1
    RejectAfterTime = 1
    KeepaliveTimeout = 0
    MaxInitiations = 2
    MaxCopies = 2
    MaxCrashes = 0
    MaxLosses = 0
CHECK_DEADLOCK FALSE
SPECIFICATION Spec
INVARIANT OneSessionPerInitiation
