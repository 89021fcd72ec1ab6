CONSTANTS
    Client = {c1}
    Server = server
    Index = {i1, i2}
    None = None
    kWindowSize = 2
    U64 = 8
    kRejectAfterMessages = 1
    RejectAfterTime = 1
    KeepaliveTimeout = 0
    MaxInitiations = 2
    MaxCopies = 1
    MaxCrashes = 0
    MaxLosses = 1
CHECK_DEADLOCK FALSE
SPECIFICATION FairSpec
PROPERTY HandshakeSurvivesLoss
