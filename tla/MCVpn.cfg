CONSTANTS
    Client = {c1, c2}
    Server = server
    Index = {i1, i2}
    None = None
    kWindowSize = 2
    U64 = 8
    kRejectAfterMessages = 1
    RejectAfterTime = 1
    KeepaliveTimeout = 0
    MaxInitiations = 1
    MaxCopies = 2
    MaxCrashes = 1
    MaxLosses = 0
SPECIFICATION Spec
SYMMETRY VpnSymmetry
INVARIANTS RouteToOwner ServerSendsOnlyConfirmed WrittenOnce CompletedOnce
CHECK_DEADLOCK FALSE
