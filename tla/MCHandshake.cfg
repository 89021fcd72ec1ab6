SPECIFICATION Spec
CONSTANTS
    Initiator = {a, b, c, d}
    Responder = r
    WrongX = {d}
    WrongK = {c}
    OpenPeers = {b}
    Index = {i1, i2}
    None = None
    kNanos = 2
    MaxClock = 2
    MaxInitiations = 2
    MaxResponses = 2
SYMMETRY IndexSymmetry
INVARIANTS
    ConsumedOnce
    PendingStillFresh
    IndicesRegistered
    KeyAgreement
    SessionsDistinct
    MisconfiguredNeverConnects
PROPERTIES
    ImplementsKeyExchange
CHECK_DEADLOCK FALSE
