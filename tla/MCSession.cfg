SPECIFICATION Spec
CONSTANTS
    kWindowSize = 3
    U64 = 10
    kRejectAfterMessages = 7
    MaxSeals = 10
INVARIANTS
    TypeOK
    NonceUnique
    CheckIsExact
PROPERTIES
    ImplementsChannel
