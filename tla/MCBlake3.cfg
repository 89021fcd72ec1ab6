SPECIFICATION Spec
CONSTANTS
    IV = IV
    KEY = KEY
    Word = 32
    BLOCK_LEN = 2
    CHUNK_LEN = 4
    Processors <- MCProcessors
    Pieces = {1, 3, 5, 16, 40, 128}
    MaxLen = 133
    Outputs <- MCOutputs
    ManyInputs = {0, 3, 15, 17, 31}
    Counters = {0, 15, 24, 31, 1010}
INVARIANTS
    HashIsTree
    StackOrdered
    CallsExact
    RoundsAgree
