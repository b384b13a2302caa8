SPECIFICATION ReceiveSpec
CONSTANTS
    Bytes = {b1, b2}
    Size = 4
    MaxChunk = 2
    MaxBatch = 2
    ShortLimit = 1
    MaxWorkers = 3
    Null = Null
SYMMETRY ByteSymmetry
CHECK_DEADLOCK FALSE
INVARIANTS
    ReceivedIsHeld
    ProofIsCurrent
