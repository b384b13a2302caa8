SPECIFICATION Spec
CONSTANTS
    Hosts = {h1, h2}
    Facts <- MCFacts
    FirstFacts <- MCFirst
    None = None
    Package <- MCPackage
    Noise = 0
    MaxChunk = 2
    MaxLines = 2
    MaxStarts = 3
    MaxRevision = 7
    MaxFaults = 1
    MaxEvidence = 1
SYMMETRY HostSymmetry
CHECK_DEADLOCK FALSE
INVARIANTS
    AckedIsHeld
    NoFalseAlarm
PROPERTIES
    FactsAreKept
