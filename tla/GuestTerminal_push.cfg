SPECIFICATION Spec
CONSTANTS
    Direction = "push"
    Ids = {i1, i2, i3, i4, i5}
    Codes = {"source_changed", "worker_failed"}
    None = None
SYMMETRY IdSymmetry
CHECK_DEADLOCK FALSE
INVARIANTS
    RestoreAccepts
    DisclosuresHold
    ReleaseChain
PROPERTIES
    Irrevocable
