SPECIFICATION FairSpec
CONSTANTS
    Ids = {1, 2, 3, 4, 5}
    Codes = {"source_changed", "worker_failed"}
    None = None
    MaxRuns = 2
    MaxFaults = 1
    MaxLate = 1
CHECK_DEADLOCK FALSE
INVARIANTS
    ResultIsTrue
    HostMatchesGuest
    NoFalseConflict
    QuietRunCompletes
PROPERTIES
    ClaimsAreBacked
    RunEnds
