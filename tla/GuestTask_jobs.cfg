SPECIFICATION FairSpec
CONSTANTS
    Ids = {1, 2, 3, 4, 5}
    Codes = {"source_changed", "worker_failed"}
    None = None
    MaxWorkers = 6
    MaxFaults = 2
CHECK_DEADLOCK FALSE
INVARIANTS
    ReceiptsAreTrue
PROPERTIES
    DeletionIsAuthorized
    ImplementsLedger
    JobsEnd
