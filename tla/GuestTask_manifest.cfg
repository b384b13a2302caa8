SPECIFICATION Spec
CONSTANTS
    Ids = {1, 2, 3, 4, 5}
    Codes = {"source_changed", "worker_failed"}
    None = None
    MaxWorkers = 5
    MaxFaults = 2
CHECK_DEADLOCK FALSE
INVARIANTS
    StagedPrepareRetryable
