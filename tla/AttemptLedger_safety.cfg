SPECIFICATION Spec
CONSTANTS
    None = None
    Sizes = {1}
    MaxRecords = 4
    MaxRecordBytes = 1
    MaxTotalBytes = 3
    Keys <- MCKeys
    Sessions = {"s1", "s2"}
    Session <- MCSession
    KeyBytes <- MCKeyBytes
    Outcomes = {"returned", "cancelled"}
    MaxAttempts = 2
    MaxActive = 2
    MaxCatalogRecords = 8
    MaxCatalogRecordBytes = 1
    MaxKeyBytes = 2
    MaxSeenKeyBytes = 4
    MaxArchiveBytes = 17
    MaxExportFiles = 16
    MaxFaults = 2
CHECK_DEADLOCK FALSE
INVARIANTS
    CatalogIsValid
    EndIsTrue
    ReservesSuffice
