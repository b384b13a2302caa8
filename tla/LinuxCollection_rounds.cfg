SPECIFICATION CollectionSpec
CONSTANTS
    MaxCalls = 2
    MaxFaults = 1
CHECK_DEADLOCK FALSE
INVARIANTS
    ExportIsFinal
    ReceiptIsTrue
    EvidenceIsTrue
    OpensAreAnswered
    ObservationIsTrue
    ResumeIsTrue
