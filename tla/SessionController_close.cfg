SPECIFICATION Spec
CONSTANTS
    MaxRows = 4
    Sessions = {s1}
    Kinds = {"initialize", "initialized", "call", "cancel", "get", "binary", "reply"}
    Ids <- MCIds
    NoSession = NoSession
    NoId = NoId
    Integer = Integer
    String = String
    MaxSessions = 1
    MaxPending = 2
    MaxBinary = 1
    MaxWork = 9
    MaxFaults = 1
SYMMETRY MCSymmetry
CHECK_DEADLOCK FALSE
INVARIANTS
    ClosedIsQuiescent
    ClaimedOnce
    IdsAreExclusive
    SessionsAreBounded
