SPECIFICATION Spec
CONSTANTS
    MaxRows = 5
    Sessions = {s1}
    Kinds = {"initialize", "initialized", "binary"}
    Ids <- MCId
    NoSession = NoSession
    NoId = NoId
    Integer = Integer
    String = String
    MaxSessions = 2
    MaxPending = 1
    MaxBinary = 1
    MaxWork = 7
    MaxFaults = 1
CHECK_DEADLOCK FALSE
PROPERTIES
    NoPublicationAfterUnknown
