SPECIFICATION FlowSpec
CONSTANTS
    Nil = Nil
    PageSize = 2
    ResponseLimit = 3
    MaxRows = 3
    Flows <- SmallFlows
    Deadline = 4
    RequestTimeout = 2
    CloseTime = 1
    MaxStatusCalls = 2
    MaxPages = 2
    MaxResultBytes = 4
    MaxLogBytes = 7
    RecordLimit = 2
    ListToolsMaxPages = 2
INVARIANTS
    PageIsSlice
    CompleteIsWhole
    SavedIsExact
    StopIsExplained
