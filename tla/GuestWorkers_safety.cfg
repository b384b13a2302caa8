SPECIFICATION FairSpec
CONSTANTS
    t1 = t1
    t2 = t2
    Tasks <- MCTasks
    Nonces = {n1, n2}
    MaxFaults = 1
    Requests <- MCRequests
    Expiring = {t1}
    None = None
CHECK_DEADLOCK FALSE
INVARIANTS
    RegisteredBeforeWork
    StoppedIsGone
PROPERTIES
    WorkIsHandedOver
    EveryWorkerIsReconciled
