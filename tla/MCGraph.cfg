CONSTANTS
    Clients = {"c1", "c2"}
    Kinds = {"plain", "throw", "forward", "cycle"}
    Limit = 3
    MaxPosts = 2
    MaxRelease = 1
SPECIFICATION FairSpec
INVARIANTS TypeOK BusyWhileDelivering SyncMeansHandled FailureReported
PROPERTY SyncCallsReturn
CHECK_DEADLOCK FALSE
