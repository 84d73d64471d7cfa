CONSTANTS
    Threads = {"t1"}
    Ops <- MCOps
    Addrs <- MCAddrs
    Calls <- OneThreadCalls
    SeqNums = 8
    BuffCapacity = 9
    MaxAsync = 0
    Faults = {"lose_req", "lose_resp", "dup_resp", "status", "timeout"}
    MaxReqs = 4
    MaxNet = 3
SPECIFICATION Spec
INVARIANTS DeviceBufferBound ResponseFindsItsRequest IgnoredOnlyIfSeen OwnResponse
