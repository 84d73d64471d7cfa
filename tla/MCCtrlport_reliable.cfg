CONSTANTS
    Threads = {"t1", "t2"}
    Ops <- MCOps
    Addrs <- MCAddrs
    Calls <- DistinctCalls
    SeqNums = 3
    BuffCapacity = 14
    MaxAsync = 1
    Faults = {"status"}
    MaxReqs = 5
    MaxNet = 0
SPECIFICATION FairSpec
INVARIANTS DeviceBufferBound ResponseFindsItsRequest WaiterNotForgotten
PROPERTY CallsReturn
