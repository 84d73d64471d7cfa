CONSTANTS
    Threads = {"t1", "t2"}
    Ops <- MCOps
    Addrs <- MCAddrs
    Calls <- SharedCalls
    SeqNums = 2
    BuffCapacity = 12
    MaxAsync = 1
    Faults = {"lose_req", "lose_resp", "dup_resp", "send", "timeout"}
    MaxReqs = 3
    MaxNet = 2
SPECIFICATION FairSpec
INVARIANTS TypeOK BufferAccounting
PROPERTY CallsReturn
