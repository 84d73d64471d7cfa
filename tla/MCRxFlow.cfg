CONSTANTS
    Capacity <- MCCapacity
    Headroom <- MCHeadroom
    FcFreq <- MCFcFreq
    W = 2
    PktSizes = {3, 6}
    StrcWords = 2
    OkLatency = 2
    Lossy = TRUE
    Faults = {"lose_down", "lose_up", "no_frame"}
    MaxPkts = 8
    MaxLoss = 3
SPECIFICATION FairSpec
INVARIANTS TypeOK OverflowBounded ResyncExact HeldAccounting
PROPERTY KeepsMoving
