CONSTANTS
    Capacity = 11
    FrameSize = 4
    PktSizes = {3, 4}
    W = 2
    StrcSize = 2
    MaxStrcSize = 3
    FcFreq = 4
    CountMod = 16
    UintMax = 12
    Faults = {"lose_down", "lose_up", "no_frame"}
    MaxPkts = 6
    MaxLoss = 2
    MaxInits = 1
SPECIFICATION FairSpec
INVARIANTS TypeOK NoOverflow NeverAhead
PROPERTY KeepsMoving
