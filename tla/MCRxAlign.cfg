CONSTANTS
    NumChans = 4
    Untimed = {2}
    ALIGNMENT_FAILURE_THRESHOLD = 1
    MaxPkts = 5
    MaxLost = 1
    MaxWaiting = 1
SPECIFICATION FairSpec
INVARIANTS AlignedToOneTime
PROPERTIES DeliversAligned CatchesUp
CHECK_DEADLOCK FALSE
