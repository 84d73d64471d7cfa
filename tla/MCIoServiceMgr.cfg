CONSTANTS
    Transports <- AllKinds
    KindOf <- MCKind
    LinksOf <- MCLinksOf
    Streamer <- MCStreamer
    Adapter <- MCAdapter
    Service <- MCService
    NumPoll = 1
SPECIFICATION ManagerSpec
INVARIANTS AttachedWhileUsed LinksInOneService StreamersApart
CHECK_DEADLOCK FALSE
