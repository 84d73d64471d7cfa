CONSTANTS
    Transports <- TwoChannels
    KindOf <- MCKind
    LinksOf <- MCLinksOf
    Streamer <- MCStreamer
    Adapter <- MCAdapter
    Service <- MCService
    NumPoll = 1
SPECIFICATION ManagerSpec
INVARIANT DisconnectSucceeds
CHECK_DEADLOCK FALSE
