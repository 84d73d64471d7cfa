CONSTANTS
    r1 = r1
    r2 = r2
    s1 = s1
    data = data
    status = status
    None = None
    RecvClients = {r1, r2}
    SendClients = {s1}
    Links = {data, status}
    LinkOf <- MCLinkOf
    NumFrames <- MCNumFrames
    Reserved <- MCReserved
    Window = 1
    SendFrames = 1
    Made <- MCMade
    MaxPkts <- MCMaxPkts
SPECIFICATION FairSpec
INVARIANTS QueuesFit FramesAccounted NoUndefined
PROPERTIES DeliversInOrder DisconnectReturns
