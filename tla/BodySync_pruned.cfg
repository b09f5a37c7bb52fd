\* A pruned node whose body head is below the horizon: state sync first, then
\* the blocks above the archive height, one request at a time, while the best
\* peer changes its height and the headers change their branch at any depth.
SPECIFICATION Spec
CONSTANTS
    p1 = p1
    p2 = p2
    Peers = {p1, p2}
    PeerCaps <- MCPeerCaps
    BadPeers = {p2}
    MaxHeight = 3
    ArchiveMode = FALSE
    Horizon = 2
    HeadersAtStart = 3
    PeerHeights = {2, 3}
    ReorgDepth = 3
    BLOCKS_REQUEST_PER_PEER = 2
    BLOCKS_REQUEST_LIMIT = 1
    SeriesWindow = 2
    NextAskPeriod = 1
    BanThreshold = 1
    MaxScore = 1
    FlakySend = FALSE
    Churn = FALSE
    MaxPending = 1
INVARIANTS
    GlobalCapRespected
