\* A pruned node and two good peers that take every request, fair ticks and
\* fair timeouts: the header chain leaves its branch while the series of the
\* tick holds the headers of that branch.
SPECIFICATION TimelyFairSpec
CONSTANTS
    p1 = p1
    p2 = p2
    Peers = {p1, p2}
    PeerCaps <- MCPeerCaps
    BadPeers = {}
    MaxHeight = 2
    ArchiveMode = FALSE
    Horizon = 2
    HeadersAtStart = 2
    PeerHeights = {2}
    ReorgDepth = 2
    BLOCKS_REQUEST_PER_PEER = 2
    BLOCKS_REQUEST_LIMIT = 2
    SeriesWindow = 2
    NextAskPeriod = 1
    BanThreshold = 2
    MaxScore = 1
    FlakySend = FALSE
    Churn = FALSE
    MaxPending = 1
PROPERTY ForksAreTolerated
