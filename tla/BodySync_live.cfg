\* A pruned node and two good peers, fair ticks and a fair-loss network: blocks
\* arrive out of order, wait as orphans and requests time out, and the header
\* chain may replace its last header by the one of another branch.
SPECIFICATION ForkFairSpec
CONSTANTS
    p1 = p1
    p2 = p2
    Peers = {p1, p2}
    PeerCaps <- MCPeerCaps
    BadPeers = {}
    MaxHeight = 2
    ArchiveMode = FALSE
    Horizon = 2
    HeadersAtStart = 2
    PeerHeights = {2}
    ReorgDepth = 1
    BLOCKS_REQUEST_PER_PEER = 1
    BLOCKS_REQUEST_LIMIT = 2
    SeriesWindow = 2
    NextAskPeriod = 1
    BanThreshold = 2
    MaxScore = 1
    FlakySend = FALSE
    Churn = FALSE
    MaxPending = 1
PROPERTIES
    BodySyncCompletes
