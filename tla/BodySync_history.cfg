\* An archive node two blocks behind a network that grows: the peers of a
\* refill against the capabilities the blocks below the archive height need.
SPECIFICATION Spec
CONSTANTS
    p1 = p1
    p2 = p2
    Peers = {p1, p2}
    PeerCaps <- MCPeerCaps
    BadPeers = {p2}
    MaxHeight = 4
    ArchiveMode = TRUE
    Horizon = 2
    HeadersAtStart = 2
    PeerHeights = {2, 4}
    ReorgDepth = 0
    BLOCKS_REQUEST_PER_PEER = 1
    BLOCKS_REQUEST_LIMIT = 2
    SeriesWindow = 2
    NextAskPeriod = 1
    BanThreshold = 2
    MaxScore = 2
    FlakySend = FALSE
    Churn = FALSE
    MaxPending = 1
PROPERTIES
    HistoryFromHistoryPeers
