\* An archive node with the headers of three blocks, and peers of which the
\* best one is at height 1 or at height 3: the percentage the status line
\* shows while the blocks arrive.
SPECIFICATION Spec
CONSTANTS
    p1 = p1
    p2 = p2
    Peers = {p1, p2}
    PeerCaps <- MCPeerCaps
    BadPeers = {}
    MaxHeight = 3
    ArchiveMode = TRUE
    Horizon = 3
    HeadersAtStart = 3
    PeerHeights = {1, 3}
    ReorgDepth = 0
    BLOCKS_REQUEST_PER_PEER = 2
    BLOCKS_REQUEST_LIMIT = 2
    SeriesWindow = 2
    NextAskPeriod = 2
    BanThreshold = 2
    MaxScore = 2
    FlakySend = FALSE
    Churn = FALSE
    MaxPending = 1
INVARIANT
    ProgressIsAPercentage
