\* Three blocks to ask for and room for two per peer: the cap of one peer
\* against the random pick of send_requests.
SPECIFICATION Spec
CONSTANTS
    p1 = p1
    p2 = p2
    Peers = {p1, p2}
    PeerCaps <- MCPeerCaps
    BadPeers = {}
    MaxHeight = 3
    ArchiveMode = FALSE
    Horizon = 3
    HeadersAtStart = 3
    PeerHeights = {3}
    ReorgDepth = 0
    BLOCKS_REQUEST_PER_PEER = 2
    BLOCKS_REQUEST_LIMIT = 3
    SeriesWindow = 3
    NextAskPeriod = 1
    BanThreshold = 1
    MaxScore = 1
    FlakySend = FALSE
    Churn = FALSE
    MaxPending = 1
INVARIANTS
    PerPeerCapRespected
