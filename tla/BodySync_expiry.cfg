\* One peer that drops its connection with a request in flight: the sweep of
\* expired requests against the early return of a tick without peers.
SPECIFICATION FairSpec
CONSTANTS
    p1 = p1
    p2 = p2
    Peers = {p1}
    PeerCaps <- MCOnePeerCaps
    BadPeers = {}
    MaxHeight = 2
    ArchiveMode = FALSE
    Horizon = 2
    HeadersAtStart = 2
    PeerHeights = {2}
    ReorgDepth = 0
    BLOCKS_REQUEST_PER_PEER = 1
    BLOCKS_REQUEST_LIMIT = 2
    SeriesWindow = 2
    NextAskPeriod = 1
    BanThreshold = 2
    MaxScore = 1
    FlakySend = FALSE
    Churn = TRUE
    MaxPending = 1
PROPERTIES
    ExpiredRequestsAreSwept
