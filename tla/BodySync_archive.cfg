\* An archive node that syncs from genesis while the network grows: sends
\* fail, p2 sends bad blocks, peers are banned and drop their connections.
SPECIFICATION Spec
CONSTANTS
    p1 = p1
    p2 = p2
    Peers = {p1, p2}
    PeerCaps <- MCPeerCaps
    BadPeers = {p2}
    MaxHeight = 3
    ArchiveMode = TRUE
    Horizon = 3
    HeadersAtStart = 0
    PeerHeights = {3}
    ReorgDepth = 0
    BLOCKS_REQUEST_PER_PEER = 1
    BLOCKS_REQUEST_LIMIT = 2
    SeriesWindow = 2
    NextAskPeriod = 2
    BanThreshold = 1
    MaxScore = 1
    FlakySend = TRUE
    Churn = TRUE
    MaxPending = 1
INVARIANTS
    TypeOK
PROPERTIES
    SentRequestsAreTracked
    OnlyNeededBlocksRequested
    CreditOnlyTheOwner
    DownloadsAsPromised
