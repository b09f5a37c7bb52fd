\* The whole pipeline with a good peer and a bad one that stay connected:
\* votes, segments, headers, PIBD, blocks, bans and their expiry, the cache
\* and a network that moves on once; safety and progress.
SPECIFICATION FairSpec
CONSTANTS
    p1 = p1
    p2 = p2
    Peers = {p1, p2}
    Outbound = {p1}
    Capable = {p1, p2}
    BadPeers = {p2}
    LiveInfos <- MCOneLiveInfo
    Quorum = 1
    BanThreshold = 1
    MaxScore = 1
    StateAnswersBadState = FALSE
    ChainFails = FALSE
    Churn = FALSE
    MaxGrowth = 1
INVARIANTS
    TypeOK
    AssertNeverFires
PROPERTIES
    BansAreFlushed
    SyncCompletes
