\* Two good peers, one outbound and one inbound, that come and go and that
\* advertise no height yet or one of two chains, of which the longer one has
\* less work; the network moves on once.
SPECIFICATION Spec
CONSTANTS
    p1 = p1
    p2 = p2
    Peers = {p1, p2}
    Outbound = {p1}
    Capable = {p1, p2}
    BadPeers = {}
    LiveInfos <- MCForkLiveInfos
    Quorum = 1
    BanThreshold = 1
    MaxScore = 1
    StateAnswersBadState = FALSE
    ChainFails = FALSE
    Churn = TRUE
    MaxGrowth = 1
PROPERTIES
    SyncDoneOnlyWhenAllReady
