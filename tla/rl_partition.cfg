\* Two idle peers; the network may fail once after the link is up on both
\* sides, losing what is in flight and what is sent until it heals.
\* Safety only, so the two peers are interchangeable (symmetry).
CONSTANTS
    PingMin = 1
    PingMax = 2
    PongTimeout = 3
    SendTimeout = 1
    DataTraffic = FALSE
    a = a
    b = b
    Peers <- MCPeers
    MaxPartitions = 1
SPECIFICATION Spec
SYMMETRY PeerSymmetry
INVARIANT TypeOK
PROPERTY PromotionAnswersLatestPing
