\* Two peers on a network that does not fail, sending values while UP.
\* One tick ~ half of ping_interval_max; send_timeout <= ping_interval_max
\* < pong_timeout < 2 * ping_interval_max, as with the defaults.
CONSTANTS
    PingMin = 1
    PingMax = 2
    PongTimeout = 3
    SendTimeout = 1
    DataTraffic = TRUE
    a = a
    b = b
    Peers <- MCPeers
    MaxPartitions = 0
SPECIFICATION Spec
INVARIANT TypeOK
PROPERTY PromotionAnswersLatestPing
PROPERTY LinkRecurrentlyUp
PROPERTY ImplementsLinkMonitor
