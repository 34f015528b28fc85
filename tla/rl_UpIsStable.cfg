\* Two idle peers on a network that does not fail: does an UP link stay up?
CONSTANTS
    PingMin = 1
    PingMax = 2
    PongTimeout = 3
    SendTimeout = 1
    DataTraffic = FALSE
    a = a
    b = b
    Peers <- MCPeers
    MaxPartitions = 0
SPECIFICATION Spec
PROPERTY UpIsStable
