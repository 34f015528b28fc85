\* Two idle peers; one partition after the link is up: once it heals, is
\* there always a peer that can still reach the other?
CONSTANTS
    PingMin = 1
    PingMax = 2
    PongTimeout = 3
    SendTimeout = 1
    DataTraffic = FALSE
    a = a
    b = b
    Peers <- MCPeers
    MaxPartitions = 1
SPECIFICATION Spec
INVARIANT LinkNeverDead
