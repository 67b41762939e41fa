SPECIFICATION FairSpec
CONSTANTS
    Mode = "active-active"
    Algo = "ip-hash"
    Hash <- MCHash
    PeerTimeout = 3
    Hold = 2
    MaxDelay = 1
    Ips = {1, 2}
    Ports = {1, 2}
INVARIANTS NoBlackHole AgreedRoles
PROPERTIES NoFlap PairReforms
