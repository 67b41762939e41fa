SPECIFICATION Spec
CONSTANTS
    Mode = "active-passive"
    Algo = "primary"
    Hash <- MCHash
    PeerTimeout = 3
    Hold = 2
    MaxDelay = 1
    Ips = {1, 2}
    Ports = {1, 2}
PROPERTY HoldBeforeTakeover
