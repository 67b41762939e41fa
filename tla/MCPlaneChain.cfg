SPECIFICATION Spec
CONSTANTS
    i1 = i1
    i2 = i2
    c1 = c1
    c2 = c2
    c3 = c3
    net = net
    fan = fan
    Last = 1
    Resources = {net}
    Owner <- ChainOwner
    Ids = {i1}
    Payloads <- OnePayload
    Calls = {c1, c2, c3}
    MaxRev = 2
    MaxBoot = 1
SYMMETRY Symmetry
CHECK_DEADLOCK FALSE
INVARIANTS AtMostOnce RelayTruth
PROPERTIES OneOutcome
