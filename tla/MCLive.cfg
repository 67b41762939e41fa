SPECIFICATION LiveSpec
CONSTANTS
    i1 = i1
    i2 = i2
    c1 = c1
    c2 = c2
    c3 = c3
    net = net
    fan = fan
    Last = 1
    Resources = {net, fan}
    Owner <- MixedOwner
    Ids = {i1}
    Payloads <- MixedPayloads
    Calls = {c1, c2}
    MaxRev = 1
    MaxBoot = 1
    Condition = {"c"}
    Evaluator = {"timer", "hand"}
    Confirmations = 2
    MaxBoots = 2
    MaxUpsets = 1
    Gateway = {"g", "h"}
    Assignment <- MCAssignment
    MaxSatMishaps = 1
CHECK_DEADLOCK FALSE
PROPERTIES EveryCallEnds  SatelliteConnects
