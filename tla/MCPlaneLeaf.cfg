SPECIFICATION Spec
CONSTANTS
    i1 = i1
    i2 = i2
    c1 = c1
    c2 = c2
    c3 = c3
    net = net
    fan = fan
    Last = 0
    Resources = {net}
    Owner <- LeafOwner
    Ids = {i1, i2}
    Payloads <- BootPayloads
    Calls = {c1, c2, c3}
    MaxRev = 2
    MaxBoot = 2
SYMMETRY Symmetry
CHECK_DEADLOCK FALSE
INVARIANTS NoOvertaking ReconciledIsOver
PROPERTIES SettledIsFinal
