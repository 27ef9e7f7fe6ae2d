SPECIFICATION RestSpec
CONSTANTS
    n1 = n1
    n2 = n2
    k1 = k1
    d1 = d1
    Node = {n1, n2}
    Registered = {"podman", "docker"}
    Key = {k1}
    Request = {d1}
    Entry <- OneEntry
    Signed <- Forced
    NoOwner = NoOwner
    MaxApplies = 2
    MaxBoots = 1
    Lossy = TRUE
INVARIANT TypeOK
PROPERTY OwnerDroppedAfterSweep
PROPERTY DeletesEnd
CHECK_DEADLOCK FALSE
