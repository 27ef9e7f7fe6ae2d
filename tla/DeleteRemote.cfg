SPECIFICATION FairSpec
CONSTANTS
    n1 = n1
    n2 = n2
    k1 = k1
    d1 = d1
    Node = {n1, n2}
    Registered = {"mock"}
    Key = {k1}
    Request = {d1}
    Entry <- OneEntry
    Signed = {}
    NoOwner = NoOwner
    MaxApplies = 2
    MaxBoots = 0
    Lossy = FALSE
PROPERTY DeleteReachesWorkloads
CHECK_DEADLOCK FALSE
