SPECIFICATION FairSpec
CONSTANTS
    m1 = m1
    p1 = p1
    p2 = p2
    p3 = p3
    c1 = c1
    c2 = c2
    f1 = f1
    None = None
    Manifest = {m1}
    Peer = {p1, p2, p3}
    Caller = {c1, c2}
    Finder = {f1}
    max_providers_per_manifest = 2
    default_ttl = 0
    discovery_timeout = 1
    MaxTime = 1
INVARIANTS
    TypeOK
    TimeoutOnlyUnfound
PROPERTY
    DiscoverEnds
