SPECIFICATION Spec
SYMMETRY Symmetry
CONSTANTS
    c1 = c1
    c2 = c2
    p1 = p1
    m1 = m1
    None = None
    Client = {c1, c2}
    Peer = {p1}
    Manifest = {m1}
    Window = 1
    Lifetime = 1
    MaxRequests = 2
    MaxKem = 2
    MaxTime = 2
INVARIANT TypeOK
INVARIANT AcceptedOnce
INVARIANT TaskTraceable
INVARIANT AckedTaskOwned
PROPERTY RefusedOnlyIfStale
