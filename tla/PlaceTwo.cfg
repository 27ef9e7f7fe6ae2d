SPECIFICATION CliSpec
CONSTANTS
    n1 = n1
    n2 = n2
    n3 = n3
    n4 = n4
    r1 = r1
    r2 = r2
    m1 = m1
    m2 = m2
    Node = {n1, n2}
    Run <- Two
    Manifest = {m1, m2}
    ManifestOf <- TwoManifests
    Replicas <- OneAndTwo
    Origin <- SameOrigin
    Slots <- SlotsEach
    Disabled = {}
    Keyless = {}
    MaxCandidates = 2
    CapWindow = 1
    Hold = 2
    ApplyTimeout = 3
    Lossy = TRUE
    MayFail = TRUE
    Slow = {"network", "runtime"}
INVARIANT NoExtraCopies
INVARIANT RolloutInOrder
INVARIANT TypeOK
INVARIANT OriginFirst
PROPERTY RunsEnd
