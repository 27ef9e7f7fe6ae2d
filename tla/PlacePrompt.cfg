SPECIFICATION FairSpec
CONSTANTS
    n1 = n1
    n2 = n2
    n3 = n3
    n4 = n4
    r1 = r1
    r2 = r2
    m1 = m1
    m2 = m2
    Node = {n1, n2, n3, n4}
    Run <- Two
    Manifest = {m1, m2}
    ManifestOf <- TwoManifests
    Replicas <- OneAndTwo
    Origin <- TwoOrigins
    Slots <- SlotsEach
    Disabled = {n4}
    Keyless = {n3}
    MaxCandidates = 2
    CapWindow = 1
    Hold = 2
    ApplyTimeout = 3
    Lossy = FALSE
    MayFail = FALSE
    Slow = {}
PROPERTY CompletedMeansDeployed
