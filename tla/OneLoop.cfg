SPECIFICATION FairSpec
CONSTANTS
    cpu = cpu
    memory = memory
    r1 = r1
    r2 = r2
    r3 = r3
    m1 = m1
    m2 = m2
    Dim = {cpu, memory}
    MaxValue <- MCMaxValue
    AllocPercent = 90
    MinFree <- MCMinFree
    MaxWorkloads = 2
    Hold = 2
    RequestId = {r1, r2, r3}
    ManifestId = {m1, m2}
    ManifestOf <- MCManifestOf
    Caller = {c1}
    Requests <- MCRequests
    HostReadings <- MCHostReadings
INVARIANT TypeOK
INVARIANT WithinCapacity
INVARIANT DeploymentBacked
PROPERTY ImplementsLedger
PROPERTY CallsReturn
