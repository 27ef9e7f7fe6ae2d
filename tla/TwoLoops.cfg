SPECIFICATION Spec
CONSTANTS
    cpu = cpu
    memory = memory
    r1 = r1
    r2 = r2
    r3 = r3
    m1 = m1
    m2 = m2
    Dim = {memory}
    MaxValue <- MCMaxValue
    AllocPercent = 90
    MinFree <- MCMinFree
    MaxWorkloads = 2
    Hold = 2
    RequestId = {r1, r2, r3}
    ManifestId = {m1}
    ManifestOf <- MCSameManifest
    Caller = {c1, c2}
    Requests <- MCTwoRequests
    HostReadings <- MCOneReading
SYMMETRY Alike
INVARIANT OvershootBounded
PROPERTY LiveReservationsKept
