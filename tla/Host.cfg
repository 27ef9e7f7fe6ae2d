SPECIFICATION FairSpec
CONSTANTS
    m1 = m1
    r2 = r2
    r1 = r1
    None = None
    Registered <- AllEngines
    Preferred = "docker"
    Manifest = {m1}
    Reader = {r1, r2}
INVARIANTS
    TypeOK
    RunningTracked
PROPERTY
    SwarmReleased
