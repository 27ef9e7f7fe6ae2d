SPECIFICATION AgentFairSpec
CONSTANTS
    p1 = p1
    p2 = p2
    p3 = p3
    Pod <- Three
    Kind <- AllKinds
    Replicas = 2
    Complete = TRUE
    MaxCopies = 2
    MaxTasks = 2
    MaxFailures = 2
INVARIANTS
    AgentTypeOK
    SingleCluster
PROPERTY
    HealsUnlessLost
\* Pods, and failures, are bounded: at the end every pod is dead or enough serve.
CHECK_DEADLOCK FALSE
