SPECIFICATION FairSpec
CONSTANTS
    t1 = t1
    t2 = t2
    Node <- Two
    Link <- Links
    Task <- TwoTasks
    MayRun <- Shared
    TaskReplicas <- Asked
    Scores <- ScoresOf
    Stamps = {0}
    MaxBufferedProps = 1
INVARIANTS
    TypeOK
    Proportional
    NotOnlyDelegated
    SameProposalsSameDecision
    CopiesAccounted
    AssignmentSound
PROPERTIES
    ScheduledTaskDeployed
\* The tasks of the instance are finite: at the end every round is done.
CHECK_DEADLOCK FALSE
