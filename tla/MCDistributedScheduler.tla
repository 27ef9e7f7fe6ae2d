------------------------- MODULE MCDistributedScheduler -------------------------
(***************************************************************************)
(* Instances of DistributedScheduler: machines are 1, 2, ...               *)
(***************************************************************************)
EXTENDS DistributedScheduler

CONSTANTS t1, t2

Two == 1..2
TwoTasks == {t1, t2}

\* Every machine hears every proposal, its own too.
Links == Two \X Two

\* Both machines may schedule t1, the first also t2, on the same channel.
Shared == (Two \X {t1}) \union {<<1, t2>>}

\* t1 asks for three replicas, t2 leaves the field at zero.
Asked == [t \in TwoTasks |-> IF t = t1 THEN 3 ELSE 0]

ScoresOf == [t \in TwoTasks |-> IF t = t1 THEN {0, 1, 3} ELSE {1}]

\* The proposals of machines 1, 2 and 3 with the given scores.
ProposalsOf(score) == [n \in 1..3 |-> [node |-> n, score |-> score[n], stamp |-> 0]]

\* assignReplicas keeps its promise ("guaranteeing deterministic rounding and at
\* least 1 to the top node while replicas remain") for three machines with any
\* small scores and numbers of replicas.  No state enters into it, so it is
\* evaluated before the first round only.
AssignmentSound ==
    round = [n \in Node |-> [t \in Task |-> "idle"]] =>
        \A score \in [1..3 -> 0..4], total \in 1..5 :
            Sound(total, ProposalsOf(score), 1..3)
================================================================================
