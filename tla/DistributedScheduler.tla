-------------------------- MODULE DistributedScheduler --------------------------
(***************************************************************************)
(* The Go machine's scheduling rounds (workplane/cmd/machine/main.go and   *)
(* internal/machine/scheduler.go).  A task for the scheduler is broadcast; *)
(* every machine that gets it runs a round of its own: it broadcasts a     *)
(* proposal, collects proposals until its window closes, splits the        *)
(* replicas and deploys its part, delegating the rest by broadcasting the  *)
(* task again, once per replica, with a machine as its destination.        *)
(*                                                                         *)
(* All rounds of a machine read one channel of proposals, so a round also  *)
(* takes, and drops, the proposals of the machine's other rounds.          *)
(*                                                                         *)
(* Link: from which machine a proposal may reach which, itself included.   *)
(* MayRun: which machine may get which task.  TaskReplicas: the task's     *)
(* field, as published.  Scores: what a machine may score for a task.      *)
(* Stamps: the clock readings of the machines.                             *)
(***************************************************************************)
EXTENDS ReplicaAssignment

CONSTANTS Node, Link, Task, MayRun, TaskReplicas, Scores, Stamps, MaxBufferedProps

ASSUME SchedulerAssumption ==
    /\ Node \subseteq Nat /\ IsFiniteSet(Node)
    /\ Link \subseteq Node \X Node
    /\ MayRun \subseteq Node \X Task
    /\ TaskReplicas \in [Task -> Int]
    /\ Scores \in [Task -> SUBSET Nat] /\ Stamps \subseteq Nat
    /\ MaxBufferedProps \in Nat \ {0}

VARIABLES
    round,    \* how far a machine's round of a task is
    own,      \* the proposal a round has made: a set of at most one
    props,    \* what a round has collected, in order of arrival; sorted at its end
    given,    \* the replicas a finished round gives each machine
    net,      \* proposals on their way to a machine
    intake,   \* the proposals channel of a machine
    orders,   \* delegated tasks on their way to a machine
    copies    \* how often a machine has had Podman deploy a task; a failure,
              \* as for a second pod of the same name, is ignored

vars == <<round, own, props, given, net, intake, orders, copies>>

Proposal ==
    UNION {[task : {t}, node : Node, score : Scores[t], stamp : Stamps] : t \in Task}

Nobody == [n \in Node |-> 0]

Init ==
    /\ round = [n \in Node |-> [t \in Task |-> "idle"]]
    /\ own = [n \in Node |-> [t \in Task |-> {}]]
    /\ props = [n \in Node |-> [t \in Task |-> <<>>]]
    /\ given = [n \in Node |-> [t \in Task |-> Nobody]]
    /\ net = [n \in Node |-> {}]
    /\ intake = [n \in Node |-> <<>>]
    /\ orders = [n \in Node |-> [t \in Task |-> 0]]
    /\ copies = [n \in Node |-> [t \in Task |-> 0]]

\* A task without a positive number of replicas counts as one.
Total(t) == IF TaskReplicas[t] <= 0 THEN 1 ELSE TaskReplicas[t]

Least(a, b) == IF a <= b THEN a ELSE b

\* The task listener starts a round: the machine scores itself and broadcasts its
\* proposal, to itself too.  There is one round for a task id: those who publish tasks,
\* beectl and the healers, mint an id for each (uuid), and pubsub hands on a message once.
StartRound(n, t, score, stamp) ==
    LET p == [task |-> t, node |-> n, score |-> score, stamp |-> stamp]
    IN  /\ <<n, t>> \in MayRun
        /\ round[n][t] = "idle"
        /\ round' = [round EXCEPT ![n][t] = "collecting"]
        /\ own' = [own EXCEPT ![n][t] = {p}]
        /\ net' = [m \in Node |-> net[m] \union {q \in {p} : <<n, m>> \in Link}]
        /\ UNCHANGED <<props, given, intake, orders, copies>>

\* The proposals listener hands on one message; a full channel blocks it.
Receive(n, p) ==
    /\ p \in net[n]
    /\ Len(intake[n]) < MaxBufferedProps
    /\ net' = [net EXCEPT ![n] = @ \ {p}]
    /\ intake' = [intake EXCEPT ![n] = Append(@, p)]
    /\ UNCHANGED <<round, own, props, given, orders, copies>>

Unfiltered_Collect(n, t) ==
    /\ round[n][t] = "collecting"
    /\ intake[n] # <<>>
    /\ intake' = [intake EXCEPT ![n] = Tail(@)]
    /\ props' = [props EXCEPT ![n][t] = Append(@, Head(intake[n]))]
    /\ UNCHANGED <<round, own, given, net, orders, copies>>

\* collect: a round takes the next proposal of the channel and keeps it if it
\* is for its task.
Collect(n, t) ==
    /\ round[n][t] = "collecting"
    /\ intake[n] # <<>>
    /\ intake' = [intake EXCEPT ![n] = Tail(@)]
    /\ props' = IF Head(intake[n]).task = t
                THEN [props EXCEPT ![n][t] = Append(@, Head(intake[n]))]
                ELSE props
    /\ UNCHANGED <<round, own, given, net, orders, copies>>

SelfTwice_Decisive(n, t) == Ranked(props[n][t] \o <<CHOOSE p \in own[n][t] : TRUE>>)
HeardOnly_Decisive(n, t) == Ranked(props[n][t])

\* The proposals a round decides on, its own included, best first.
Decisive(n, t) == Ranked(Upsert(props[n][t], CHOOSE p \in own[n][t] : TRUE))

Waits_EndWindow(n, t) ==
    /\ round[n][t] = "collecting"
    /\ props[n][t] # <<>>
    /\ round' = [round EXCEPT ![n][t] = "done"]

\* The timer of a round that collects runs out.
EndWindow(n, t) ==
    /\ round[n][t] = "collecting"
    /\ round' = [round EXCEPT ![n][t] = "done"]

DelegateOnce_CloseWindow(n, t) ==
    /\ EndWindow(n, t)
    /\ props' = [props EXCEPT ![n][t] = Decisive(n, t)]
    /\ \E assign \in {AssignReplicas(Total(t), props'[n][t], Node)} :
          /\ given' = [given EXCEPT ![n][t] = assign]
          /\ copies' = [copies EXCEPT ![n][t] = @ + assign[n]]
          /\ orders' = [m \in Node |->
                IF m = n THEN orders[m]
                ELSE [orders[m] EXCEPT ![t] = @ + Least(1, assign[m])]]
    /\ UNCHANGED <<own, net, intake>>

\* The window closes: the round assigns the replicas, deploys its own and
\* delegates the others, one message per replica.
CloseWindow(n, t) ==
    /\ EndWindow(n, t)
    /\ props' = [props EXCEPT ![n][t] = Decisive(n, t)]
    /\ \E assign \in {AssignReplicas(Total(t), props'[n][t], Node)} :
          /\ given' = [given EXCEPT ![n][t] = assign]
          /\ copies' = [copies EXCEPT ![n][t] = @ + assign[n]]
          /\ orders' = [m \in Node |->
                IF m = n THEN orders[m]
                ELSE [orders[m] EXCEPT ![t] = @ + assign[m]]]
    /\ UNCHANGED <<own, net, intake>>

\* The task listener of the destination deploys a delegated task.
DeployDelegated(n, t) ==
    /\ orders[n][t] > 0
    /\ orders' = [orders EXCEPT ![n][t] = @ - 1]
    /\ copies' = [copies EXCEPT ![n][t] = @ + 1]
    /\ UNCHANGED <<round, own, props, given, net, intake>>

Next ==
    \E n \in Node :
       \/ \E p \in Proposal : Receive(n, p)
       \/ \E t \in Task :
             \/ \E score \in Scores[t], stamp \in Stamps : StartRound(n, t, score, stamp)
             \/ Collect(n, t)
             \/ CloseWindow(n, t)
             \/ DeployDelegated(n, t)

Spec == Init /\ [][Next]_vars

\* Only the windows are sure to close: their timers need no other machine.
\* Messages may stay on their way for ever.
FairSpec == Spec /\ \A n \in Node, t \in Task : WF_round(EndWindow(n, t))
--------------------------------------------------------------------------------
\* Types: a round holds proposals of its own task only, and the channel keeps to
\* its capacity.
TypeOK ==
    /\ round \in [Node -> [Task -> {"idle", "collecting", "done"}]]
    /\ \A n \in Node, t \in Task :
          /\ own[n][t] \subseteq Proposal
          /\ (own[n][t] = {}) <=> (round[n][t] = "idle")
          /\ props[n][t] \in Seq(Proposal)
          /\ \A i \in DOMAIN props[n][t] : props[n][t][i].task = t
    /\ given \in [Node -> [Task -> [Node -> Nat]]]
    /\ net \in [Node -> SUBSET Proposal]
    /\ \A n \in Node : /\ intake[n] \in Seq(Proposal)
                       /\ Len(intake[n]) <= MaxBufferedProps
    /\ orders \in [Node -> [Task -> Nat]]
    /\ copies \in [Node -> [Task -> Nat]]

Done(n, t) == round[n][t] = "done"

\* The largest-remainder rule: a machine's replicas are less than one away
\* from its exact share score * total / sum, and a machine ranked before
\* another never gets fewer (assignReplicas, "in proportion to their scores").
Proportional ==
    \A n \in Node, t \in Task : Done(n, t) =>
        LET heard == props[n][t]
            sum == SumScores(heard)
            got(i) == given[n][t][heard[i].node]
            off(i) == sum * got(i) - heard[i].score * Total(t)
        IN  /\ sum > 0 => \A i \in DOMAIN heard : -sum < off(i) /\ off(i) < sum
            /\ \A i, j \in DOMAIN heard : i < j => got(i) >= got(j)

\* Machines that decided on the same proposals decided the same, in whatever
\* order the proposals reached them ("deterministic rounding").
SameProposalsSameDecision ==
    \A n, m \in Node, t \in Task :
        /\ Done(n, t) /\ Done(m, t)
        /\ Range(props[n][t]) = Range(props[m][t])
        => given[n][t] = given[m][t]

\* What a finished round places: all replicas of the task, or, when no machine
\* it knew of scores above zero, one on each of the first machines.
Placed(n, t) ==
    IF round[n][t] # "done" THEN 0
    ELSE IF SumScores(props[n][t]) > 0 THEN Total(t)
    ELSE Least(Total(t), Len(props[n][t]))

\* The copies of a task, deployed or on order, are exactly what its finished
\* rounds placed: rounding and delegation lose and add none.  So a task that
\* k machines schedule is deployed k times its replicas (DistributedSchedule,
\* step 5; nothing recognises a task that was deployed before).
CopiesAccounted ==
    \A t \in Task :
        SumOf([n \in Node |-> copies[n][t] + orders[n][t]])
            = SumOf([n \in Node |-> Placed(n, t)])

\* When every machine that scheduled a task has decided, one of them has deployed
\* it itself: lost proposals make machines decide differently, but never so that
\* each leaves all replicas to the others (DistributedSchedule, step 5).
NotOnlyDelegated ==
    \A t \in Task :
        (\E n \in Node : Done(n, t)) /\ (\A n \in Node : round[n][t] # "collecting")
            => \E n \in Node : copies[n][t] > 0

\* What assignReplicas promises for the proposals of a round: the first gets a
\* replica ("at least 1 to the top node while replicas remain"), every replica is
\* given away unless no score is positive, and nobody is a whole replica away
\* from its share.
Sound(total, list, nodes) ==
    LET ranked == Ranked(list)
        got == AssignReplicas(total, ranked, nodes)
        sum == SumScores(ranked)
        off(i) == sum * got[ranked[i].node] - ranked[i].score * total
    IN  /\ got[ranked[1].node] >= 1
        /\ SumOf(got) = IF sum > 0 THEN total ELSE Least(total, Len(list))
        /\ sum > 0 => \A i \in DOMAIN ranked : -sum < off(i) /\ off(i) < sum

\* A task some machine schedules is deployed somewhere, even if no message ever
\* arrives: the machine with the best proposal always keeps a replica ("at
\* least 1 to the top node"), so two machines never only delegate to each other.
ScheduledTaskDeployed ==
    \A t \in Task :
        (\E n \in Node : round[n][t] # "idle") ~> (\E n \in Node : copies[n][t] > 0)
================================================================================
