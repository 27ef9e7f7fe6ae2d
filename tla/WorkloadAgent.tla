------------------------------ MODULE WorkloadAgent ------------------------------
(***************************************************************************)
(* The agents of one workload's pods (workplane/cmd/workload/main.go and   *)
(* internal/workload).  A pod registers itself in the workload DHT; a pod  *)
(* of a StatefulSet then looks for the others and starts a Raft cluster or *)
(* joins theirs; from then on it compares the records it finds with its own*)
(* desired replicas at every tick and has the machine plane clone what is  *)
(* missing.  Nothing withdraws a record when a pod ends, nothing renews it *)
(* while the pod lives, and nothing remembers which clones are under way.  *)
(*                                                                         *)
(* The desired replicas of a pod are the -replicas flag of its process, 1  *)
(* by default: the variable BEE_WORKLOAD_REPLICAS that a machine sets is   *)
(* not read, and says 1 for a clone anyway.                                *)
(*                                                                         *)
(* A pod is named after its workload (deployFromManifest), so a machine    *)
(* never gets a second one, and keeps the name of a dead one: Pod has one  *)
(* element for each machine.  A clone task starts up to MaxCopies pods,    *)
(* since every machine that schedules it places it (DistributedScheduler). *)
(*                                                                         *)
(* External: the DHT, a set of records of which a lookup returns all       *)
(* (Complete) or any part; every record goes some day.                     *)
(*                                                                         *)
(* MaxTasks bounds the clone tasks under way, MaxFailures the pods that    *)
(* fail or are shut down.                                                  *)
(***************************************************************************)
EXTENDS Naturals, FiniteSets

\* Replicas: the most a pod is told to desire.
CONSTANTS Pod, Kind, Replicas, Complete, MaxCopies, MaxTasks, MaxFailures

ASSUME AgentAssumption ==
    /\ IsFiniteSet(Pod)
    /\ Kind \subseteq {"Deployment", "StatefulSet", "other"}
    /\ Replicas \in Nat \ {0}
    /\ Complete \in BOOLEAN
    /\ MaxCopies \in Nat /\ MaxTasks \in Nat /\ MaxFailures \in Nat

VARIABLES
    kind,      \* the kind of the workload's manifest; never changes
    desired,   \* Config.Replicas of each pod; never changes
    pod,       \* how far each pod is
    record,    \* the pods with a provider record in the workload DHT
    raft,      \* what a pod asked of Raft
    deficit,   \* clone tasks a pod's healing round has still to post
    tasks,     \* clone tasks on their way through the machine plane
    failures

agentVars == <<kind, desired, pod, record, raft, deficit, tasks, failures>>

Stage == {"absent", "starting", "registered", "serving", "healing", "dead"}
Live == {p \in Pod : pod[p] \in {"starting", "registered", "serving", "healing"}}
Serving == {p \in Pod : pod[p] \in {"serving", "healing"}}

\* The first pods are started with a number of replicas, the others will be clones.
AgentInit ==
    /\ kind \in Kind
    /\ \E first \in SUBSET Pod :
          /\ first # {} /\ Cardinality(first) <= Replicas
          /\ desired \in [Pod -> 1..Replicas]
          /\ \A p \in Pod \ first : desired[p] = 1
          /\ pod = [p \in Pod |-> IF p \in first THEN "starting" ELSE "absent"]
    /\ record = {}
    /\ raft = [p \in Pod |-> "none"]
    /\ deficit = [p \in Pod |-> 0]
    /\ tasks = 0
    /\ failures = 0

\* FindProviders: what a lookup may return.
Lookup == IF Complete THEN {record} ELSE SUBSET record

\* NewWorkload up to registerSelf; a stateless workload needs no more.
Register(p) ==
    /\ pod[p] = "starting"
    /\ record' = record \union {p}
    /\ pod' = [pod EXCEPT ![p] = IF kind = "StatefulSet" THEN "registered" ELSE "serving"]
    /\ UNCHANGED <<kind, desired, raft, deficit, tasks, failures>>

\* Registration fails and the process exits; the record may be in the DHT.
RegisterFails(p) ==
    /\ pod[p] = "starting" /\ failures < MaxFailures
    /\ failures' = failures + 1
    /\ pod' = [pod EXCEPT ![p] = "dead"]
    /\ record' \in {record, record \union {p}}
    /\ UNCHANGED <<kind, desired, raft, deficit, tasks>>

OffByOne_BootstrapIfNeeded(p) ==
    /\ pod[p] = "registered"
    /\ \E found \in Lookup :
          raft' = [raft EXCEPT ![p] = IF Cardinality(found) <= 2 THEN "cluster" ELSE "join"]
    /\ pod' = [pod EXCEPT ![p] = "serving"]
    /\ UNCHANGED <<kind, desired, record, deficit, tasks, failures>>

\* The rest of NewWorkload and Start, for a StatefulSet: with at most one
\* provider found the pod creates a cluster, else it joins the others.
BootstrapIfNeeded(p) ==
    /\ pod[p] = "registered"
    /\ \E found \in Lookup :
          raft' = [raft EXCEPT ![p] = IF Cardinality(found) <= 1 THEN "cluster" ELSE "join"]
    /\ pod' = [pod EXCEPT ![p] = "serving"]
    /\ UNCHANGED <<kind, desired, record, deficit, tasks, failures>>

\* A failed lookup is skipped: the pod serves without Raft, for good.
LookupFails(p) ==
    /\ pod[p] = "registered"
    /\ pod' = [pod EXCEPT ![p] = "serving"]
    /\ UNCHANGED <<kind, desired, record, raft, deficit, tasks, failures>>

OffByOne_CheckAndHeal(p) ==
    /\ pod[p] = "serving"
    /\ \E found \in Lookup :
          /\ Cardinality(found) + 1 < desired[p]
          /\ deficit' = [deficit EXCEPT ![p] = desired[p] - Cardinality(found)]
    /\ pod' = [pod EXCEPT ![p] = "healing"]
    /\ UNCHANGED <<kind, desired, record, raft, tasks, failures>>

\* A tick of the self-healer; a failed lookup or enough replicas end it at once.
CheckAndHeal(p) ==
    /\ pod[p] = "serving"
    /\ \E found \in Lookup :
          /\ Cardinality(found) < desired[p]
          /\ deficit' = [deficit EXCEPT ![p] = desired[p] - Cardinality(found)]
    /\ pod' = [pod EXCEPT ![p] = "healing"]
    /\ UNCHANGED <<kind, desired, record, raft, tasks, failures>>

OneMore_NextClone(p) ==
    /\ deficit' = [deficit EXCEPT ![p] = @ - 1]
    /\ pod' = [pod EXCEPT ![p] = IF deficit[p] = 0 THEN "serving" ELSE "healing"]

\* The round goes on with the next missing replica, or is over.
NextClone(p) ==
    /\ deficit' = [deficit EXCEPT ![p] = @ - 1]
    /\ pod' = [pod EXCEPT ![p] = IF deficit[p] = 1 THEN "serving" ELSE "healing"]

\* publishCloneTask, accepted by the machine's API.
PublishClone(p) ==
    /\ pod[p] = "healing" /\ kind # "other"
    /\ tasks < MaxTasks
    /\ tasks' = tasks + 1
    /\ NextClone(p)
    /\ UNCHANGED <<kind, desired, record, raft, failures>>

\* publishCloneTask fails, always so for another kind of manifest; the error is
\* ignored.
PublishFails(p) ==
    /\ pod[p] = "healing"
    /\ NextClone(p)
    /\ UNCHANGED <<kind, desired, record, raft, tasks, failures>>

\* A clone task reaches machines without the pod: new pods start.
Place(new) ==
    /\ tasks > 0
    /\ new # {} /\ Cardinality(new) <= MaxCopies
    /\ \A p \in new : pod[p] = "absent"
    /\ tasks' = tasks - 1
    /\ pod' = [p \in Pod |-> IF p \in new THEN "starting" ELSE pod[p]]
    /\ UNCHANGED <<kind, desired, record, raft, deficit, failures>>

\* No machine takes the clone, or the one chosen has a pod of that name: CreatePod
\* fails, the error is ignored and the task is gone.
CloneLost ==
    /\ tasks > 0
    /\ tasks' = tasks - 1
    /\ UNCHANGED <<kind, desired, pod, record, raft, deficit, failures>>

\* The pod's process dies at any point.
Crash(p) ==
    /\ p \in Live /\ failures < MaxFailures
    /\ failures' = failures + 1
    /\ pod' = [pod EXCEPT ![p] = "dead"]
    /\ deficit' = [deficit EXCEPT ![p] = 0]
    /\ UNCHANGED <<kind, desired, record, raft, tasks>>

\* The pod is told to stop: Close waits for the self-healer's round to end,
\* then shuts the network down.
Close(p) ==
    /\ pod[p] = "serving" /\ failures < MaxFailures
    /\ failures' = failures + 1
    /\ pod' = [pod EXCEPT ![p] = "dead"]
    /\ UNCHANGED <<kind, desired, record, raft, deficit, tasks>>

\* The DHT drops a record, which is never renewed, whether or not its pod lives.
Expire(p) ==
    /\ p \in record
    /\ record' = record \ {p}
    /\ UNCHANGED <<kind, desired, pod, raft, deficit, tasks, failures>>

AgentNext ==
    \/ CloneLost
    \/ \E new \in SUBSET Pod : Place(new)
    \/ \E p \in Pod :
          \/ Register(p) \/ RegisterFails(p)
          \/ BootstrapIfNeeded(p) \/ LookupFails(p)
          \/ CheckAndHeal(p) \/ PublishClone(p) \/ PublishFails(p)
          \/ Crash(p) \/ Close(p) \/ Expire(p)

AgentSpec == AgentInit /\ [][AgentNext]_agentVars

\* A live pod goes on, its ticker ticks, lookups succeed now and then and its API
\* answers, well or badly; the machines handle or drop the tasks; the DHT drops dead
\* records.
AgentFairSpec ==
    /\ AgentSpec
    /\ WF_agentVars(CloneLost \/ \E new \in SUBSET Pod : Place(new))
    /\ \A p \in Pod :
          /\ WF_agentVars(Register(p))
          /\ WF_agentVars(BootstrapIfNeeded(p) \/ LookupFails(p))
          /\ WF_agentVars(CheckAndHeal(p))
          /\ WF_agentVars(PublishClone(p) \/ PublishFails(p))
          /\ WF_agentVars(pod[p] = "dead" /\ Expire(p))
--------------------------------------------------------------------------------
\* Types: a pod is healing exactly while its round has clones to publish
\* (checkAndHeal).
AgentTypeOK ==
    /\ kind \in Kind
    /\ desired \in [Pod -> 1..Replicas]
    /\ pod \in [Pod -> Stage]
    /\ record \in SUBSET Pod
    /\ raft \in [Pod -> {"none", "cluster", "join"}]
    /\ deficit \in [Pod -> 0..Replicas]
    /\ \A p \in Pod : deficit[p] > 0 <=> pod[p] = "healing"
    /\ tasks \in 0..MaxTasks
    /\ failures \in 0..MaxFailures

\* With complete lookups, of two live pods that both created a Raft cluster one at
\* least has lost its record, however their starts interleave: each is registered
\* before it looks (NewWorkload registers, then calls BootstrapIfNeeded).
SingleCluster ==
    Complete =>
        \A p, q \in Live \cap record : raft[p] = "cluster" /\ raft[q] = "cluster" => p = q

\* If from some time on a pod serves, then as many as it desires serve again and
\* again, unless its clone tasks are refused or lost again and again: dead pods'
\* records fade, it sees the deficit, the clones start (checkAndHeal; "issues clone
\* tasks if needed").
HealsUnlessLost ==
    \A p \in Pod :
        kind # "other" /\ <>[](p \in Serving) =>
            \/ []<>(Cardinality(Serving) >= desired[p])
            \/ []<><<PublishFails(p)>>_agentVars
            \/ []<><<CloneLost>>_agentVars
================================================================================
