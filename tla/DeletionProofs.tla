--------------------------- MODULE DeletionProofs ---------------------------
(***************************************************************************)
(* For any nodes, engines, requests and bounds: a removal that forgets the *)
(* owner has swept every engine, and what still runs was deployed behind   *)
(* its back or hidden by an engine's success (OwnerDroppedAfterSweep).  The*)
(* property is about one step, but the step can tell only from what the    *)
(* removal found on the way: SweepInv keeps account of it engine by engine.*)
(* The second part proves the types of calls, queues and messages, and that*)
(* a call and its own removal stay together (TypeCorrect).                 *)
(***************************************************************************)
EXTENDS Deletion, TLAPS

NodeTypes ==
    /\ running \in [Node -> SUBSET Registered]
    /\ owner \in [Node -> Key \cup {NoOwner}]
    /\ loop \in [Node -> Registered \cup {Idle}]
    /\ boot \in [Node -> Nat]
    /\ task \in [TaskId -> Task]

\* What a removal's record says may run on its node.
Account(r) == r.todo \cup r.found \cup r.newer \cup r.missed

\* What runs on the node of an error-free removal is still to be listed or
\* removed, was deployed after it was listed, or was passed over by its engine.
Accounted(t) ==
    task[t].pc \in {"verify", "engines", "owner"} =>
        \/ task[t].errors
        \/ running[TaskNode(t)] \subseteq Account(task[t])

Swept(t) == task[t].pc = "owner" => task[t].todo = {} /\ task[t].found = {}

SweepInv == NodeTypes /\ \A t \in TaskId : Accounted(t) /\ Swept(t)

\* A removal belongs to one node.
LEMMA TaskNodeType == \A t \in TaskId : TaskNode(t) \in Node
BY DeletionAssumption DEF TaskId, TaskNode

\* A removal starts with every engine still to be listed.
LEMMA NewTaskType ==
    ASSUME NEW pc \in {"none", "sent", "verify", "engines", "done", "killed"}
    PROVE  NewTask(pc) \in Task /\ NewTask(pc).pc = pc /\ NewTask(pc).todo = Registered
BY DEF NewTask, Task

\* A deployment adds its own workload at most.
LEMMA DeployOutcome ==
    ASSUME NEW e \in Registered, NEW content \in Content, NEW run \in SUBSET Registered,
           NEW out \in deploy_workload(e, content, e, run)
    PROVE  /\ out.ok \in BOOLEAN /\ out.run \subseteq run \cup {e}
           /\ ~out.ok /\ out.run \ run = {} => out.run \subseteq run
<1>1. e \in Engine
    BY EngineAssumption
<1> QED
    BY <1>1 DEF Engine, deploy_workload, PodmanDeploy, DockerDeploy, MockDeploy, Command, Outcome

\* A listing finds what there is, part of it or nothing.
LEMMA ListOutcome ==
    ASSUME NEW e \in Registered, NEW run \in SUBSET Registered,
           NEW out \in list_workloads(e, run)
    PROVE  out.ok \in BOOLEAN /\ out.found \subseteq run
<1>1. e \in Engine
    BY EngineAssumption
<1> QED
    BY <1>1 DEF Engine, list_workloads, PodmanList, DockerList, MockList, Listing

\* A removal takes its workload down or leaves everything as it is.
LEMMA RemoveOutcome ==
    ASSUME NEW e \in Registered, NEW run \in SUBSET Registered,
           NEW out \in remove_workload(e, e, run)
    PROVE  out.ok \in BOOLEAN /\ out.run \in {run, run \ {e}}
<1>1. e \in Engine
    BY EngineAssumption
<1> QED
    BY <1>1 DEF Engine, remove_workload, PodmanRemove, DockerRemove, MockRemove, Outcome

\* Nothing has begun.
LEMMA SweepInit == Init => SweepInv
<1> SUFFICES ASSUME Init PROVE SweepInv
    OBVIOUS
<1>1. NodeTypes
    BY NewTaskType DEF Init, NodeTypes
<1>2. \A t \in TaskId : task[t].pc = "none"
    BY DEF Init, NewTask
<1> QED
    BY <1>1, <1>2 DEF SweepInv, Accounted, Swept

\* Steps that leave workloads and removals alone.
LEMMA SweepUnchanged ==
    ASSUME SweepInv, NodeTypes', running' = running, task' = task
    PROVE  SweepInv'
BY DEF SweepInv, Accounted, Swept

\* Steps of one removal, or of its sender, that take no workload down.
LEMMA SweepOneTask ==
    ASSUME SweepInv, NodeTypes', running' = running,
           NEW u \in TaskId, NEW new \in Task, task' = [task EXCEPT ![u] = new],
           new.pc \in {"verify", "engines", "owner"} =>
               \/ new.errors
               \/ running[TaskNode(u)] \subseteq Account(new),
           new.pc = "owner" => new.todo = {} /\ new.found = {}
    PROVE  SweepInv'
<1>1. task'[u] = new /\ \A t \in TaskId \ {u} : task'[t] = task[t]
    BY DEF SweepInv, NodeTypes
<1>2. ASSUME NEW t \in TaskId PROVE Accounted(t)' /\ Swept(t)'
    <2>1. CASE t = u
        BY <2>1, <1>1 DEF Accounted, Swept
    <2>2. CASE t # u
        BY <2>2, <1>1 DEF SweepInv, Accounted, Swept
    <2> QED
        BY <2>1, <2>2
<1> QED
    BY <1>2 DEF SweepInv

\* A deployment that goes through: removals that have listed the engine note it.
LEMMA SweepDeployed ==
    ASSUME SweepInv, NodeTypes', NEW n \in Node, NEW e \in Registered, Deployed(n, e),
           NEW new, running' = [running EXCEPT ![n] = new], new \subseteq running[n] \cup {e}
    PROVE  SweepInv'
<1>2. ASSUME NEW t \in TaskId PROVE Accounted(t)' /\ Swept(t)'
    <2> DEFINE hit1 == TaskNode(t) = n /\ e \notin task[t].todo
    <2>0. TaskNode(t) \in Node /\ task[t] \in Task
        BY TaskNodeType DEF SweepInv, NodeTypes
    <2>1. task'[t] = IF hit1 THEN [task[t] EXCEPT !.newer = @ \cup {e}] ELSE task[t]
        BY DEF Deployed
    <2>2. /\ task'[t].pc = task[t].pc /\ task'[t].errors = task[t].errors
          /\ task'[t].todo = task[t].todo /\ task'[t].found = task[t].found
          /\ Account(task[t]) \subseteq Account(task'[t])
          /\ TaskNode(t) = n => e \in Account(task'[t])
        BY <2>0, <2>1 DEF Task, Account
    <2>3. running'[TaskNode(t)] \subseteq running[TaskNode(t)] \cup {e}
        BY <2>0 DEF SweepInv, NodeTypes
    <2>4. TaskNode(t) # n => running'[TaskNode(t)] = running[TaskNode(t)]
        BY <2>0 DEF SweepInv, NodeTypes
    <2>5. Accounted(t) /\ Swept(t)
        BY DEF SweepInv
    <2>6. Swept(t)'
        BY <2>2, <2>5 DEF Swept
    <2>7. Accounted(t)'
        BY <2>2, <2>3, <2>4, <2>5 DEF Accounted
    <2> QED
        BY <2>6, <2>7
<1> QED
    BY <1>2 DEF SweepInv

\* A workload goes, by failure or removal: there is less to account for.
LEMMA SweepFewer ==
    ASSUME SweepInv, NodeTypes', task' = task,
           \A n \in Node : running'[n] \subseteq running[n]
    PROVE  SweepInv'
BY TaskNodeType DEF SweepInv, Accounted, Swept

\* Steps that touch neither workloads, owners, loops, starts nor removals.
Still == UNCHANGED <<running, owner, loop, boot, task>>

\* They keep the types.
LEMMA StillKeepsTypes == ASSUME SweepInv, Still PROVE NodeTypes'
BY DEF SweepInv, NodeTypes, Still

\* A recorded owner is a key, or none where there was none.
LEMMA OwnerTypes ==
    ASSUME NodeTypes, NEW n \in Node, NEW k \in Key \cup {NoOwner}, record_manifest_owner(n, k)
    PROVE  owner' \in [Node -> Key \cup {NoOwner}]
BY DEF NodeTypes, record_manifest_owner

\* An apply records the owner and occupies the loop; a creation only records it.
LEMMA ApplyStep ==
    ASSUME SweepInv, NEW n \in Node, NEW k \in Key \cup {NoOwner},
           CreateTask(n, k) \/ \E e \in Registered : Apply(n, k, e)
    PROVE  SweepInv'
<1>1. NodeTypes /\ owner' \in [Node -> Key \cup {NoOwner}]
    BY OwnerTypes DEF SweepInv, CreateTask, Apply
<1>2. UNCHANGED <<running, boot, task>>
    BY DEF CreateTask, Apply
<1>3. loop' \in [Node -> Registered \cup {Idle}]
    BY <1>1 DEF NodeTypes, CreateTask, Apply
<1>4. NodeTypes'
    BY <1>1, <1>2, <1>3 DEF NodeTypes
<1> QED
    BY <1>2, <1>4, SweepUnchanged

\* A deployment is entered in the removals' accounts.
LEMMA DeployedTypes ==
    ASSUME NodeTypes, NEW n \in Node, NEW e \in Registered, Deployed(n, e)
    PROVE  task' \in [TaskId -> Task]
<1>1. ASSUME NEW t \in TaskId PROVE [task[t] EXCEPT !.newer = @ \cup {e}] \in Task
    <2>1. task[t] \in Task
        BY DEF NodeTypes
    <2> QED
        BY <2>1 DEF Task
<1> QED
    BY <1>1 DEF NodeTypes, Deployed

\* A deployment ends, well or badly.
LEMMA FinishDeploymentStep ==
    ASSUME SweepInv, NEW n \in Node, FinishDeployment(n)
    PROVE  SweepInv'
<1> DEFINE e == loop[n]
<1>1. NodeTypes /\ e \in Registered /\ running[n] \in SUBSET Registered
    BY DEF SweepInv, NodeTypes, FinishDeployment, Free
<1>2. PICK content \in Content : \E out \in deploy_workload(e, content, e, running[n]) :
          /\ running' = [running EXCEPT ![n] = out.run]
          /\ IF out.ok \/ out.run \ running[n] # {} THEN Deployed(n, e) ELSE UNCHANGED task
    BY Zenon DEF FinishDeployment
<1>3. PICK out \in deploy_workload(e, content, e, running[n]) :
          /\ running' = [running EXCEPT ![n] = out.run]
          /\ IF out.ok \/ out.run \ running[n] # {} THEN Deployed(n, e) ELSE UNCHANGED task
    BY <1>2, Zenon
<1>4. /\ out.ok \in BOOLEAN /\ out.run \subseteq running[n] \cup {e}
      /\ ~out.ok /\ out.run \ running[n] = {} => out.run \subseteq running[n]
    BY <1>1, <1>3, DeployOutcome
<1>5. running' \in [Node -> SUBSET Registered]
    BY <1>1, <1>3, <1>4 DEF NodeTypes
<1>6. /\ owner' = owner /\ boot' = boot
      /\ loop' \in [Node -> Registered \cup {Idle}]
    BY <1>1 DEF FinishDeployment, NodeTypes
<1> HIDE DEF e
<1>7. CASE out.ok \/ out.run \ running[n] # {}
    <2>1. Deployed(n, e)
        BY <1>3, <1>7, Zenon
    <2>2. NodeTypes'
        BY <1>1, <1>5, <1>6, <2>1, DeployedTypes DEF NodeTypes
    <2> QED
        BY <1>1, <1>3, <1>4, <2>1, <2>2, SweepDeployed
<1>8. CASE ~out.ok /\ out.run \ running[n] = {}
    <2>1. task' = task
        BY <1>3, <1>8, Zenon
    <2>2. NodeTypes' /\ \A m \in Node : running'[m] \subseteq running[m]
        BY <1>1, <1>3, <1>4, <1>5, <1>6, <1>8, <2>1 DEF NodeTypes
    <2> QED
        BY <2>1, <2>2, SweepFewer
<1> QED
    BY <1>4, <1>7, <1>8

\* A restart ends the removals of the node whose account it may upset.
LEMMA RestartStep ==
    ASSUME SweepInv, NEW n \in Node, Restart(n)
    PROVE  SweepInv'
<1>1. NodeTypes
    BY DEF SweepInv
<1>2. /\ running' \in [Node -> SUBSET Registered]
      /\ \A m \in Node \ {n} : running'[m] = running[m]
    BY <1>1 DEF NodeTypes, Restart, Free
<1>3. NewTask("killed") \in Task /\ NewTask("killed").pc = "killed"
    BY NewTaskType
<1>4. task' \in [TaskId -> Task]
    BY <1>1, <1>3 DEF NodeTypes, Restart
<1>5. NodeTypes'
    BY <1>1, <1>2, <1>4 DEF NodeTypes, Restart
<1>6. ASSUME NEW t \in TaskId PROVE Accounted(t)' /\ Swept(t)'
    <2>0. TaskNode(t) \in Node /\ task[t] \in Task /\ Accounted(t) /\ Swept(t)
        BY TaskNodeType DEF SweepInv, NodeTypes
    <2>1. task'[t] = IF TaskNode(t) = n /\ task[t].pc \in {"verify", "engines", "owner"}
                     THEN NewTask("killed") ELSE task[t]
        BY DEF Restart
    <2>2. CASE TaskNode(t) = n
        <3>1. task'[t].pc \notin {"verify", "engines", "owner"}
            BY <1>3, <2>0, <2>1, <2>2
        <3> QED
            BY <3>1 DEF Accounted, Swept
    <2>3. CASE TaskNode(t) # n
        <3>1. task'[t] = task[t] /\ running'[TaskNode(t)] = running[TaskNode(t)]
            BY <2>0, <2>1, <2>3, <1>2
        <3> QED
            BY <2>0, <3>1 DEF Accounted, Swept
    <2> QED
        BY <2>2, <2>3
<1> QED
    BY <1>5, <1>6 DEF SweepInv

\* A removal that begins has every engine before it.
LEMMA BeginStep ==
    ASSUME SweepInv, UNCHANGED <<running, owner, loop, boot>>,
           NEW u, NEW pc \in {"none", "sent", "verify", "engines"},
           task' = [task EXCEPT ![u] = NewTask(pc)]
    PROVE  SweepInv'
<1>1. NodeTypes /\ NewTask(pc) \in Task
    BY NewTaskType DEF SweepInv
<1>2. NodeTypes'
    BY <1>1, Zenon DEF NodeTypes
<1>3. CASE u \in TaskId
    <2>1. /\ NewTask(pc).pc # "owner"
          /\ running[TaskNode(u)] \subseteq Account(NewTask(pc))
        BY <1>1, <1>3, TaskNodeType DEF NewTask, NodeTypes, Account
    <2> QED
        BY <1>1, <1>2, <1>3, <2>1, SweepOneTask, Zenon
<1>4. CASE u \notin TaskId
    <2>1. task' = task
        BY <1>1, <1>4 DEF NodeTypes
    <2> QED
        BY <1>2, <2>1, SweepUnchanged
<1> QED
    BY <1>3, <1>4

\* Steps of a removal that leave the workloads alone, in terms of its record.
LEMMA RemovalAlone ==
    ASSUME SweepInv, UNCHANGED <<running, loop, boot>>,
           owner' \in [Node -> Key \cup {NoOwner}],
           NEW t \in TaskId, NEW new \in Task, task' = [task EXCEPT ![t] = new],
           new.pc \in {"verify", "engines", "owner"} =>
               \/ new.errors
               \/ running[TaskNode(t)] \subseteq Account(new),
           new.pc = "owner" => new.todo = {} /\ new.found = {}
    PROVE  SweepInv'
<1>1. NodeTypes'
    BY DEF SweepInv, NodeTypes
<1> QED
    BY <1>1, SweepOneTask, Zenon

\* The ownership check decides whether the sweep begins.
LEMMA VerifyStep ==
    ASSUME SweepInv, NEW t \in Signed, Verify(t)
    PROVE  SweepInv'
<1> DEFINE pc == IF owner[t.to] = t.key \/ (t.force /\ owner[t.to] # NoOwner)
                 THEN "engines" ELSE "denied"
           new == [task[t] EXCEPT !.pc = pc]
<1>1. NodeTypes /\ t \in TaskId /\ task[t] \in Task /\ Accounted(t) /\ task[t].pc = "verify"
    BY DEF SweepInv, NodeTypes, TaskId, Verify
<1>2. task' = [task EXCEPT ![t] = new]
    BY DEF Verify
<1>3. /\ new \in Task /\ new.pc # "owner" /\ new.errors = task[t].errors
      /\ Account(new) = Account(task[t])
    BY <1>1 DEF Task, Account
<1>4. UNCHANGED <<running, loop, boot, owner>>
    BY DEF Verify, nodeVars
<1> HIDE DEF new
<1>5. \/ new.errors
      \/ running[TaskNode(t)] \subseteq Account(new)
    BY <1>1, <1>3 DEF Accounted
<1> QED
    BY <1>1, <1>2, <1>3, <1>4, <1>5, RemovalAlone, Zenon DEF NodeTypes

\* A listing moves the engine from the first set to the second, if it finds the
\* workload, or notes that it was missed, or an error.
LEMMA ListStep ==
    ASSUME SweepInv, NEW t \in TaskId, NEW e \in Registered, ListWorkloads(t, e)
    PROVE  SweepInv'
<1> DEFINE here == {e} \cap running[TaskNode(t)]
           new(out) == Listed(task[t], e, here, out)
<1>1. /\ NodeTypes /\ task[t] \in Task /\ TaskNode(t) \in Node /\ here \in SUBSET Registered
      /\ Accounted(t) /\ task[t].pc = "engines" /\ task[t].found = {}
    BY TaskNodeType DEF SweepInv, NodeTypes, ListWorkloads
<1>2. UNCHANGED <<running, loop, boot, owner>>
    BY DEF ListWorkloads, nodeVars
<1>3. PICK out \in list_workloads(e, here) : task' = [task EXCEPT ![t] = new(out)]
    BY DEF ListWorkloads
<1>4. out.ok \in BOOLEAN /\ out.found \subseteq here
    BY <1>1, <1>3, ListOutcome
<1>5. /\ new(out) \in Task /\ new(out).pc = "engines"
      /\ new(out).errors = (task[t].errors \/ ~out.ok)
      /\ new(out).todo = task[t].todo \ {e} /\ new(out).newer = task[t].newer
      /\ new(out).found = out.found
      /\ new(out).missed = task[t].missed \cup {w \in here \ out.found : out.ok}
    BY <1>1, <1>4 DEF Task, Listed
<1>6. task' = [task EXCEPT ![t] = new(out)]
    BY <1>3
<1> HIDE DEF new
<1>7. \/ new(out).errors
      \/ running[TaskNode(t)] \subseteq Account(new(out))
    BY <1>1, <1>4, <1>5 DEF Accounted, Account
<1> QED
    BY <1>1, <1>2, <1>5, <1>6, <1>7, RemovalAlone, Zenon DEF NodeTypes

\* A removed workload leaves the account on both sides; one that the engine says
\* it removed is noted.
LEMMA RemoveStep ==
    ASSUME SweepInv, NEW t \in TaskId, NEW e \in Registered, RemoveWorkload(t, e)
    PROVE  SweepInv'
<1> DEFINE n == TaskNode(t)
           new(out) == Removed(task[t], e, out)
<1>1. /\ NodeTypes /\ task[t] \in Task /\ n \in Node /\ running[n] \in SUBSET Registered
      /\ Accounted(t) /\ task[t].pc = "engines"
    BY TaskNodeType DEF SweepInv, NodeTypes, RemoveWorkload
<1>2. UNCHANGED <<loop, boot, owner>>
    BY DEF RemoveWorkload
<1>3. PICK out \in remove_workload(e, e, running[n]) :
          /\ running' = [running EXCEPT ![n] = out.run]
          /\ task' = [task EXCEPT ![t] = new(out)]
    BY DEF RemoveWorkload
<1>4. out.ok \in BOOLEAN /\ out.run \in {running[n], running[n] \ {e}}
    BY <1>1, <1>3, RemoveOutcome
<1>5. /\ new(out) \in Task /\ new(out).pc = "engines"
      /\ new(out).errors = (task[t].errors \/ ~out.ok)
      /\ new(out).todo = task[t].todo /\ new(out).newer = task[t].newer
      /\ new(out).found = task[t].found \ {e}
      /\ new(out).missed = task[t].missed \cup {w \in {e} \cap out.run : out.ok}
    BY <1>1, <1>4 DEF Task, Removed
<1>6. /\ running' = [running EXCEPT ![n] = out.run]
      /\ task' = [task EXCEPT ![t] = new(out)]
    BY <1>3
<1> HIDE DEF new
<1>7. NodeTypes'
    BY <1>1, <1>2, <1>4, <1>5, <1>6 DEF NodeTypes
<1>8. /\ running'[n] = out.run
      /\ \A m \in Node : running'[m] \subseteq running[m]
      /\ task'[t] = new(out) /\ \A u \in TaskId \ {t} : task'[u] = task[u]
    BY <1>1, <1>4, <1>6 DEF NodeTypes
<1>9. new(out).errors \/ out.run \subseteq Account(new(out))
    BY <1>1, <1>4, <1>5 DEF Accounted, Account
<1>10. ASSUME NEW u \in TaskId PROVE Accounted(u)' /\ Swept(u)'
    <2>1. CASE u = t
        BY <1>5, <1>8, <1>9, <2>1 DEF Accounted, Swept
    <2>2. CASE u # t
        BY <1>8, <2>2, TaskNodeType DEF SweepInv, Accounted, Swept
    <2> QED
        BY <2>1, <2>2
<1> QED
    BY <1>7, <1>10 DEF SweepInv

\* The sweep is over when nothing is left to list or to remove.
LEMMA StopStep ==
    ASSUME SweepInv, NEW t \in TaskId, StopProviding(t)
    PROVE  SweepInv'
<1> DEFINE new == [task[t] EXCEPT !.pc = "owner"]
<1>1. /\ NodeTypes /\ task[t] \in Task /\ Accounted(t) /\ task[t].pc = "engines"
      /\ task[t].todo = {} /\ task[t].found = {}
    BY DEF SweepInv, NodeTypes, StopProviding
<1>2. task' = [task EXCEPT ![t] = new] /\ UNCHANGED <<running, loop, boot, owner>>
    BY DEF StopProviding, nodeVars
<1>3. /\ new \in Task /\ new.pc = "owner" /\ new.errors = task[t].errors
      /\ new.todo = {} /\ new.found = {} /\ Account(new) = Account(task[t])
    BY <1>1 DEF Task, Account
<1> HIDE DEF new
<1>4. \/ new.errors
      \/ running[TaskNode(t)] \subseteq Account(new)
    BY <1>1, <1>3 DEF Accounted
<1> QED
    BY <1>1, <1>2, <1>3, <1>4, RemovalAlone, Zenon DEF NodeTypes

\* The last step of a removal.
LEMMA DropStep ==
    ASSUME SweepInv, NEW t \in TaskId, DropOwner(t)
    PROVE  SweepInv'
<1> DEFINE new == NewTask("done")
<1>1. NodeTypes /\ task[t] \in Task /\ TaskNode(t) \in Node
    BY TaskNodeType DEF SweepInv, NodeTypes
<1>2. task' = [task EXCEPT ![t] = new] /\ UNCHANGED <<running, loop, boot>>
    BY DEF DropOwner
<1>3. owner' \in [Node -> Key \cup {NoOwner}]
    BY <1>1 DEF DropOwner, remove_manifest_owner, NodeTypes
<1>4. new \in Task /\ new.pc = "done"
    BY NewTaskType
<1> HIDE DEF new
<1> QED
    BY <1>2, <1>3, <1>4, RemovalAlone, Zenon

\* Everything else a node, delete_task or the network does.
LEMMA StillStep == ASSUME SweepInv, Still PROVE SweepInv'
BY StillKeepsTypes, SweepUnchanged DEF Still

\* Every step keeps the account.
LEMMA SweepNext == SweepInv /\ [Next]_vars => SweepInv'
<1> SUFFICES ASSUME SweepInv, [Next]_vars PROVE SweepInv'
    OBVIOUS
<1>1. ASSUME NEW n \in Node, NEW k \in Key \cup {NoOwner},
             CreateTask(n, k) \/ \E e \in Registered : Apply(n, k, e)
      PROVE  SweepInv'
    BY <1>1, ApplyStep
<1>2. ASSUME NEW n \in Node, FinishDeployment(n) PROVE SweepInv'
    BY <1>2, FinishDeploymentStep
<1>3. ASSUME NEW n \in Node, LoopStep(n) PROVE SweepInv'
    <2>1. CASE HandleFind(n) \/ HandleWhoami(n) \/ HandleSend(n)
        BY <2>1, StillStep, Zenon DEF HandleFind, HandleWhoami, HandleSend, Still, nodeVars
    <2>2. ASSUME NEW msg \in net, HandleDelete(msg) PROVE SweepInv'
        <3>1. CASE msg.signed
            BY <2>2, <3>1, BeginStep, Zenon DEF HandleDelete, nodeVars
        <3>2. CASE ~msg.signed
            BY <2>2, <3>2, StillStep DEF HandleDelete, Still, nodeVars
        <3> QED
            BY <3>1, <3>2
    <2> QED
        BY <1>3, <2>1, <2>2 DEF LoopStep
<1>4. ASSUME NEW n \in Node, Restart(n) PROVE SweepInv'
    BY <1>4, RestartStep
<1>5. ASSUME NEW d \in Request, DeleteTask(d) \/ RestStep(d) PROVE SweepInv'
    <2>1. CASE DeleteLocally(d)
        BY <2>1, BeginStep, Zenon DEF DeleteLocally, handle_local_delete, nodeVars
    <2>2. CASE DeleteTask(d) \/ NothingFound(d) \/ IdentifyTimedOut(d) \/ SendTimedOut(d) \/ Respond(d)
        BY <2>2, StillStep DEF DeleteTask, NothingFound, IdentifyTimedOut, SendTimedOut, Respond,
                               Still, nodeVars
    <2>3. ASSUME NEW p \in targets[d], DeleteRemotely(d, p) PROVE SweepInv'
        BY <2>3, StillStep DEF DeleteRemotely, Still, nodeVars
    <2> QED
        BY <1>5, <2>1, <2>2, <2>3 DEF RestStep
<1>6. ASSUME NEW d \in Request, NEW batch \in SUBSET dht, ProvidersFound(d, batch) PROVE SweepInv'
    BY <1>6, StillStep DEF ProvidersFound, Still, nodeVars
<1>7. ASSUME NEW r \in Signed, PeerDelete(r) PROVE SweepInv'
    BY <1>7, BeginStep, Zenon DEF PeerDelete, nodeVars
<1>8. ASSUME NEW t \in TaskId, RemovalStep(t) PROVE SweepInv'
    <2>1. CASE t \in Signed /\ Verify(t)
        BY <2>1, VerifyStep
    <2>2. ASSUME NEW e \in Registered, ListWorkloads(t, e) \/ RemoveWorkload(t, e) PROVE SweepInv'
        BY <2>2, ListStep, RemoveStep
    <2>3. CASE StopProviding(t) \/ DropOwner(t)
        BY <2>3, StopStep, DropStep
    <2> QED
        BY <1>8, <2>1, <2>2, <2>3 DEF RemovalStep
<1>9. ASSUME NEW msg \in net, Lose(msg) PROVE SweepInv'
    BY <1>9, StillStep DEF Lose, Still, nodeVars
<1>10. CASE UNCHANGED vars
    BY <1>10, StillStep DEF vars, Still
<1> QED
    BY <1>1, <1>2, <1>3, <1>4, <1>5, <1>6, <1>7, <1>8, <1>9, <1>10 DEF Next

\* The account is kept in every run of the system.
THEOREM SweepKept == Spec => []SweepInv
<1>1. Init => SweepInv
    BY SweepInit
<1>2. SweepInv /\ [Next]_vars => SweepInv'
    BY SweepNext
<1> QED
    BY <1>1, <1>2, PTL DEF Spec

\* Only the end of an error-free removal takes an owner away from a node that
\* is not restarted, and then the account is down to what is newer.
LEMMA DropAfterSweep ==
    ASSUME SweepInv, [Next]_vars, NEW n \in Node, OwnerDropped(n)
    PROVE  SweepFinished(n)
<1>1. NodeTypes
    BY DEF SweepInv
<1>2. ASSUME owner' = owner PROVE FALSE
    BY <1>2 DEF OwnerDropped
<1>3. ASSUME NEW m \in Node, NEW k \in Key \cup {NoOwner},
             CreateTask(m, k) \/ \E e \in Registered : Apply(m, k, e)
      PROVE  FALSE
    <2>1. record_manifest_owner(m, k)
        BY <1>3 DEF CreateTask, Apply
    <2> QED
        BY <1>1, <2>1 DEF record_manifest_owner, OwnerDropped, NodeTypes
<1>4. ASSUME NEW m \in Node, Restart(m) PROVE FALSE
    <2>1. CASE m = n
        BY <1>1, <1>4, <2>1 DEF Restart, OwnerDropped, NodeTypes
    <2>2. CASE m # n
        BY <1>1, <1>4, <2>2 DEF Restart, OwnerDropped, NodeTypes
    <2> QED
        BY <2>1, <2>2
<1>5. ASSUME NEW t \in TaskId, DropOwner(t) PROVE SweepFinished(n)
    <2>1. TaskNode(t) = n /\ ~task[t].errors
        BY <1>1, <1>5, TaskNodeType DEF DropOwner, remove_manifest_owner, OwnerDropped, NodeTypes
    <2>2. task[t] \in Task /\ task[t].pc = "owner" /\ task'[t].pc = "done"
        BY <1>1, <1>5, NewTaskType DEF DropOwner, NodeTypes
    <2>3. running[n] \subseteq task[t].newer \cup task[t].missed
        BY <2>1, <2>2 DEF SweepInv, Accounted, Swept, Account
    <2> QED
        BY <2>1, <2>2, <2>3 DEF SweepFinished
<1>6. ASSUME NEW t \in TaskId, RemovalStep(t) PROVE SweepFinished(n)
    <2>1. CASE t \in Signed /\ Verify(t)
        BY <2>1, <1>2 DEF Verify, nodeVars
    <2>2. ASSUME NEW e \in Registered, ListWorkloads(t, e) \/ RemoveWorkload(t, e) PROVE FALSE
        BY <2>2, <1>2 DEF ListWorkloads, RemoveWorkload, nodeVars
    <2>3. CASE StopProviding(t)
        BY <2>3, <1>2, Zenon DEF StopProviding, nodeVars
    <2> QED
        BY <1>5, <1>6, <2>1, <2>2, <2>3 DEF RemovalStep
<1>7. ASSUME NEW m \in Node, LoopStep(m) PROVE FALSE
    BY <1>2, <1>7, Zenon DEF LoopStep, HandleFind, HandleWhoami, HandleSend, HandleDelete, nodeVars
<1>8. ASSUME NEW d \in Request, DeleteTask(d) \/ RestStep(d) PROVE FALSE
    BY <1>2, <1>8 DEF RestStep, DeleteTask, NothingFound, IdentifyTimedOut, SendTimedOut,
                      DeleteLocally, DeleteRemotely, Respond, nodeVars
<1>9. CASE \/ \E m \in Node : FinishDeployment(m)
           \/ \E d \in Request : \E batch \in SUBSET dht : ProvidersFound(d, batch)
           \/ \E r \in Signed : PeerDelete(r)
           \/ \E msg \in net : Lose(msg)
           \/ UNCHANGED vars
    BY <1>2, <1>9, Zenon DEF FinishDeployment, ProvidersFound, PeerDelete, Lose, nodeVars, vars
<1> QED
    BY <1>3, <1>4, <1>6, <1>7, <1>8, <1>9 DEF Next

\* An owner entry goes only after a complete, error-free sweep of the engines.
THEOREM OwnerKeptUntilSwept == Spec => OwnerDroppedAfterSweep
<1>1. SweepInv /\ [Next]_vars => [\A n \in Node : OwnerDropped(n) => SweepFinished(n)]_vars
    BY DropAfterSweep
<1> QED
    BY <1>1, SweepKept, PTL DEF Spec, OwnerDroppedAfterSweep

-----------------------------------------------------------------------------
(* Types of what delete_task, the queues and the network hold *)

Message == [id : TaskId, to : Peer, signed : BOOLEAN]

MeshTypes ==
    /\ boot \in [Node -> 0..MaxBoots]
    /\ dht \subseteq Peer
    /\ applies \in 0..MaxApplies
    /\ net \subseteq Message
    /\ \A msg \in net : msg.signed => msg.id \in Signed

CallTypes ==
    /\ control \in [Node -> Seq(Control)]
    /\ pending \subseteq Request
    /\ phase \in [Request -> Phase]
    /\ targets \in [Request -> SUBSET Peer]
    /\ current \in [Request -> Peer \cup {NoPeer}]
    /\ hit \in [Request -> BOOLEAN]

HolderTypes == NodeTypes /\ MeshTypes /\ CallTypes

\* A node announces itself under its current peer id.
LEMMA SelfType == ASSUME MeshTypes, NEW n \in Node PROVE Self(n) \in Peer
BY DEF MeshTypes, Self, Peer

\* A control message queued behind the others keeps the queues typed.
LEMMA QueueTypes ==
    ASSUME CallTypes, NEW n \in Node, NEW kind \in {"find", "whoami", "send"},
           NEW d \in Request, NEW p \in Peer, Queue(n, kind, d, p)
    PROVE  control' \in [Node -> Seq(Control)]
<1>1. [kind |-> kind, req |-> d, to |-> p] \in Control
    BY DEF Control
<1>2. control[n] \in Seq(Control)
    BY DEF CallTypes
<1>3. Append(control[n], [kind |-> kind, req |-> d, to |-> p]) \in Seq(Control)
    BY <1>1, <1>2
<1> QED
    BY <1>3 DEF CallTypes, Queue

\* The control message an event loop takes up, and what it leaves.
LEMMA TakenTypes ==
    ASSUME CallTypes, NEW n \in Node, NEW kind, NextControl(n, kind)
    PROVE  /\ Head(control[n]).req \in Request /\ Head(control[n]).to \in Peer
           /\ control' \in [Node -> Seq(Control)]
<1>1. control[n] \in Seq(Control) /\ control[n] # <<>>
    BY Zenon DEF CallTypes, NextControl
<1>2. Head(control[n]) \in Control /\ Tail(control[n]) \in Seq(Control)
    BY <1>1
<1>3. Head(control[n]).req \in Request /\ Head(control[n]).to \in Peer
    BY <1>2 DEF Control
<1>4. control' \in [Node -> Seq(Control)]
    BY <1>2 DEF CallTypes, NextControl
<1> QED
    BY <1>3, <1>4

\* Nothing is queued, asked or sent at first.
LEMMA HolderInit == Init => HolderTypes
<1> SUFFICES ASSUME Init PROVE HolderTypes
    OBVIOUS
<1>1. NodeTypes
    BY SweepInit DEF SweepInv
<1>2. MeshTypes
    BY DeletionAssumption DEF Init, MeshTypes
<1>3. CallTypes
    BY DEF Init, CallTypes, Phase
<1> QED
    BY <1>1, <1>2, <1>3 DEF HolderTypes

\* The steps of a node that are no part of a call.
LEMMA NodeStepTypes ==
    ASSUME HolderTypes,
           NEW n \in Node,
           \/ \E k \in Key \cup {NoOwner} :
                 CreateTask(n, k) \/ \E e \in Registered : Apply(n, k, e)
           \/ FinishDeployment(n)
           \/ Restart(n)
    PROVE  MeshTypes' /\ CallTypes'
<1>1. Self(n) \in Peer
    BY SelfType DEF HolderTypes
<1>2. ASSUME NEW k \in Key \cup {NoOwner},
             CreateTask(n, k) \/ \E e \in Registered : Apply(n, k, e)
      PROVE  MeshTypes' /\ CallTypes'
    <2>1. applies' \in 0..MaxApplies
        BY <1>2, DeletionAssumption DEF Counted, CreateTask, Apply, HolderTypes, MeshTypes
    <2>2. UNCHANGED <<boot, dht, net, control, pending, phase, targets, current, hit>>
        BY <1>2, Zenon DEF CreateTask, Apply, restVars
    <2> QED
        BY <2>1, <2>2 DEF HolderTypes, MeshTypes, CallTypes
<1>3. CASE FinishDeployment(n)
    <2>1. dht' \in {dht, dht \cup {Self(n)}}
        BY <1>3 DEF FinishDeployment
    <2>2. UNCHANGED <<boot, applies, net, control, pending, phase, targets, current, hit>>
        BY <1>3, Zenon DEF FinishDeployment, restVars
    <2> QED
        BY <1>1, <2>1, <2>2 DEF HolderTypes, MeshTypes, CallTypes
<1>4. CASE Restart(n)
    <2>0. /\ boot[n] < MaxBoots /\ boot' = [boot EXCEPT ![n] = @ + 1]
          /\ control' = [control EXCEPT ![n] = <<>>]
          /\ pending' = {d \in pending : Entry[d] # n}
          /\ phase' = [d \in Request |->
                          IF Entry[d] = n /\ phase[d] \notin {"new", "ok"}
                          THEN "failed" ELSE phase[d]]
          /\ UNCHANGED <<dht, applies, net, targets, current, hit>>
        BY <1>4, Zenon DEF Restart
    <2>1. boot' \in [Node -> 0..MaxBoots]
        BY <2>0, DeletionAssumption DEF HolderTypes, MeshTypes
    <2>2. phase' \in [Request -> Phase]
        BY <2>0 DEF HolderTypes, CallTypes, Phase
    <2>3. control' \in [Node -> Seq(Control)] /\ pending' \subseteq Request
        BY <2>0 DEF HolderTypes, CallTypes
    <2>4. MeshTypes'
        BY <2>0, <2>1 DEF HolderTypes, MeshTypes
    <2> QED
        BY <2>0, <2>2, <2>3, <2>4 DEF HolderTypes, CallTypes
<1> QED
    BY <1>2, <1>3, <1>4

\* A call moves from phase to phase; what it queues is for a peer it was given.
LEMMA CallStepTypes ==
    ASSUME HolderTypes, NEW d \in Request, DeleteTask(d) \/ RestStep(d)
    PROVE  MeshTypes' /\ CallTypes'
<1>1. /\ MeshTypes /\ CallTypes /\ Entry[d] \in Node /\ Self(Entry[d]) \in Peer
      /\ targets[d] \subseteq Peer
    BY SelfType, DeletionAssumption DEF HolderTypes, CallTypes
<1>2. CASE DeleteTask(d)
    <2>1. control' \in [Node -> Seq(Control)]
        BY <1>1, <1>2, QueueTypes DEF DeleteTask
    <2> QED
        BY <1>1, <1>2, <2>1, Zenon DEF DeleteTask, nodeVars, MeshTypes, CallTypes, Phase
<1>3. CASE NothingFound(d) \/ IdentifyTimedOut(d) \/ SendTimedOut(d) \/ Respond(d)
    <2>1. phase' \in [Request -> Phase]
        BY <1>1, <1>3, Zenon DEF NothingFound, IdentifyTimedOut, SendTimedOut, Respond, CallTypes, Phase
    <2> QED
        BY <1>1, <1>3, <2>1 DEF NothingFound, IdentifyTimedOut, SendTimedOut, Respond, nodeVars,
                                MeshTypes, CallTypes
<1>4. CASE DeleteLocally(d)
    BY <1>1, <1>4 DEF DeleteLocally, nodeVars, MeshTypes, CallTypes, Phase
<1>5. ASSUME NEW p \in targets[d], DeleteRemotely(d, p) PROVE MeshTypes' /\ CallTypes'
    <2>1. p \in Peer
        BY <1>1
    <2>2. control' \in [Node -> Seq(Control)]
        BY <1>1, <1>5, <2>1, QueueTypes DEF DeleteRemotely
    <2> QED
        BY <1>1, <1>5, <2>1, <2>2 DEF DeleteRemotely, nodeVars, MeshTypes, CallTypes, Phase
<1> QED
    BY <1>2, <1>3, <1>4, <1>5 DEF RestStep

\* What an event loop takes from its queue or from the network.
LEMMA LoopStepTypes ==
    ASSUME HolderTypes, NEW n \in Node, LoopStep(n)
    PROVE  MeshTypes' /\ CallTypes'
<1>0. MeshTypes /\ CallTypes
    BY DEF HolderTypes
<1>1. CASE HandleFind(n)
    <2>1. control' \in [Node -> Seq(Control)] /\ Head(control[n]).req \in Request
        BY <1>0, <1>1, TakenTypes, Zenon DEF HandleFind
    <2> QED
        BY <1>0, <1>1, <2>1 DEF HandleFind, insert_pending_providers_query, nodeVars, restVars,
                                MeshTypes, CallTypes
<1>2. CASE HandleWhoami(n)
    <2>1. control' \in [Node -> Seq(Control)] /\ Head(control[n]).req \in Request
        BY <1>0, <1>2, TakenTypes DEF HandleWhoami
    <2>2. phase' \in [Request -> Phase]
        BY <1>0, <1>2, <2>1, Zenon DEF HandleWhoami, CallTypes, Phase
    <2> QED
        BY <1>0, <1>2, <2>1, <2>2 DEF HandleWhoami, nodeVars, MeshTypes, CallTypes
<1>3. CASE HandleSend(n)
    <2> DEFINE c == Head(control[n])
    <2>1. control' \in [Node -> Seq(Control)] /\ c.req \in Request /\ c.to \in Peer
        BY <1>0, <1>3, TakenTypes, Zenon DEF HandleSend
    <2>2. /\ DeleteRequest(c.req, c.to, FALSE) \in Message
          /\ ~DeleteRequest(c.req, c.to, FALSE).signed
        BY <2>1 DEF DeleteRequest, Message, TaskId
    <2>3. MeshTypes'
        BY <1>0, <1>3, <2>2, Zenon DEF HandleSend, nodeVars, MeshTypes
    <2>4. phase' \in [Request -> Phase]
        BY <1>0, <1>3, <2>1 DEF HandleSend, CallTypes, Phase
    <2>5. hit' \in [Request -> BOOLEAN]
        BY <1>0, <1>3, <2>1 DEF HandleSend, CallTypes
    <2> QED
        BY <1>0, <1>3, <2>1, <2>3, <2>4, <2>5, Zenon DEF HandleSend, CallTypes
<1>4. ASSUME NEW msg \in net, HandleDelete(msg) PROVE MeshTypes' /\ CallTypes'
    BY <1>0, <1>4 DEF HandleDelete, nodeVars, restVars, MeshTypes, CallTypes
<1> QED
    BY <1>1, <1>2, <1>3, <1>4 DEF LoopStep

\* The providers of a batch are the peers of records.
LEMMA ProvidersTypes ==
    ASSUME HolderTypes, NEW d \in Request, NEW batch \in SUBSET dht, ProvidersFound(d, batch)
    PROVE  MeshTypes' /\ CallTypes'
<1>1. MeshTypes /\ CallTypes /\ Entry[d] \in Node /\ Self(Entry[d]) \in Peer /\ batch \subseteq Peer
    BY SelfType, DeletionAssumption DEF HolderTypes, MeshTypes
<1>2. MeshTypes'
    BY <1>1 DEF ProvidersFound, nodeVars, MeshTypes
<1>3. pending' \subseteq Request /\ UNCHANGED <<current, hit>>
    BY <1>1 DEF ProvidersFound, take_pending_providers_query, CallTypes
<1>4. CASE phase[d] = "finding"
    <2>1. control' \in [Node -> Seq(Control)]
        BY <1>1, <1>4, QueueTypes DEF ProvidersFound, find_manifest_providers
    <2> QED
        BY <1>1, <1>2, <1>3, <1>4, <2>1, Zenon DEF ProvidersFound, find_manifest_providers, CallTypes, Phase
<1>5. CASE phase[d] # "finding"
    BY <1>1, <1>2, <1>3, <1>5 DEF ProvidersFound, find_manifest_providers, CallTypes
<1> QED
    BY <1>4, <1>5

\* A removal tells its call at most that it is through.
LEMMA RemovalTypes ==
    ASSUME HolderTypes, NEW t \in TaskId, RemovalStep(t)
    PROVE  MeshTypes' /\ CallTypes'
<1>0. MeshTypes /\ CallTypes
    BY DEF HolderTypes
<1>1. CASE t \in Signed /\ Verify(t)
    BY <1>0, <1>1 DEF Verify, nodeVars, restVars, MeshTypes, CallTypes
<1>2. ASSUME NEW e \in Registered, ListWorkloads(t, e) \/ RemoveWorkload(t, e)
      PROVE  MeshTypes' /\ CallTypes'
    BY <1>0, <1>2 DEF ListWorkloads, RemoveWorkload, nodeVars, restVars, MeshTypes, CallTypes
<1>3. CASE StopProviding(t)
    BY <1>0, <1>3 DEF StopProviding, nodeVars, restVars, MeshTypes, CallTypes
<1>4. CASE DropOwner(t)
    <2>1. phase' \in [Request -> Phase]
        BY <1>0, <1>4 DEF DropOwner, CallTypes, Phase
    <2>2. hit' \in [Request -> BOOLEAN]
        BY <1>0, <1>4 DEF DropOwner, CallTypes
    <2> QED
        BY <1>0, <1>4, <2>1, <2>2 DEF DropOwner, MeshTypes, CallTypes
<1> QED
    BY <1>1, <1>2, <1>3, <1>4 DEF RemovalStep

\* Every step keeps queues, calls and network typed.
LEMMA HolderNext == HolderTypes /\ [Next]_vars => MeshTypes' /\ CallTypes'
<1> SUFFICES ASSUME HolderTypes, [Next]_vars PROVE MeshTypes' /\ CallTypes'
    OBVIOUS
<1>0. MeshTypes /\ CallTypes
    BY DEF HolderTypes
<1>1. CASE \E n \in Node : \E k \in Key \cup {NoOwner} :
                CreateTask(n, k) \/ \E e \in Registered : Apply(n, k, e)
    BY <1>1, NodeStepTypes
<1>2. ASSUME NEW n \in Node, FinishDeployment(n) \/ LoopStep(n) \/ Restart(n)
      PROVE  MeshTypes' /\ CallTypes'
    BY <1>2, NodeStepTypes, LoopStepTypes
<1>3. ASSUME NEW d \in Request, DeleteTask(d) \/ RestStep(d) PROVE MeshTypes' /\ CallTypes'
    BY <1>3, CallStepTypes
<1>4. ASSUME NEW d \in Request, NEW batch \in SUBSET dht, ProvidersFound(d, batch)
      PROVE  MeshTypes' /\ CallTypes'
    BY <1>4, ProvidersTypes
<1>5. ASSUME NEW r \in Signed, PeerDelete(r) PROVE MeshTypes' /\ CallTypes'
    <2>1. Self(r.to) \in Peer
        BY <1>0, SelfType, DeletionAssumption
    <2>2. /\ DeleteRequest(r, Self(r.to), TRUE) \in Message
          /\ DeleteRequest(r, Self(r.to), TRUE).id \in Signed
        BY <2>1 DEF DeleteRequest, Message, TaskId
    <2> QED
        BY <1>0, <1>5, <2>2, Zenon DEF PeerDelete, nodeVars, restVars, MeshTypes, CallTypes
<1>6. ASSUME NEW t \in TaskId, RemovalStep(t) PROVE MeshTypes' /\ CallTypes'
    BY <1>6, RemovalTypes
<1>7. ASSUME NEW msg \in net, Lose(msg) PROVE MeshTypes' /\ CallTypes'
    BY <1>0, <1>7 DEF Lose, nodeVars, restVars, MeshTypes, CallTypes
<1>8. CASE UNCHANGED vars
    BY <1>0, <1>8 DEF vars, MeshTypes, CallTypes
<1> QED
    BY <1>1, <1>2, <1>3, <1>4, <1>5, <1>6, <1>7, <1>8 DEF Next

\* delete_task waits for its own removal exactly while that is under way.
Awaited(d) == phase[d] = "removing" <=> task[d].pc \in {"engines", "owner"}

AwaitInv == \A d \in Request : Awaited(d)

\* Steps that move neither a call nor its removal, as far as they wait for each other.
LEMMA AwaitSame ==
    ASSUME AwaitInv,
           \A d \in Request : /\ phase'[d] = "removing" <=> phase[d] = "removing"
                              /\ task'[d].pc = task[d].pc
    PROVE  AwaitInv'
BY DEF AwaitInv, Awaited

\* Deployments, restarts and the event loops.
LEMMA AwaitNode ==
    ASSUME HolderTypes, AwaitInv, NEW n \in Node,
           FinishDeployment(n) \/ LoopStep(n) \/ Restart(n)
    PROVE  AwaitInv'
<1>0. /\ task \in [TaskId -> Task] /\ phase \in [Request -> Phase]
      /\ Request \subseteq TaskId /\ Request \cap Signed = {}
    BY DeletionAssumption DEF HolderTypes, NodeTypes, CallTypes, TaskId
<1>1. CASE FinishDeployment(n)
    <2>1. phase' = phase /\ (task' = task \/ Deployed(n, loop[n]))
        BY <1>1 DEF FinishDeployment, restVars
    <2>2. ASSUME NEW d \in Request PROVE task'[d].pc = task[d].pc
        <3>1. task[d] \in Task
            BY <1>0
        <3> QED
            BY <1>0, <2>1, <3>1 DEF Deployed, Task
    <2> QED
        BY <2>1, <2>2, AwaitSame
<1>2. CASE HandleFind(n) \/ HandleWhoami(n) \/ HandleSend(n)
    <2>1. task' = task
        BY <1>2 DEF HandleFind, HandleWhoami, HandleSend
    <2>2. ASSUME NEW d \in Request PROVE phase'[d] = "removing" <=> phase[d] = "removing"
        BY <1>0, <1>2 DEF HandleFind, HandleWhoami, HandleSend, restVars
    <2> QED
        BY <2>1, <2>2, AwaitSame
<1>3. ASSUME NEW msg \in net, HandleDelete(msg) PROVE AwaitInv'
    <2>1. phase' = phase /\ (msg.signed => msg.id \in Signed)
        BY <1>3 DEF HandleDelete, restVars, HolderTypes, MeshTypes
    <2>2. \A d \in Request : task'[d] = task[d]
        BY <1>0, <1>3, <2>1 DEF HandleDelete
    <2> QED
        BY <2>1, <2>2, AwaitSame
<1>4. CASE Restart(n)
    <2>1. ASSUME NEW d \in Request PROVE Awaited(d)'
        <3>1. /\ phase'[d] = IF Entry[d] = n /\ phase[d] \notin {"new", "ok"}
                             THEN "failed" ELSE phase[d]
              /\ task'[d] = IF Entry[d] = n /\ task[d].pc \in {"verify", "engines", "owner"}
                            THEN NewTask("killed") ELSE task[d]
            BY <1>0, <1>4 DEF Restart, TaskNode
        <3>2. Awaited(d) /\ NewTask("killed").pc = "killed"
            BY NewTaskType DEF AwaitInv
        <3> QED
            BY <3>1, <3>2 DEF Awaited
    <2> QED
        BY <2>1 DEF AwaitInv
<1> QED
    BY <1>1, <1>2, <1>3, <1>4 DEF LoopStep

\* The calls.
LEMMA AwaitCall ==
    ASSUME HolderTypes, AwaitInv, NEW d \in Request,
           \/ DeleteTask(d) \/ RestStep(d)
           \/ \E batch \in SUBSET dht : ProvidersFound(d, batch)
    PROVE  AwaitInv'
<1>0. /\ task \in [TaskId -> Task] /\ phase \in [Request -> Phase] /\ d \in TaskId
    BY DEF HolderTypes, NodeTypes, CallTypes, TaskId
<1>1. CASE DeleteLocally(d)
    <2>1. /\ phase' = [phase EXCEPT ![d] = "removing"]
          /\ task' = [task EXCEPT ![d] = NewTask("engines")]
        BY <1>1 DEF DeleteLocally, handle_local_delete
    <2>2. NewTask("engines").pc = "engines"
        BY NewTaskType
    <2>3. ASSUME NEW c \in Request PROVE Awaited(c)'
        BY <1>0, <2>1, <2>2 DEF AwaitInv, Awaited, TaskId
    <2> QED
        BY <2>3 DEF AwaitInv
<1>2. CASE \/ DeleteTask(d) \/ NothingFound(d) \/ IdentifyTimedOut(d) \/ SendTimedOut(d)
           \/ Respond(d) \/ \E p \in targets[d] : DeleteRemotely(d, p)
           \/ \E batch \in SUBSET dht : ProvidersFound(d, batch)
    <2>1. task' = task
        BY <1>2 DEF DeleteTask, NothingFound, IdentifyTimedOut, SendTimedOut, Respond,
                    DeleteRemotely, ProvidersFound
    <2>2. \/ phase' = phase
          \/ /\ phase[d] # "removing"
             /\ \E p \in Phase \ {"removing"} : phase' = [phase EXCEPT ![d] = p]
        BY <1>2 DEF DeleteTask, NothingFound, IdentifyTimedOut, SendTimedOut, Respond,
                    DeleteRemotely, ProvidersFound, find_manifest_providers, Phase
    <2>3. ASSUME NEW c \in Request PROVE phase'[c] = "removing" <=> phase[c] = "removing"
        BY <1>0, <2>2
    <2> QED
        BY <2>1, <2>3, AwaitSame
<1> QED
    BY <1>1, <1>2 DEF RestStep

\* The removals: the last step lets the call go on.
LEMMA AwaitRemoval ==
    ASSUME HolderTypes, AwaitInv, NEW t \in TaskId, RemovalStep(t)
    PROVE  AwaitInv'
<1>0. /\ task \in [TaskId -> Task] /\ phase \in [Request -> Phase] /\ task[t] \in Task
      /\ Request \subseteq TaskId /\ Request \cap Signed = {}
    BY DeletionAssumption DEF HolderTypes, NodeTypes, CallTypes, TaskId
<1>1. CASE t \in Signed /\ Verify(t)
    <2>1. phase' = phase /\ \A d \in Request : task'[d] = task[d]
        BY <1>0, <1>1 DEF Verify, restVars
    <2> QED
        BY <2>1, AwaitSame
<1>2. ASSUME NEW e \in Registered, ListWorkloads(t, e) \/ RemoveWorkload(t, e) PROVE AwaitInv'
    <2>0. /\ \A here, out : Listed(task[t], e, here, out).pc = task[t].pc
          /\ \A out : Removed(task[t], e, out).pc = task[t].pc
        BY <1>0 DEF Listed, Removed, Task
    <2>1. phase' = phase /\ \E r : task' = [task EXCEPT ![t] = r] /\ r.pc = task[t].pc
        <3>1. CASE ListWorkloads(t, e)
            <4>1. PICK out : task' = [task EXCEPT ![t] =
                                 Listed(task[t], e, {e} \cap running[TaskNode(t)], out)]
                BY <3>1, Zenon DEF ListWorkloads
            <4>2. phase' = phase
                BY <3>1 DEF ListWorkloads, restVars
            <4> QED
                BY <2>0, <4>1, <4>2, Zenon
        <3>2. CASE RemoveWorkload(t, e)
            <4>1. PICK out : task' = [task EXCEPT ![t] = Removed(task[t], e, out)]
                BY <3>2, Zenon DEF RemoveWorkload
            <4>2. phase' = phase
                BY <3>2 DEF RemoveWorkload, restVars
            <4> QED
                BY <2>0, <4>1, <4>2, Zenon
        <3> QED
            BY <1>2, <3>1, <3>2
    <2>2. \A d \in Request : task'[d].pc = task[d].pc
        BY <1>0, <2>1
    <2> QED
        BY <2>1, <2>2, AwaitSame
<1>3. CASE StopProviding(t)
    <2> DEFINE r == [task[t] EXCEPT !.pc = "owner"]
    <2>1. phase' = phase /\ task' = [task EXCEPT ![t] = r]
        BY <1>3 DEF StopProviding, restVars
    <2>0. r.pc = "owner"
        BY <1>0 DEF Task
    <2> HIDE DEF r
    <2>2. task[t].pc = "engines"
        BY <1>3 DEF StopProviding
    <2>3. ASSUME NEW d \in Request PROVE Awaited(d)'
        BY <1>0, <2>0, <2>1, <2>2 DEF AwaitInv, Awaited
    <2> QED
        BY <2>3 DEF AwaitInv
<1>4. CASE DropOwner(t)
    <2>1. /\ task' = [task EXCEPT ![t] = NewTask("done")]
          /\ phase' = IF t \in Request THEN [phase EXCEPT ![t] = "next"] ELSE phase
        BY <1>4 DEF DropOwner
    <2>2. NewTask("done").pc = "done"
        BY NewTaskType
    <2>3. ASSUME NEW d \in Request PROVE Awaited(d)'
        BY <1>0, <2>1, <2>2 DEF AwaitInv, Awaited
    <2> QED
        BY <2>3 DEF AwaitInv
<1> QED
    BY <1>1, <1>2, <1>3, <1>4 DEF RemovalStep

\* Every step keeps calls and removals together.
LEMMA AwaitNext == HolderTypes /\ AwaitInv /\ [Next]_vars => AwaitInv'
<1> SUFFICES ASSUME HolderTypes, AwaitInv, [Next]_vars PROVE AwaitInv'
    OBVIOUS
<1>1. CASE \/ \E n \in Node : \E k \in Key \cup {NoOwner} :
                 CreateTask(n, k) \/ \E e \in Registered : Apply(n, k, e)
           \/ \E msg \in net : Lose(msg)
           \/ UNCHANGED vars
    <2>1. phase' = phase /\ task' = task
        BY <1>1, Zenon DEF CreateTask, Apply, Lose, restVars, vars
    <2> QED
        BY <2>1, AwaitSame
<1>2. ASSUME NEW s \in Signed, PeerDelete(s) PROVE AwaitInv'
    <2>1. phase' = phase /\ task' = [task EXCEPT ![s] = NewTask("sent")]
        BY <1>2 DEF PeerDelete, restVars
    <2>2. \A d \in Request : task'[d] = task[d]
        BY <2>1, DeletionAssumption DEF HolderTypes, NodeTypes, TaskId
    <2> QED
        BY <2>1, <2>2, AwaitSame
<1> QED
    BY <1>1, <1>2, AwaitNode, AwaitCall, AwaitRemoval DEF Next

\* Removals, calls, queues and requests in transit keep their types, and a call
\* waits for its removal exactly while that runs: no restart, time-out or late
\* message leaves delete_task waiting for a removal that is over.
THEOREM TypeCorrect == Spec => []TypeOK
<1>1. Init => MeshTypes /\ CallTypes /\ AwaitInv
    <2>1. Init => AwaitInv
        BY NewTaskType DEF Init, AwaitInv, Awaited, TaskId
    <2> QED
        BY <2>1, HolderInit DEF HolderTypes
<1>2. SweepInv /\ MeshTypes /\ CallTypes /\ AwaitInv /\ [Next]_vars
          => MeshTypes' /\ CallTypes' /\ AwaitInv'
    BY HolderNext, AwaitNext DEF HolderTypes, SweepInv
<1>3. SweepInv /\ MeshTypes /\ CallTypes /\ AwaitInv => TypeOK
    BY DEF SweepInv, NodeTypes, MeshTypes, CallTypes, AwaitInv, Awaited, Message, TypeOK
<1> QED
    BY <1>1, <1>2, <1>3, SweepKept, PTL DEF Spec

=============================================================================
