----------------------------- MODULE WorkloadProofs -----------------------------
(***************************************************************************)
(* What keeps workloads running: the manager of a machine and the agents   *)
(* of a workload's pods.                                                   *)
(*                                                                         *)
(* The workload manager, for every set of manifests, engines and readers:  *)
(* types, and every running workload is accounted for.                     *)
(*                                                                         *)
(* The agents keep their types, and with complete lookups at most one of   *)
(* the live pods whose records last has created a Raft cluster, for any set*)
(* of pods, numbers of replicas and bounds.                                *)
(***************************************************************************)
EXTENDS WorkloadManager, WorkloadAgent, FiniteSetTheorems, TLAPS

\* What each step of the call has in hand.
CallInv ==
    /\ call.step = "validated" => call.manifest \in Manifest
    /\ call.step \in {"chosen", "deployed", "recorded", "stopping", "stopped"}
            => call.target \in Id
    /\ call.step \in {"stopping", "stopped"} => call.entry \in Entry
    /\ call.step = "stopped" => call.target \notin Running \ leftover

\* A reader that will store an entry has a real one.
ReaderInv ==
    \A r \in Reader :
        reader[r].step # "idle" =>
            /\ reader[r].target \in Id
            /\ reader[r].entry \in Entry

IInv ==
    /\ TypeOK
    /\ CallInv
    /\ ReaderInv
    /\ RunningTracked

\* The engine handed out is one the registry has.
LEMMA ChosenRegistered ==
    ASSUME available \in Availability, default \in Registered,
           RuntimeEngine(default, available) # "none"
    PROVE  RuntimeEngine(default, available) \in Registered
BY DEF RuntimeEngine, Availability

\* At start-up the default engine is one that is registered.
LEMMA DefaultRegistered == DefaultEngine(available) \in Registered
BY ManagerAssumption DEF DefaultEngine

\* A deployment touches no other workload.
LEMMA DeployOutcome ==
    \A e \in Registered, m \in Manifest, run \in SUBSET Manifest :
        \A content : \A out \in deploy_workload(e, content, m, run) :
            /\ out.ok \in BOOLEAN
            /\ out.run \in SUBSET Manifest
            /\ \A x : x # m => (x \in out.run <=> x \in run)
<1> SUFFICES ASSUME NEW e \in Registered, NEW m \in Manifest, NEW run \in SUBSET Manifest,
                    NEW content, NEW out \in deploy_workload(e, content, m, run)
             PROVE  /\ out.ok \in BOOLEAN
                    /\ out.run \in SUBSET Manifest
                    /\ \A x : x # m => (x \in out.run <=> x \in run)
  OBVIOUS
<1>1. e \in {"podman", "docker", "mock"}
  BY EngineAssumption DEF Engine
<1>2. CASE e = "podman"
  BY <1>2, Zenon DEF deploy_workload, PodmanDeploy, Command, Outcome
<1>3. CASE e = "docker"
  BY <1>3, Zenon DEF deploy_workload, DockerDeploy, Command, Outcome
<1>4. CASE e = "mock"
  BY <1>4, Zenon DEF deploy_workload, MockDeploy, Command, Outcome
<1> QED
  BY <1>1, <1>2, <1>3, <1>4

\* A removal starts nothing and touches no other workload.
LEMMA RemoveOutcome ==
    \A e \in Registered, m \in Manifest, run \in SUBSET Manifest :
        \A out \in remove_workload(e, m, run) :
            /\ out.ok \in BOOLEAN
            /\ out.run \in SUBSET run
            /\ \A x : x # m => (x \in out.run <=> x \in run)
<1> SUFFICES ASSUME NEW e \in Registered, NEW m \in Manifest, NEW run \in SUBSET Manifest,
                    NEW out \in remove_workload(e, m, run)
             PROVE  /\ out.ok \in BOOLEAN
                    /\ out.run \in SUBSET run
                    /\ \A x : x # m => (x \in out.run <=> x \in run)
  OBVIOUS
<1>1. e \in {"podman", "docker", "mock"}
  BY EngineAssumption DEF Engine
<1>2. CASE e = "podman"
  BY <1>2 DEF remove_workload, PodmanRemove, Outcome
<1>3. CASE e = "docker"
  BY <1>3, Zenon DEF remove_workload, DockerRemove, Outcome
<1>4. CASE e = "mock"
  BY <1>4 DEF remove_workload, MockRemove, Outcome
<1> QED
  BY <1>1, <1>2, <1>3, <1>4

\* Nothing runs and nothing is in the map when the manager is created.
LEMMA InitInv == Init => IInv
<1>1. SUFFICES ASSUME Init PROVE IInv
  OBVIOUS
<1>2. TypeOK
  BY <1>1, DefaultRegistered DEF Init, TypeOK, Idle, NotReading, Step
<1>3. CallInv /\ ReaderInv
  BY <1>1 DEF Init, CallInv, ReaderInv, Idle, NotReading
<1>4. RunningTracked
  BY <1>1 DEF Init, RunningTracked, Running, Id
<1> QED
  BY <1>2, <1>3, <1>4 DEF IInv

\* A step that only moves the call on, away from no promise, keeps the rest.
LEMMA DeployBeginInv ==
    ASSUME IInv, NEW m \in Manifest, NEW c \in Content, DeployBegin(m, c)
    PROVE  IInv'
<1> USE DEF DeployBegin, IInv
<1>1. TypeOK'
  BY ManagerAssumption, Zenon DEF TypeOK, Idle, Step
<1>2. CallInv'
  BY DEF CallInv, Idle
<1>3. ReaderInv'
  BY DEF ReaderInv, Idle
<1>4. RunningTracked'
  BY DEF RunningTracked, Running, Tracked, Idle
<1> QED
  BY <1>1, <1>2, <1>3, <1>4

\* deploy_workload, from the choice of the engine on.
LEMMA DeployChooseInv == ASSUME IInv, DeployChoose PROVE IInv'
<1> USE DEF DeployChoose, IInv
<1>1. TypeOK'
  <2>1. CASE RuntimeEngine(default, available) = "none"
    BY <2>1 DEF TypeOK, Idle, Step
  <2>2. CASE RuntimeEngine(default, available) # "none"
    <3>1. [engine |-> RuntimeEngine(default, available), manifest |-> call.manifest] \in Id
      BY <2>2, ChosenRegistered DEF TypeOK, CallInv, Id
    <3> QED
      BY <2>2, <3>1, Zenon DEF TypeOK, Step
  <2> QED
    BY <2>1, <2>2
<1>2. CallInv'
  BY ChosenRegistered DEF TypeOK, CallInv, Idle, Id
<1>3. ReaderInv'
  BY DEF TypeOK, ReaderInv, Idle
<1>4. RunningTracked'
  BY DEF TypeOK, RunningTracked, Running, Tracked, Idle
<1> QED
  BY <1>1, <1>2, <1>3, <1>4

\* The engine's part of deploy_workload: a failure leaves the workload to
\* nobody's care, a success leaves it in the hands of the call.
LEMMA DeployInEngineInv == ASSUME IInv, DeployInEngine PROVE IInv'
<1> DEFINE e == call.target.engine
           m == call.target.manifest
<1>1. call.step = "chosen" /\ call.target \in Id /\ e \in Registered /\ m \in Manifest
  BY DEF DeployInEngine, IInv, CallInv, Id
<1>2. PICK out \in deploy_workload(e, call.content, m, running[e]) :
          /\ running' = [running EXCEPT ![e] = out.run]
          /\ call' = IF out.ok THEN [call EXCEPT !.step = "deployed"] ELSE Idle
          /\ leftover' = IF out.ok \/ call.target \in Tracked THEN leftover \ {call.target}
                         ELSE LeftTo(call.target, out.run)
  BY Zenon DEF DeployInEngine
<1> HIDE DEF e, m
<1>3. running[e] \in SUBSET Manifest
  BY <1>1 DEF IInv, TypeOK
<1>4. /\ out.ok \in BOOLEAN /\ out.run \in SUBSET Manifest
      /\ \A x : x # m => (x \in out.run <=> x \in running[e])
  <2>1. \A run \in SUBSET Manifest : \A c : \A o \in deploy_workload(e, c, m, run) :
            /\ o.ok \in BOOLEAN
            /\ o.run \in SUBSET Manifest
            /\ \A x : x # m => (x \in o.run <=> x \in run)
    BY <1>1, DeployOutcome, Zenon
  <2>2. \A c : \A o \in deploy_workload(e, c, m, running[e]) :
            /\ o.ok \in BOOLEAN
            /\ o.run \in SUBSET Manifest
            /\ \A x : x # m => (x \in o.run <=> x \in running[e])
    BY <1>3, <2>1, Zenon
  <2>3. out \in deploy_workload(e, call.content, m, running[e])
    OBVIOUS
  <2> QED
    BY <2>2, <2>3, Zenon
<1>5. UNCHANGED <<available, default, deployments, local_providers, reader>>
  BY DEF DeployInEngine
<1>6. TypeOK'
  BY <1>1, <1>2, <1>4, <1>5 DEF IInv, TypeOK, Idle, Step, LeftTo
<1>7. CallInv'
  BY <1>1, <1>2, <1>4, <1>5 DEF IInv, TypeOK, CallInv, Idle
<1>8. ReaderInv'
  BY <1>1, <1>2, <1>4, <1>5 DEF IInv, TypeOK, ReaderInv, Idle
<1>9. RunningTracked'
  <2>1. SUFFICES ASSUME NEW i \in Running' \ leftover'
                 PROVE  i \in Tracked' \/ (call'.step = "deployed" /\ call'.target = i)
    BY DEF RunningTracked
  <2>2. CASE i = call.target
    BY <1>1, <1>2, <1>4, <1>5, <2>1, <2>2 DEF IInv, TypeOK, LeftTo, Tracked, Running, e, m
  <2>3. CASE i # call.target
    <3>1. i \in Id /\ i \notin leftover
      BY <1>2, <2>1, <2>3 DEF Running, LeftTo
    <3>2. i.manifest \in running[i.engine]
      BY <1>1, <1>2, <1>4, <2>1, <2>3, <3>1 DEF IInv, TypeOK, Running, Id, e, m
    <3> QED
      BY <1>1, <1>5, <3>1, <3>2 DEF IInv, RunningTracked, Running, Tracked
  <2> QED
    BY <2>2, <2>3
<1> QED
  BY <1>5, <1>6, <1>7, <1>8, <1>9 DEF IInv

\* The entry that deploy_workload inserts.
LEMMA DeployRecordInv == ASSUME IInv, DeployRecord PROVE IInv'
<1> USE DEF DeployRecord, IInv
<1>1. TypeOK'
  BY DEF TypeOK, Step, CallInv, Entry, Entry
<1>2. CallInv'
  BY DEF TypeOK, CallInv
<1>3. ReaderInv'
  BY DEF TypeOK, ReaderInv
<1>4. [announced_as_provider |-> FALSE] # None
  <2>1. [announced_as_provider |-> FALSE] \in Entry
    BY DEF Entry
  <2> QED
    BY <2>1, ManagerAssumption, Zenon
<1>5. Tracked' = Tracked \union {call.target}
  BY <1>4 DEF TypeOK, CallInv, Tracked
<1>6. RunningTracked'
  BY <1>5 DEF TypeOK, RunningTracked, Running
<1> QED
  BY <1>1, <1>2, <1>3, <1>6

\* The announcement that ends deploy_workload.
LEMMA DeployAnnounceInv == ASSUME IInv, DeployAnnounce PROVE IInv'
<1> USE DEF DeployAnnounce, IInv
<1>1. TypeOK'
  BY DEF TypeOK, Step, CallInv, Idle, Id
<1>2. CallInv'
  BY DEF CallInv, Idle
<1>3. ReaderInv'
  BY DEF TypeOK, CallInv, ReaderInv, Idle
<1>4. RunningTracked'
  BY DEF TypeOK, CallInv, RunningTracked, Running, Tracked, Idle
<1> QED
  BY <1>1, <1>2, <1>3, <1>4

\* remove_workload and remove_workloads_by_manifest_id only note what to remove.
LEMMA RemoveBeginInv ==
    ASSUME IInv, call.step = "idle", NEW S \in SUBSET Id,
           call' = [Idle EXCEPT !.step = "removing", !.todo = S],
           UNCHANGED <<available, default, running, leftover, deployments, local_providers, reader>>
    PROVE  IInv'
<1> USE DEF IInv
<1>1. TypeOK'
  BY Zenon DEF TypeOK, Idle, Step
<1>2. CallInv'
  BY DEF CallInv, Idle
<1>3. ReaderInv'
  BY DEF ReaderInv, Idle
<1>4. RunningTracked'
  BY DEF RunningTracked, Running, Tracked, Idle
<1> QED
  BY <1>1, <1>2, <1>3, <1>4

\* The entry that a removal reads is one of the map's.
LEMMA RemoveReadInv == ASSUME IInv, NEW i \in Id, RemoveRead(i) PROVE IInv'
<1> USE DEF RemoveRead, IInv
<1>1. TypeOK'
  BY DEF TypeOK, Step
<1>2. CallInv'
  BY DEF TypeOK, CallInv, Tracked
<1>3. ReaderInv'
  BY DEF TypeOK, ReaderInv
<1>4. RunningTracked'
  BY DEF TypeOK, RunningTracked, Running, Tracked
<1> QED
  BY <1>1, <1>2, <1>3, <1>4

\* The engine's part of remove_workload: what it claims to have removed and
\* runs on is a leftover, what it fails to remove stays in the map.
LEMMA RemoveInEngineInv == ASSUME IInv, RemoveInEngine PROVE IInv'
<1> DEFINE e == call.target.engine
           m == call.target.manifest
<1>1. /\ call.step = "stopping" /\ call.target \in Id /\ e \in Registered /\ m \in Manifest
      /\ call.entry \in Entry
  BY DEF RemoveInEngine, IInv, CallInv, Id
<1>2. PICK out \in remove_workload(e, m, running[e]) :
          /\ running' = [running EXCEPT ![e] = out.run]
          /\ call' = [call EXCEPT !.step = IF out.ok THEN "stopped" ELSE "removing"]
          /\ leftover' = IF out.ok THEN LeftTo(call.target, out.run) ELSE leftover
  BY Zenon DEF RemoveInEngine
<1> HIDE DEF e, m
<1>3. running[e] \in SUBSET Manifest
  BY <1>1 DEF IInv, TypeOK
<1>4. /\ out.ok \in BOOLEAN /\ out.run \in SUBSET running[e]
      /\ \A x : x # m => (x \in out.run <=> x \in running[e])
  <2>1. \A run \in SUBSET Manifest : \A o \in remove_workload(e, m, run) :
            /\ o.ok \in BOOLEAN
            /\ o.run \in SUBSET run
            /\ \A x : x # m => (x \in o.run <=> x \in run)
    BY <1>1, RemoveOutcome, Zenon
  <2>2. \A o \in remove_workload(e, m, running[e]) :
            /\ o.ok \in BOOLEAN
            /\ o.run \in SUBSET running[e]
            /\ \A x : x # m => (x \in o.run <=> x \in running[e])
    BY <1>3, <2>1, Zenon
  <2> QED
    BY <2>2, Zenon
<1>5. UNCHANGED <<available, default, deployments, local_providers, reader>>
  BY DEF RemoveInEngine
<1>6. TypeOK'
  BY <1>1, <1>2, <1>3, <1>4, <1>5 DEF IInv, TypeOK, Step, LeftTo
<1>7. CallInv'
  <2>1. call'.step = "stopped" => call'.target \notin Running' \ leftover'
    BY <1>1, <1>2, <1>4 DEF IInv, TypeOK, Running, LeftTo, e, m
  <2> QED
    BY <1>1, <1>2, <1>4, <2>1 DEF IInv, TypeOK, CallInv
<1>8. ReaderInv'
  BY <1>1, <1>2, <1>5 DEF IInv, TypeOK, ReaderInv
<1>9. RunningTracked'
  <2>1. SUFFICES ASSUME NEW i \in Running' \ leftover' PROVE i \in Tracked
    BY <1>5 DEF RunningTracked, Tracked
  <2>2. i \in Id /\ i \notin leftover
    BY <1>1, <1>2, <1>4, <2>1 DEF Running, LeftTo, IInv, TypeOK, e, m
  <2>3. i.manifest \in running[i.engine]
    BY <1>1, <1>2, <1>4, <2>1, <2>2 DEF IInv, TypeOK, Running, Id, e, m
  <2> QED
    BY <1>1, <2>2, <2>3 DEF IInv, RunningTracked, Running
<1> QED
  BY <1>5, <1>6, <1>7, <1>8, <1>9 DEF IInv

\* The end of remove_workload: the workload is out of the engine's care or a
\* leftover when it leaves the map.
LEMMA RemoveForgetInv == ASSUME IInv, RemoveForget PROVE IInv'
<1> USE DEF RemoveForget, IInv
<1>1. call.step = "stopped" /\ call.target \in Id
  BY DEF CallInv
<1>2. local_providers' \in SUBSET Manifest
  BY DEF TypeOK
<1>3. Tracked' = Tracked \ {call.target}
  BY <1>1 DEF TypeOK, Tracked
<1>4. TypeOK'
  BY <1>1, <1>2, Zenon DEF TypeOK, Step
<1>5. CallInv'
  BY <1>1 DEF TypeOK, CallInv
<1>6. ReaderInv'
  BY DEF ReaderInv
<1>7. RunningTracked'
  BY <1>1, <1>3 DEF TypeOK, CallInv, RunningTracked, Running
<1> QED
  BY <1>4, <1>5, <1>6, <1>7

\* A removal returns.
LEMMA RemoveReturnInv == ASSUME IInv, RemoveReturn PROVE IInv'
<1> USE DEF RemoveReturn, IInv
<1>1. TypeOK'
  BY DEF TypeOK, Idle, Step
<1>2. CallInv'
  BY DEF CallInv, Idle
<1>3. ReaderInv'
  BY DEF ReaderInv, Idle
<1>4. RunningTracked'
  BY DEF RunningTracked, Running, Tracked, Idle
<1> QED
  BY <1>1, <1>2, <1>3, <1>4

\* get_workload_status up to the engine's answer changes the reader only.
LEMMA StatusReadInv == ASSUME IInv, NEW r \in Reader, NEW i \in Id, StatusRead(r, i) PROVE IInv'
<1> USE DEF StatusRead, IInv
<1>1. deployments[i] \in Entry
  BY DEF TypeOK, Tracked
<1>2. TypeOK'
  BY <1>1 DEF TypeOK
<1>3. ReaderInv'
  BY <1>1 DEF TypeOK, ReaderInv
<1>4. CallInv' /\ RunningTracked'
  BY DEF CallInv, RunningTracked, Running, Tracked
<1> QED
  BY <1>2, <1>3, <1>4

\* The engine's answer to get_workload_status.
LEMMA StatusAskInv == ASSUME IInv, NEW r \in Reader, StatusAsk(r) PROVE IInv'
<1> USE DEF StatusAsk, IInv
<1>1. PICK ok : reader' = [reader EXCEPT ![r] = IF ok THEN [@ EXCEPT !.step = "storing"]
                                               ELSE NotReading]
  BY Zenon
<1>2. TypeOK'
  BY <1>1 DEF TypeOK, NotReading
<1>3. ReaderInv'
  BY <1>1 DEF TypeOK, ReaderInv, NotReading
<1>4. CallInv' /\ RunningTracked'
  BY DEF CallInv, RunningTracked, Running, Tracked
<1> QED
  BY <1>2, <1>3, <1>4

\* The refresh of get_workload_status puts a real entry into the map, even of a
\* workload that has left it.
LEMMA StatusStoreInv == ASSUME IInv, NEW r \in Reader, StatusStore(r) PROVE IInv'
<1> USE DEF StatusStore, IInv
<1> DEFINE t == reader[r].target
<1>1. t \in Id /\ reader[r].entry \in Entry
  BY DEF ReaderInv
<1>2. reader[r].entry # None
  BY <1>1, ManagerAssumption
<1> HIDE DEF t
<1>3. Tracked' = Tracked \union {t}
  BY <1>1, <1>2 DEF TypeOK, Tracked, t
<1>4. TypeOK'
  BY <1>1, Zenon DEF TypeOK, NotReading
<1>5. ReaderInv'
  BY DEF TypeOK, ReaderInv, NotReading
<1>6. CallInv' /\ RunningTracked'
  BY <1>3 DEF CallInv, RunningTracked, Running
<1> QED
  BY <1>4, <1>5, <1>6

\* An engine's command comes or goes.
LEMMA EngineChangeInv == ASSUME IInv, EngineChange PROVE IInv'
<1> USE DEF EngineChange, IInv
<1>1. TypeOK'
  BY DEF TypeOK
<1>2. CallInv' /\ ReaderInv'
  BY DEF CallInv, ReaderInv, Running
<1>3. RunningTracked'
  BY DEF RunningTracked, Running, Tracked
<1> QED
  BY <1>1, <1>2, <1>3

\* A workload ends on its own.
LEMMA ContainerGoneInv == ASSUME IInv, NEW i \in Id, ContainerGone(i) PROVE IInv'
<1> USE DEF ContainerGone, IInv
<1>1. i.engine \in Registered /\ i.manifest \in Manifest
  BY DEF Id
<1>2. TypeOK'
  BY <1>1 DEF TypeOK
<1>3. Running' \ leftover' \subseteq Running \ leftover
  <2>1. SUFFICES ASSUME NEW j \in Running', j \notin leftover' PROVE j \in Running \ leftover
    OBVIOUS
  <2>2. j \in Id /\ j.manifest \in running[j.engine]
    BY <1>1, <2>1 DEF TypeOK, Running, Id
  <2>3. j # i
    BY <1>1, <2>1 DEF TypeOK, Running
  <2> QED
    BY <2>1, <2>2, <2>3 DEF Running
<1>4. CallInv' /\ ReaderInv'
  BY <1>3 DEF CallInv, ReaderInv
<1>5. RunningTracked'
  BY <1>3 DEF RunningTracked, Tracked
<1> QED
  BY <1>2, <1>4, <1>5

\* Every step keeps the invariant.
LEMMA NextInv == IInv /\ [Next]_vars => IInv'
<1> SUFFICES ASSUME IInv, [Next]_vars PROVE IInv'
  OBVIOUS
<1>1. ASSUME NEW m \in Manifest, NEW c \in Content, DeployBegin(m, c) PROVE IInv'
  BY <1>1, DeployBeginInv
<1>2. CASE DeployChoose \/ DeployInEngine \/ DeployRecord \/ DeployAnnounce
  BY <1>2, DeployChooseInv, DeployInEngineInv, DeployRecordInv, DeployAnnounceInv
<1>3. ASSUME NEW i \in Id, RemoveBegin(i) PROVE IInv'
  <2>1. {i} \in SUBSET Id
    BY Zenon
  <2> QED
    BY <1>3, <2>1, RemoveBeginInv DEF RemoveBegin
<1>4. ASSUME NEW m \in Manifest, RemoveAllBegin(m) PROVE IInv'
  <2>1. {i \in Tracked : i.manifest = m} \in SUBSET Id
    BY DEF Tracked
  <2> QED
    BY <1>4, <2>1, RemoveBeginInv, Zenon DEF RemoveAllBegin
<1>5. ASSUME NEW i \in Id, RemoveRead(i) PROVE IInv'
  BY <1>5, RemoveReadInv
<1>6. CASE RemoveInEngine \/ RemoveForget \/ RemoveReturn
  BY <1>6, RemoveInEngineInv, RemoveForgetInv, RemoveReturnInv
<1>7. ASSUME NEW r \in Reader, NEW i \in Id, StatusRead(r, i) PROVE IInv'
  BY <1>7, StatusReadInv
<1>8. ASSUME NEW r \in Reader, StatusAsk(r) \/ StatusStore(r) PROVE IInv'
  BY <1>8, StatusAskInv, StatusStoreInv
<1>9. CASE EngineChange
  BY <1>9, EngineChangeInv
<1>10. ASSUME NEW i \in Id, ContainerGone(i) PROVE IInv'
  BY <1>10, ContainerGoneInv
<1>11. CASE UNCHANGED vars
  BY <1>11 DEF vars, IInv, TypeOK, CallInv, ReaderInv, RunningTracked, Running, Tracked
<1> QED
  BY <1>1, <1>2, <1>3, <1>4, <1>5, <1>6, <1>7, <1>8, <1>9, <1>10, <1>11 DEF Next, CallStep

\* The inductive invariant holds of every behaviour of the workload manager.
THEOREM Invariant == Spec => []IInv
BY InitInv, NextInv, PTL DEF Spec

\* The workload manager keeps its types: in particular a call only ever
\* targets an engine of the registry (get_runtime_engine).
THEOREM TypeCorrect == Spec => []TypeOK
<1>1. IInv => TypeOK
  BY DEF IInv
<1> QED
  BY <1>1, Invariant, PTL

\* Whatever fails, and however status refreshes interleave with deployments
\* and removals, a running workload is in the map, on its way into it, or one
\* that its engine disowned (deploy_workload, remove_workload).
THEOREM RunningAlwaysTracked == Spec => []RunningTracked
<1>1. IInv => RunningTracked
  BY DEF IInv
<1> QED
  BY <1>1, Invariant, PTL

-----------------------------------------------------------------------------
(* The agents of a workload's pods *)

\* Only a pod that finished its start has created a cluster.
ClusterStarted == \A p \in Pod : raft[p] = "cluster" => pod[p] \in {"serving", "healing", "dead"}

\* The inductive invariant: a newcomer whose record is in the DHT and that finds at
\* most one finds only its own, so no live pod with a record created a cluster.
ClusterInv ==
    /\ AgentTypeOK
    /\ Complete => ClusterStarted /\ SingleCluster

\* The DHT's records form a finite set with a natural cardinality.
LEMMA RecordFinite ==
    ASSUME record \in SUBSET Pod
    PROVE  IsFiniteSet(record) /\ Cardinality(record) \in Nat
BY AgentAssumption, FS_Subset, FS_CardinalityType

\* So does whatever a lookup returns.
LEMMA LookupFinite ==
    ASSUME record \in SUBSET Pod, NEW found \in Lookup
    PROVE  Cardinality(found) \in Nat
<1>1. found \in SUBSET record
  BY DEF Lookup
<1>2. found \in SUBSET Pod
  BY <1>1
<1> QED
  BY <1>2, AgentAssumption, FS_Subset, FS_CardinalityType

\* A finite set of cardinality at most one has no two elements.
LEMMA AtMostOne ==
    ASSUME NEW S, IsFiniteSet(S), Cardinality(S) <= 1, NEW x \in S, NEW y \in S
    PROVE  x = y
<1>1. SUFFICES ASSUME x # y PROVE FALSE
  OBVIOUS
<1>2. IsFiniteSet(S \ {x}) /\ Cardinality(S \ {x}) = Cardinality(S) - 1
  BY FS_RemoveElement
<1>3. Cardinality(S) \in Nat /\ Cardinality(S \ {x}) \in Nat
  BY <1>2, FS_CardinalityType
<1>4. Cardinality(S \ {x}) = 0
  BY <1>2, <1>3
<1>5. S \ {x} = {}
  BY <1>2, <1>4, FS_EmptySet
<1> QED
  BY <1>1, <1>5

\* The invariant holds when the first pods start.
LEMMA ClusterInit == AgentInit => ClusterInv
BY AgentAssumption DEF AgentInit, ClusterInv, AgentTypeOK, Stage, ClusterStarted,
   SingleCluster, Live

\* NewWorkload's registration adds the pod's record.
LEMMA RegisterStep ==
    ASSUME ClusterInv, NEW p \in Pod, Register(p) \/ RegisterFails(p)
    PROVE  ClusterInv'
<1>0. AgentTypeOK
  BY Zenon DEF ClusterInv
<1>1. CASE Register(p)
  <2>1. AgentTypeOK'
    BY <1>0, <1>1, AgentAssumption DEF Register, AgentTypeOK, Stage
  <2>3. ClusterStarted => ClusterStarted'
    BY <1>0, <1>1 DEF Register, AgentTypeOK, ClusterStarted
  <2>4. ClusterStarted /\ SingleCluster => SingleCluster'
    BY <1>0, <1>1 DEF Register, AgentTypeOK, ClusterStarted, SingleCluster, Live
  <2> QED BY <2>1, <2>3, <2>4, Zenon DEF ClusterInv
<1>2. CASE RegisterFails(p)
  <2>1. AgentTypeOK'
    BY <1>0, <1>2, AgentAssumption DEF RegisterFails, AgentTypeOK, Stage
  <2>3. ClusterStarted => ClusterStarted'
    BY <1>0, <1>2 DEF RegisterFails, AgentTypeOK, ClusterStarted
  <2>4. ClusterStarted /\ SingleCluster => SingleCluster'
    BY <1>0, <1>2 DEF RegisterFails, AgentTypeOK, ClusterStarted, SingleCluster, Live
  <2> QED BY <2>1, <2>3, <2>4, Zenon DEF ClusterInv
<1> QED
  BY <1>1, <1>2

\* A pod that creates a cluster and has its record found only itself: any live pod
\* with a cluster and a record would have been found too.
LEMMA BootstrapStep ==
    ASSUME ClusterInv, NEW p \in Pod, BootstrapIfNeeded(p)
    PROVE  ClusterInv'
<1>1. AgentTypeOK'
  BY DEF BootstrapIfNeeded, ClusterInv, AgentTypeOK, Stage
<1>2. ASSUME Complete
      PROVE  ClusterStarted' /\ SingleCluster'
  <2>1. AgentTypeOK /\ ClusterStarted /\ SingleCluster
    BY <1>2 DEF ClusterInv
  <2>2. ClusterStarted'
    BY <2>1 DEF BootstrapIfNeeded, AgentTypeOK, Stage, ClusterStarted
  <2>3. ASSUME p \in record, NEW q \in record, q # p, raft'[p] = "cluster"
        PROVE  FALSE
    <3>1. Cardinality(record) <= 1
      BY <1>2, <2>1, <2>3 DEF BootstrapIfNeeded, Lookup, AgentTypeOK
    <3>2. IsFiniteSet(record)
      BY <2>1, RecordFinite DEF AgentTypeOK
    <3> QED
      BY <2>3, <3>1, <3>2, AtMostOne
  <2>4. record' = record /\ \A q \in Live' : q # p => q \in Live /\ raft'[q] = raft[q]
    BY <2>1 DEF BootstrapIfNeeded, AgentTypeOK, Live
  <2> QED
    BY <1>2, <2>1, <2>2, <2>3, <2>4 DEF SingleCluster
<1> QED
  BY <1>1, <1>2 DEF ClusterInv

\* A healing round starts with at least one and at most Replicas clones to post.
LEMMA CheckStep ==
    ASSUME ClusterInv, NEW p \in Pod, CheckAndHeal(p)
    PROVE  ClusterInv'
<1>1. PICK found \in Lookup :
         /\ Cardinality(found) < desired[p]
         /\ deficit' = [deficit EXCEPT ![p] = desired[p] - Cardinality(found)]
  BY Zenon DEF CheckAndHeal
<1>2. Cardinality(found) \in Nat /\ desired[p] \in 1..Replicas
  BY <1>1, LookupFinite DEF ClusterInv, AgentTypeOK
<1>3. desired[p] - Cardinality(found) \in 1..Replicas
  BY <1>1, <1>2, AgentAssumption
<1> DEFINE k == desired[p] - Cardinality(found)
<1> HIDE DEF k
<1>4. k \in 1..Replicas /\ deficit' = [deficit EXCEPT ![p] = k]
  BY <1>1, <1>3 DEF k
<1>5. AgentTypeOK'
  BY <1>4, AgentAssumption DEF CheckAndHeal, ClusterInv, AgentTypeOK, Stage
<1>6. Complete => (ClusterStarted /\ SingleCluster)'
  BY DEF CheckAndHeal, ClusterInv, AgentTypeOK, ClusterStarted, SingleCluster, Live
<1> QED
  BY <1>5, <1>6 DEF ClusterInv

\* Posting a clone, or failing to, counts the round down.
LEMMA CloneStep ==
    ASSUME ClusterInv, NEW p \in Pod, PublishClone(p) \/ PublishFails(p)
    PROVE  ClusterInv'
<1>1. pod[p] = "healing" /\ NextClone(p) /\ UNCHANGED <<kind, desired, record, raft, failures>>
  BY DEF PublishClone, PublishFails
<1>2. tasks' \in 0..MaxTasks
  BY AgentAssumption DEF PublishClone, PublishFails, ClusterInv, AgentTypeOK
<1>3. AgentTypeOK'
  BY <1>1, <1>2, AgentAssumption DEF NextClone, ClusterInv, AgentTypeOK, Stage
<1>4. Complete => (ClusterStarted /\ SingleCluster)'
  BY <1>1 DEF NextClone, ClusterInv, AgentTypeOK, ClusterStarted, SingleCluster, Live
<1> QED
  BY <1>3, <1>4 DEF ClusterInv

\* New pods start without a record and without a cluster.
LEMMA PlaceStep ==
    ASSUME ClusterInv, NEW new \in SUBSET Pod, Place(new)
    PROVE  ClusterInv'
<1>1. AgentTypeOK'
  BY AgentAssumption DEF Place, ClusterInv, AgentTypeOK, Stage
<1>2. Complete => (ClusterStarted /\ SingleCluster)'
  BY DEF Place, ClusterInv, AgentTypeOK, ClusterStarted, SingleCluster, Live
<1> QED
  BY <1>1, <1>2 DEF ClusterInv

\* A pod's end, by a crash or by Close, leaves its record.
LEMMA EndStep ==
    ASSUME ClusterInv, NEW p \in Pod, Crash(p) \/ Close(p)
    PROVE  ClusterInv'
<1>1. CASE Crash(p)
  BY <1>1, AgentAssumption DEF Crash, ClusterInv, AgentTypeOK, Stage,
     ClusterStarted, SingleCluster, Live
<1>2. CASE Close(p)
  BY <1>2, AgentAssumption DEF Close, ClusterInv, AgentTypeOK, Stage,
     ClusterStarted, SingleCluster, Live
<1> QED
  BY <1>1, <1>2

\* A failed lookup and an expired record.
LEMMA OtherStep ==
    ASSUME ClusterInv, NEW p \in Pod, LookupFails(p) \/ Expire(p)
    PROVE  ClusterInv'
<1>1. CASE LookupFails(p)
  BY <1>1, AgentAssumption DEF LookupFails, ClusterInv, AgentTypeOK, Stage,
     ClusterStarted, SingleCluster, Live
<1>2. CASE Expire(p)
  BY <1>2, AgentAssumption DEF Expire, ClusterInv, AgentTypeOK, Stage,
     ClusterStarted, SingleCluster, Live
<1> QED
  BY <1>1, <1>2

\* A task that starts no pod changes none.
LEMMA CloneLostStep == ClusterInv /\ CloneLost => ClusterInv'
BY AgentAssumption DEF CloneLost, ClusterInv, AgentTypeOK, Stage, ClusterStarted,
   SingleCluster, Live

\* Every step of the pods, the machines and the DHT keeps the invariant.
LEMMA ClusterNext == ClusterInv /\ [AgentNext]_agentVars => ClusterInv'
<1> SUFFICES ASSUME ClusterInv, [AgentNext]_agentVars PROVE ClusterInv'
  OBVIOUS
<1>1. CASE UNCHANGED agentVars
  BY <1>1 DEF agentVars, ClusterInv, AgentTypeOK, ClusterStarted, SingleCluster, Live
<1>2. CASE CloneLost
  BY <1>2, CloneLostStep
<1>3. ASSUME NEW new \in SUBSET Pod, Place(new) PROVE ClusterInv'
  BY <1>3, PlaceStep
<1>4. ASSUME NEW p \in Pod,
             \/ Register(p) \/ RegisterFails(p)
             \/ BootstrapIfNeeded(p) \/ LookupFails(p)
             \/ CheckAndHeal(p) \/ PublishClone(p) \/ PublishFails(p)
             \/ Crash(p) \/ Close(p) \/ Expire(p)
      PROVE  ClusterInv'
  BY <1>4, RegisterStep, BootstrapStep, CheckStep, CloneStep, EndStep, OtherStep
<1> QED
  BY <1>1, <1>2, <1>3, <1>4 DEF AgentNext

\* The types are kept, and the facts the single cluster rests on.
THEOREM ClusterKept == AgentSpec => []ClusterInv
BY ClusterInit, ClusterNext, PTL DEF AgentSpec

\* However many pods start at once: with complete lookups at most one of the live
\* pods whose records last has created a cluster (BootstrapIfNeeded).
THEOREM OneClusterAtMost == AgentSpec => []SingleCluster
<1>1. ClusterInv => SingleCluster
  BY DEF ClusterInv, SingleCluster
<1> QED
  BY <1>1, ClusterKept, PTL

\* The agents keep their types, and a pod is healing exactly while its round has
\* clones to publish (checkAndHeal).
THEOREM AgentsTypeCorrect == AgentSpec => []AgentTypeOK
<1>1. ClusterInv => AgentTypeOK
  BY DEF ClusterInv
<1> QED
  BY <1>1, ClusterKept, PTL

================================================================================
