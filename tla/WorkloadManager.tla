----------------------------- MODULE WorkloadManager -----------------------------
(***************************************************************************)
(* The workload manager (workload_manager.rs): it deploys manifests in a   *)
(* runtime engine, keeps a map of the workloads it deployed and announces  *)
(* their manifests through its provider manager.                           *)
(*                                                                         *)
(* deploy_workload, remove_workload and remove_workloads_by_manifest_id    *)
(* borrow the swarm exclusively, so one of them runs at a time: `call' is  *)
(* the one that has the swarm.  get_workload_status needs no swarm: every  *)
(* reader may be between its steps while a call runs.  A call and a reader *)
(* are interrupted where they await the engine, and at the locks of the    *)
(* map.                                                                    *)
(***************************************************************************)
EXTENDS RuntimeEngines

CONSTANTS
    Manifest,
    Reader,
    Preferred,    \* preferred_runtime of the configuration, an engine or "none"
    None

Id == [engine : Registered, manifest : Manifest]

\* What the map says of a workload; its engine and manifest are in its key.
Entry == [announced_as_provider : BOOLEAN]

ASSUME ManagerAssumption ==
    /\ {"podman", "docker"} \subseteq Registered
    /\ Preferred \in Engine \union {"none"}
    /\ None \notin Id \union Entry \union Content \union Manifest

\* get_runtime_engine; "none" is its error.
RuntimeEngine(default, available) ==
    IF Preferred \in available THEN Preferred
    ELSE IF default \in available THEN default ELSE "none"

VARIABLES
    available,        \* the engines whose commands answer
    default,          \* the registry's default engine
    running,          \* the manifests that have containers, for each engine
    leftover,         \* history: workloads an engine claims to be rid of, or
                      \* failed to deploy, but runs
    deployments,      \* the map: an entry, or None
    local_providers,  \* the manifests the provider manager announces
    call,             \* the call that has the swarm
    reader            \* the callers of get_workload_status

vars == <<available, default, running, leftover, deployments, local_providers, call, reader>>

Idle == [step |-> "idle", manifest |-> None, content |-> None, target |-> None,
         entry |-> None, todo |-> {}, removed |-> {}]
NotReading == [step |-> "idle", target |-> None, entry |-> None]

Init ==
    /\ available \in Availability
    /\ default = DefaultEngine(available)
    /\ running = [e \in Registered |-> {}]
    /\ leftover = {}
    /\ deployments = [i \in Id |-> None]
    /\ local_providers = {}
    /\ call = Idle
    /\ reader = [r \in Reader |-> NotReading]

Tracked == {i \in Id : deployments[i] # None}
Running == {i \in Id : i.manifest \in running[i.engine]}

\* The history after an operation that leaves i to nobody's care if it runs on.
LeftTo(i, run) ==
    IF i.manifest \in run THEN leftover \union {i} ELSE leftover \ {i}

\* deploy_workload: the manifest is validated by the engine of the moment;
\* without one, or if it refuses, the call ends with an error.
DeployBegin(m, content) ==
    /\ call.step = "idle"
    /\ validate_manifest(RuntimeEngine(default, available), content)
    /\ call' = [Idle EXCEPT !.step = "validated", !.manifest = m, !.content = content]
    /\ UNCHANGED <<available, default, running, leftover, deployments, local_providers, reader>>

Unchecked_DeployChoose ==
    /\ call.step = "validated"
    /\ call' = [call EXCEPT !.step = "chosen",
                            !.target = [engine |-> RuntimeEngine(default, available),
                                        manifest |-> call.manifest]]
    /\ UNCHANGED <<available, default, running, leftover, deployments, local_providers, reader>>

\* The engine is chosen anew.
DeployChoose ==
    /\ call.step = "validated"
    /\ LET e == RuntimeEngine(default, available)
       IN  call' = IF e = "none" THEN Idle
                   ELSE [call EXCEPT !.step = "chosen",
                                     !.target = [engine |-> e, manifest |-> call.manifest]]
    /\ UNCHANGED <<available, default, running, leftover, deployments, local_providers, reader>>

\* The engine deploys, or fails and the call with it.
DeployInEngine ==
    /\ call.step = "chosen"
    /\ LET e == call.target.engine
           m == call.target.manifest
       IN  \E out \in deploy_workload(e, call.content, m, running[e]) :
              /\ running' = [running EXCEPT ![e] = out.run]
              /\ call' = IF out.ok THEN [call EXCEPT !.step = "deployed"] ELSE Idle
              /\ leftover' = IF out.ok \/ call.target \in Tracked THEN leftover \ {call.target}
                             ELSE LeftTo(call.target, out.run)
    /\ UNCHANGED <<available, default, deployments, local_providers, reader>>

\* The workload enters the map.
DeployRecord ==
    /\ call.step = "deployed"
    /\ deployments' = [deployments EXCEPT ![call.target] = [announced_as_provider |-> FALSE]]
    /\ call' = [call EXCEPT !.step = "recorded"]
    /\ UNCHANGED <<available, default, running, leftover, local_providers, reader>>

\* Its manifest is announced, in the provider manager's own map even if the
\* DHT refuses.  The flag is set only in the copy of the entry that is returned.
DeployAnnounce ==
    /\ call.step = "recorded"
    /\ local_providers' = local_providers \union {call.target.manifest}
    /\ call' = Idle
    /\ UNCHANGED <<available, default, running, leftover, deployments, reader>>

\* remove_workload: one workload, tracked or not.
RemoveBegin(i) ==
    /\ call.step = "idle"
    /\ call' = [Idle EXCEPT !.step = "removing", !.todo = {i}]
    /\ UNCHANGED <<available, default, running, leftover, deployments, local_providers, reader>>

\* remove_workloads_by_manifest_id: the tracked workloads of the manifest; with
\* none the call ends at once.
RemoveAllBegin(m) ==
    /\ call.step = "idle"
    /\ {i \in Tracked : i.manifest = m} # {}
    /\ call' = [Idle EXCEPT !.step = "removing", !.todo = {i \in Tracked : i.manifest = m}]
    /\ UNCHANGED <<available, default, running, leftover, deployments, local_providers, reader>>

\* The entry of the next workload is read; one that is not tracked is an error.
RemoveRead(i) ==
    /\ call.step = "removing" /\ i \in call.todo
    /\ call' = IF i \in Tracked
               THEN [call EXCEPT !.step = "stopping", !.todo = @ \ {i},
                                 !.target = i, !.entry = deployments[i]]
               ELSE [call EXCEPT !.todo = @ \ {i}]
    /\ UNCHANGED <<available, default, running, leftover, deployments, local_providers, reader>>

Retry_RemoveInEngine ==
    /\ call.step = "stopping"
    /\ LET e == call.target.engine
           m == call.target.manifest
       IN  \E out \in remove_workload(e, m, running[e]) :
              /\ running' = [running EXCEPT ![e] = out.run]
              /\ call' = IF out.ok THEN [call EXCEPT !.step = "stopped"]
                         ELSE [call EXCEPT !.step = "removing", !.todo = @ \union {call.target}]
              /\ leftover' = IF out.ok THEN LeftTo(call.target, out.run) ELSE leftover
    /\ UNCHANGED <<available, default, deployments, local_providers, reader>>

Ignored_RemoveInEngine ==
    /\ call.step = "stopping"
    /\ LET e == call.target.engine
           m == call.target.manifest
       IN  \E out \in remove_workload(e, m, running[e]) :
              /\ running' = [running EXCEPT ![e] = out.run]
              /\ call' = [call EXCEPT !.step = "stopped"]
              /\ leftover' = IF out.ok THEN LeftTo(call.target, out.run) ELSE leftover
    /\ UNCHANGED <<available, default, deployments, local_providers, reader>>

\* The engine removes it; its error is this workload's error.
RemoveInEngine ==
    /\ call.step = "stopping"
    /\ LET e == call.target.engine
           m == call.target.manifest
       IN  \E out \in remove_workload(e, m, running[e]) :
              /\ running' = [running EXCEPT ![e] = out.run]
              /\ call' = [call EXCEPT !.step = IF out.ok THEN "stopped" ELSE "removing"]
              /\ leftover' = IF out.ok THEN LeftTo(call.target, out.run) ELSE leftover
    /\ UNCHANGED <<available, default, deployments, local_providers, reader>>

\* The announcement is stopped if the entry has the flag, which the map's entries
\* never have (DeployAnnounce), and the workload leaves the map.
RemoveForget ==
    /\ call.step = "stopped"
    /\ local_providers' = IF call.entry.announced_as_provider
                          THEN local_providers \ {call.target.manifest} ELSE local_providers
    /\ deployments' = [deployments EXCEPT ![call.target] = None]
    /\ call' = [call EXCEPT !.step = "removing", !.removed = @ \union {call.target}]
    /\ UNCHANGED <<available, default, running, leftover, reader>>

\* The call returns what it removed.
RemoveReturn ==
    /\ call.step = "removing" /\ call.todo = {}
    /\ call' = [Idle EXCEPT !.removed = call.removed]
    /\ UNCHANGED <<available, default, running, leftover, deployments, local_providers, reader>>

\* get_workload_status: the entry is read; without one the call is an error.
StatusRead(r, i) ==
    /\ reader[r].step = "idle" /\ i \in Tracked
    /\ reader' = [reader EXCEPT ![r] = [step |-> "asking", target |-> i, entry |-> deployments[i]]]
    /\ UNCHANGED <<available, default, running, leftover, deployments, local_providers, call>>

\* The engine is asked; if it cannot tell the cached entry is returned.
StatusAsk(r) ==
    /\ reader[r].step = "asking"
    /\ LET e == reader[r].target.engine
       IN  \E ok \in get_workload_status(e, reader[r].target.manifest, running[e]) :
              reader' = [reader EXCEPT ![r] = IF ok THEN [@ EXCEPT !.step = "storing"]
                                              ELSE NotReading]
    /\ UNCHANGED <<available, default, running, leftover, deployments, local_providers, call>>

\* The refreshed entry is put into the map, in the place of whatever is there.
StatusStore(r) ==
    /\ reader[r].step = "storing"
    /\ deployments' = [deployments EXCEPT ![reader[r].target] = reader[r].entry]
    /\ reader' = [reader EXCEPT ![r] = NotReading]
    /\ UNCHANGED <<available, default, running, leftover, local_providers, call>>

\* An engine's command starts or stops answering.
EngineChange ==
    /\ available' \in Availability \ {available}
    /\ UNCHANGED <<default, running, leftover, deployments, local_providers, call, reader>>

\* A workload ends on its own; not in the mock, which nothing else touches.
ContainerGone(i) ==
    /\ i \in Running /\ i.engine # "mock"
    /\ running' = [running EXCEPT ![i.engine] = @ \ {i.manifest}]
    /\ leftover' = leftover \ {i}
    /\ UNCHANGED <<available, default, deployments, local_providers, call, reader>>

CallStep ==
    \/ DeployChoose \/ DeployInEngine \/ DeployRecord \/ DeployAnnounce
    \/ RemoveInEngine \/ RemoveForget \/ RemoveReturn
    \/ \E i \in Id : RemoveRead(i)

Next ==
    \/ CallStep
    \/ \E m \in Manifest : RemoveAllBegin(m) \/ \E c \in Content : DeployBegin(m, c)
    \/ \E i \in Id : RemoveBegin(i) \/ ContainerGone(i) \/ \E r \in Reader : StatusRead(r, i)
    \/ \E r \in Reader : StatusAsk(r) \/ StatusStore(r)
    \/ EngineChange

Spec == Init /\ [][Next]_vars

\* The commands of the engines end; a call then goes on.
FairSpec == Spec /\ WF_vars(CallStep)
----------------------------------------------------------------------------------
Step == {"idle", "validated", "chosen", "deployed", "recorded", "removing", "stopping", "stopped"}

\* Types; a call only targets an engine the registry has (get_runtime_engine).
TypeOK ==
    /\ available \in Availability
    /\ default \in Registered
    /\ running \in [Registered -> SUBSET Manifest]
    /\ leftover \in SUBSET Id
    /\ deployments \in [Id -> Entry \union {None}]
    /\ local_providers \in SUBSET Manifest
    /\ call \in [step : Step, manifest : Manifest \union {None},
                 content : Content \union {None}, target : Id \union {None},
                 entry : Entry \union {None}, todo : SUBSET Id, removed : SUBSET Id]
    /\ reader \in [Reader -> [step : {"idle", "asking", "storing"},
                              target : Id \union {None}, entry : Entry \union {None}]]

\* Every workload that runs is in the map, on its way into it, or one that the
\* engine claims to be rid of or failed to deploy: no error path and no order
\* of calls and refreshes makes the manager lose sight of a workload that it
\* could still remove (deploy_workload, remove_workload, get_workload_status).
RunningTracked ==
    \A i \in Running \ leftover :
        i \in Tracked \/ (call.step = "deployed" /\ call.target = i)

\* A call gives the swarm back, however many of its removals fail
\* (remove_workloads_by_manifest_id goes on after an error).
SwarmReleased == call.step # "idle" ~> call.step = "idle"
==================================================================================
