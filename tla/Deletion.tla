------------------------------ MODULE Deletion ------------------------------
(***************************************************************************)
(* How a manifest is taken off the mesh: delete_task (restapi/mod.rs) looks*)
(* up the manifest's providers in the DHT, removes the workloads of its own*)
(* node and forwards the request to the other providers; a node that gets a*)
(* signed request checks the owner and removes in a task of its own        *)
(* (behaviour/delete_message.rs).  Applies go on meanwhile: a node's event *)
(* loop records the owner, awaits the runtime and announces the node.      *)
(*                                                                         *)
(* There is one manifest, so a workload goes by the name of its engine; the*)
(* engines answer as in RuntimeEngines, success without the effect         *)
(* included.  create_task writes the owner map as well.                    *)
(*                                                                         *)
(* Removals run beside the event loop, so each of their awaits is a step.  *)
(* Timeouts may fire whenever they are armed, since a deployment may keep  *)
(* an event loop busy for any length of time.  A node takes a new peer id  *)
(* at every start; its workloads survive it.                               *)
(***************************************************************************)
EXTENDS Naturals, Sequences, FiniteSets, RuntimeEngines

CONSTANTS
    Node,       \* machines of the mesh
    Key,        \* keys that sign applies and delete requests
    Request,    \* delete_task calls
    Entry,      \* the node whose REST API a call goes to
    Signed,     \* signed delete requests: [to : Node, key : Key, force : BOOLEAN]
    NoOwner,    \* no entry in MANIFEST_OWNER_MAP, and the empty key of a request
    MaxApplies, \* bound on applies and creations
    MaxBoots,   \* bound on restarts of a node
    Lossy       \* whether the network may lose messages

ASSUME DeletionAssumption ==
    /\ Entry \in [Request -> Node]
    /\ Signed \subseteq [to : Node, key : Key, force : BOOLEAN]
    /\ Request \cap Signed = {}
    /\ NoOwner \notin Key
    /\ MaxApplies \in Nat /\ MaxBoots \in Nat
    /\ Lossy \in BOOLEAN

VARIABLES
    running,    \* engines of each node that hold a workload of the manifest
    owner,      \* MANIFEST_OWNER_MAP of each node
    loop,       \* the engine each event loop is deploying to, or Idle
    boot,       \* restarts of each node
    dht,        \* provider records
    applies,    \* applies and creations handled so far
    control,    \* control messages queued for each event loop
    pending,    \* requests with an outstanding provider query
    net,        \* delete requests between nodes
    phase,      \* where delete_task is
    targets,    \* providers it has not turned to yet
    current,    \* the provider it waits for
    hit,        \* whether successful_deletes is non-empty
    task        \* the removal each request has started

vars == <<running, owner, loop, boot, dht, applies, control, pending, net,
          phase, targets, current, hit, task>>

nodeVars == <<running, owner, loop, boot, dht, applies>>
restVars == <<phase, targets, current, hit>>

Peer == [node : Node, boot : 0..MaxBoots]

Self(n) == [node |-> n, boot |-> boot[n]]

NoPeer == [node |-> "none", boot |-> 0]

Phase == {"new", "finding", "identifying", "next", "sending", "removing", "ok", "failed"}

Control == [kind : {"find", "whoami", "send"}, req : Request, to : Peer]

TaskId == Request \cup Signed

TaskNode(t) == IF t \in Request THEN Entry[t] ELSE t.to

\* todo: engines not listed yet; found: those with a workload to remove.  History,
\* newer: engines deployed to since they were listed; missed: engines that reported
\* no error and no workload, or a removal, while their workload runs on.
Task == [pc : {"none", "sent", "verify", "engines", "owner", "done", "denied", "killed"},
         todo : SUBSET Registered, found : SUBSET Registered, errors : BOOLEAN,
         newer : SUBSET Registered, missed : SUBSET Registered]

\* The request between nodes; an unsigned one is in no envelope.
DeleteRequest(id, p, signed) == [id |-> id, to |-> p, signed |-> signed]

NewTask(pc) ==
    [pc |-> pc, todo |-> Registered, found |-> {}, errors |-> FALSE,
     newer |-> {}, missed |-> {}]

Idle == "idle"

Free(n) == loop[n] = Idle

Init ==
    /\ running = [n \in Node |-> {}]
    /\ owner = [n \in Node |-> NoOwner]
    /\ loop = [n \in Node |-> Idle]
    /\ boot = [n \in Node |-> 0]
    /\ dht = {}
    /\ applies = 0
    /\ control = [n \in Node |-> <<>>]
    /\ pending = {}
    /\ net = {}
    /\ phase = [d \in Request |-> "new"]
    /\ targets = [d \in Request |-> {}]
    /\ current = [d \in Request |-> NoPeer]
    /\ hit = [d \in Request |-> FALSE]
    /\ task = [t \in TaskId |-> NewTask("none")]

-----------------------------------------------------------------------------
(* Applies and creations *)

\* The callers skip an empty key.
record_manifest_owner(n, k) == owner' = [owner EXCEPT ![n] = IF k = NoOwner THEN @ ELSE k]

Counted == applies < MaxApplies /\ applies' = applies + 1

\* process_manifest_deployment records the owner before it deploys; a node that
\* cannot load its own key applies its own manifests without one.
Apply(n, k, e) ==
    /\ Free(n) /\ Counted
    /\ record_manifest_owner(n, k)
    /\ loop' = [loop EXCEPT ![n] = e]
    /\ UNCHANGED <<running, boot, dht, control, pending, net, task>>
    /\ UNCHANGED restVars

\* create_task, beside the event loop: nothing is deployed yet.
CreateTask(n, k) ==
    /\ Counted
    /\ record_manifest_owner(n, k)
    /\ UNCHANGED <<running, loop, boot, dht, control, pending, net, task>>
    /\ UNCHANGED restVars

\* Removals that have listed the engine will not see what is deployed now.
Deployed(n, e) ==
    task' = [t \in TaskId |->
                IF TaskNode(t) = n /\ e \notin task[t].todo
                THEN [task[t] EXCEPT !.newer = @ \cup {e}] ELSE task[t]]

\* A deployment that fails keeps the owner; it may have gone through, or have
\* taken the old workload down.
FinishDeployment(n) ==
    LET e == loop[n]
    IN  /\ ~Free(n)
        /\ \E content \in Content : \E out \in deploy_workload(e, content, e, running[n]) :
              /\ running' = [running EXCEPT ![n] = out.run]
              /\ IF out.ok \/ out.run \ running[n] # {} THEN Deployed(n, e) ELSE UNCHANGED task
              /\ dht' = IF out.ok THEN dht \cup {Self(n)} ELSE dht
        /\ loop' = [loop EXCEPT ![n] = Idle]
        /\ UNCHANGED <<owner, boot, applies, control, pending, net>>
        /\ UNCHANGED restVars

-----------------------------------------------------------------------------
(* delete_task *)

Queue(n, kind, d, p) ==
    control' = [control EXCEPT ![n] = Append(@, [kind |-> kind, req |-> d, to |-> p])]

DeleteTask(d) ==
    /\ phase[d] = "new"
    /\ phase' = [phase EXCEPT ![d] = "finding"]
    /\ Queue(Entry[d], "find", d, Self(Entry[d]))
    /\ UNCHANGED <<targets, current, hit, pending, net, task>>
    /\ UNCHANGED nodeVars

\* The query fails, its sender is dropped or five seconds pass: no providers,
\* which counts as success.
NothingFound(d) ==
    /\ phase[d] = "finding"
    /\ phase' = [phase EXCEPT ![d] = "ok"]
    /\ UNCHANGED <<targets, current, hit, control, pending, net, task>>
    /\ UNCHANGED nodeVars

IdentifyTimedOut(d) ==
    /\ phase[d] = "identifying"
    /\ phase' = [phase EXCEPT ![d] = "failed"]
    /\ UNCHANGED <<targets, current, hit, control, pending, net, task>>
    /\ UNCHANGED nodeVars

\* The handler itself removes the workloads, beside the event loop.
handle_local_delete(d) == task' = [task EXCEPT ![d] = NewTask("engines")]

Spawned_DeleteLocally(d) ==
    LET self == Self(Entry[d])
    IN  /\ phase[d] = "next"
        /\ self \in targets[d]
        /\ targets' = [targets EXCEPT ![d] = @ \ {self}]
        /\ handle_local_delete(d)
        /\ UNCHANGED <<phase, current, hit, control, pending, net>>
        /\ UNCHANGED nodeVars

\* For the node's own record; the handler awaits the removal.
DeleteLocally(d) ==
    LET self == Self(Entry[d])
    IN  /\ phase[d] = "next"
        /\ self \in targets[d]
        /\ targets' = [targets EXCEPT ![d] = @ \ {self}]
        /\ phase' = [phase EXCEPT ![d] = "removing"]
        /\ handle_local_delete(d)
        /\ UNCHANGED <<current, hit, control, pending, net>>
        /\ UNCHANGED nodeVars

DeleteRemotely(d, p) ==
    /\ phase[d] = "next"
    /\ p \in targets[d] \ {Self(Entry[d])}
    /\ targets' = [targets EXCEPT ![d] = @ \ {p}]
    /\ current' = [current EXCEPT ![d] = p]
    /\ phase' = [phase EXCEPT ![d] = "sending"]
    /\ Queue(Entry[d], "send", d, p)
    /\ UNCHANGED <<hit, pending, net, task>>
    /\ UNCHANGED nodeVars

OnceHandled_SendTimedOut(d) ==
    /\ phase[d] = "sending"
    /\ control[Entry[d]] = <<>>
    /\ phase' = [phase EXCEPT ![d] = "next"]
    /\ UNCHANGED <<targets, current, hit, control, pending, net, task>>
    /\ UNCHANGED nodeVars

\* The provider is noted as failed; the queued message stays.
SendTimedOut(d) ==
    /\ phase[d] = "sending"
    /\ phase' = [phase EXCEPT ![d] = "next"]
    /\ UNCHANGED <<targets, current, hit, control, pending, net, task>>
    /\ UNCHANGED nodeVars

\* One provider that took the request is enough for success.
Respond(d) ==
    /\ phase[d] = "next"
    /\ targets[d] = {}
    /\ phase' = [phase EXCEPT ![d] = IF hit[d] THEN "ok" ELSE "failed"]
    /\ UNCHANGED <<targets, current, hit, control, pending, net, task>>
    /\ UNCHANGED nodeVars

-----------------------------------------------------------------------------
(* The event loop *)

NextControl(n, kind) ==
    /\ Free(n) /\ control[n] # <<>> /\ Head(control[n]).kind = kind
    /\ control' = [control EXCEPT ![n] = Tail(@)]

insert_pending_providers_query(d) == pending' = pending \cup {d}

take_pending_providers_query(d) == d \in pending /\ pending' = pending \ {d}

\* FindManifestHolders starts a provider query.
HandleFind(n) ==
    /\ NextControl(n, "find")
    /\ insert_pending_providers_query(Head(control[n]).req)
    /\ UNCHANGED <<net, task>>
    /\ UNCHANGED nodeVars
    /\ UNCHANGED restVars

\* Whoever still waits for providers gets the batch; delete_task goes on to ask
\* for the local peer id.
find_manifest_providers(d, batch) ==
    IF phase[d] = "finding"
    THEN /\ targets' = [targets EXCEPT ![d] = batch]
         /\ phase' = [phase EXCEPT ![d] = "identifying"]
         /\ Queue(Entry[d], "whoami", d, Self(Entry[d]))
    ELSE UNCHANGED <<targets, phase, control>>

\* The first batch of providers answers the query; later ones find no sender.
ProvidersFound(d, batch) ==
    /\ Free(Entry[d])
    /\ batch \subseteq dht /\ batch # {}
    /\ take_pending_providers_query(d)
    /\ find_manifest_providers(d, batch)
    /\ UNCHANGED <<current, hit, net, task>>
    /\ UNCHANGED nodeVars

HandleWhoami(n) ==
    LET d == Head(control[n]).req
    IN  /\ NextControl(n, "whoami")
        /\ phase' = IF phase[d] = "identifying" THEN [phase EXCEPT ![d] = "next"] ELSE phase
        /\ UNCHANGED <<targets, current, hit, pending, net, task>>
        /\ UNCHANGED nodeVars

\* The request goes out as it is, unsigned, and is reported as sent at once.
HandleSend(n) ==
    LET c == Head(control[n])
        waits == phase[c.req] = "sending" /\ current[c.req] = c.to
    IN  /\ NextControl(n, "send")
        /\ net' = net \cup {DeleteRequest(c.req, c.to, FALSE)}
        /\ phase' = IF waits THEN [phase EXCEPT ![c.req] = "next"] ELSE phase
        /\ hit' = IF waits THEN [hit EXCEPT ![c.req] = TRUE] ELSE hit
        /\ UNCHANGED <<targets, current, pending, task>>
        /\ UNCHANGED nodeVars

\* A peer that signs its delete requests.
PeerDelete(s) ==
    /\ task[s].pc = "none"
    /\ task' = [task EXCEPT ![s] = NewTask("sent")]
    /\ net' = net \cup {DeleteRequest(s, Self(s.to), TRUE)}
    /\ UNCHANGED <<control, pending>>
    /\ UNCHANGED nodeVars
    /\ UNCHANGED restVars

\* delete_message: without a valid envelope nothing happens; otherwise a task
\* is spawned.  The answers are only logged.
HandleDelete(msg) ==
    /\ msg \in net
    /\ msg.to = Self(msg.to.node) /\ Free(msg.to.node)
    /\ net' = net \ {msg}
    /\ task' = IF msg.signed THEN [task EXCEPT ![msg.id] = NewTask("verify")] ELSE task
    /\ UNCHANGED <<control, pending>>
    /\ UNCHANGED nodeVars
    /\ UNCHANGED restVars

\* A request to an earlier peer id of a node is always lost.
Lose(msg) ==
    /\ msg \in net
    /\ Lossy \/ msg.to # Self(msg.to.node)
    /\ net' = net \ {msg}
    /\ UNCHANGED <<control, pending, task>>
    /\ UNCHANGED nodeVars
    /\ UNCHANGED restVars

\* Memory and peer id are lost, workloads are not, but for the mock's; an
\* interrupted deployment may have gone through.
Restart(n) ==
    /\ boot[n] < MaxBoots
    /\ boot' = [boot EXCEPT ![n] = @ + 1]
    /\ \E begun \in SUBSET ({loop[n]} \ {Idle}) :
          running' = [running EXCEPT ![n] = (@ \cup begun) \ {"mock"}]
    /\ owner' = [owner EXCEPT ![n] = NoOwner]
    /\ loop' = [loop EXCEPT ![n] = Idle]
    /\ control' = [control EXCEPT ![n] = <<>>]
    /\ pending' = {d \in pending : Entry[d] # n}
    /\ phase' = [d \in Request |->
                    IF Entry[d] = n /\ phase[d] \notin {"new", "ok"} THEN "failed" ELSE phase[d]]
    /\ task' = [t \in TaskId |->
                   IF TaskNode(t) = n /\ task[t].pc \in {"verify", "engines", "owner"}
                   THEN NewTask("killed") ELSE task[t]]
    /\ UNCHANGED <<dht, applies, net, targets, current, hit>>

-----------------------------------------------------------------------------
(* remove_workloads_by_manifest_id, from process_delete_request or delete_task *)

\* verify_delete_ownership: force overrides another owner, not an unknown one.
Verify(t) ==
    LET known == owner[t.to]
    IN  /\ task[t].pc = "verify"
        /\ task' = [task EXCEPT ![t].pc =
                       IF known = t.key \/ (t.force /\ known # NoOwner)
                       THEN "engines" ELSE "denied"]
        /\ UNCHANGED <<control, pending, net>>
        /\ UNCHANGED nodeVars
        /\ UNCHANGED restVars

\* An engine's answer in the record of a removal; only a reported error is one.
Listed(r, e, here, out) ==
    [r EXCEPT !.todo = @ \ {e}, !.found = out.found, !.errors = @ \/ ~out.ok,
              !.missed = @ \cup {w \in here \ out.found : out.ok}]

Removed(r, e, out) ==
    [r EXCEPT !.found = @ \ {e}, !.errors = @ \/ ~out.ok,
              !.missed = @ \cup {w \in {e} \cap out.run : out.ok}]

\* Engines are listed one after the other; what a listing leaves out is not
\* removed.
ListWorkloads(t, e) ==
    LET here == {e} \cap running[TaskNode(t)]
    IN  /\ task[t].pc = "engines" /\ task[t].found = {} /\ e \in task[t].todo
        /\ \E out \in list_workloads(e, here) :
              task' = [task EXCEPT ![t] = Listed(@, e, here, out)]
        /\ UNCHANGED <<control, pending, net>>
        /\ UNCHANGED nodeVars
        /\ UNCHANGED restVars

RemoveWorkload(t, e) ==
    LET n == TaskNode(t)
    IN  /\ task[t].pc = "engines" /\ e \in task[t].found
        /\ \E out \in remove_workload(e, e, running[n]) :
              /\ running' = [running EXCEPT ![n] = out.run]
              /\ task' = [task EXCEPT ![t] = Removed(@, e, out)]
        /\ UNCHANGED <<owner, loop, boot, dht, applies, control, pending, net>>
        /\ UNCHANGED restVars

\* stop_providing only touches the node's own list; the record stays in the DHT.
StopProviding(t) ==
    /\ task[t].pc = "engines" /\ task[t].found = {} /\ task[t].todo = {}
    /\ task' = [task EXCEPT ![t].pc = "owner"]
    /\ UNCHANGED <<control, pending, net>>
    /\ UNCHANGED nodeVars
    /\ UNCHANGED restVars

remove_manifest_owner(n) == owner' = [owner EXCEPT ![n] = NoOwner]

Always_DropOwner(t) ==
    /\ task[t].pc = "owner"
    /\ task' = [task EXCEPT ![t] = NewTask("done")]
    /\ remove_manifest_owner(TaskNode(t))
    /\ phase' = IF t \in Request THEN [phase EXCEPT ![t] = "next"] ELSE phase
    /\ hit' = IF t \in Request THEN [hit EXCEPT ![t] = TRUE] ELSE hit
    /\ UNCHANGED <<running, loop, boot, dht, applies, control, pending, net, targets, current>>

\* The removal succeeds even with errors, but then keeps the owner.
DropOwner(t) ==
    /\ task[t].pc = "owner"
    /\ task' = [task EXCEPT ![t] = NewTask("done")]
    /\ IF task[t].errors THEN UNCHANGED owner ELSE remove_manifest_owner(TaskNode(t))
    /\ phase' = IF t \in Request THEN [phase EXCEPT ![t] = "next"] ELSE phase
    /\ hit' = IF t \in Request THEN [hit EXCEPT ![t] = TRUE] ELSE hit
    /\ UNCHANGED <<running, loop, boot, dht, applies, control, pending, net, targets, current>>

-----------------------------------------------------------------------------
RemovalStep(t) ==
    \/ t \in Signed /\ Verify(t)
    \/ \E e \in Registered : ListWorkloads(t, e) \/ RemoveWorkload(t, e)
    \/ StopProviding(t) \/ DropOwner(t)

RestStep(d) ==
    \/ NothingFound(d) \/ IdentifyTimedOut(d) \/ SendTimedOut(d)
    \/ DeleteLocally(d) \/ Respond(d)
    \/ \E p \in targets[d] : DeleteRemotely(d, p)

LoopStep(n) ==
    \/ HandleFind(n) \/ HandleWhoami(n) \/ HandleSend(n)
    \/ \E msg \in net : msg.to.node = n /\ HandleDelete(msg)

Next ==
    \/ \E n \in Node : \E k \in Key \cup {NoOwner} :
          CreateTask(n, k) \/ \E e \in Registered : Apply(n, k, e)
    \/ \E n \in Node : FinishDeployment(n) \/ LoopStep(n) \/ Restart(n)
    \/ \E d \in Request : DeleteTask(d) \/ RestStep(d)
    \/ \E d \in Request : \E batch \in SUBSET dht : ProvidersFound(d, batch)
    \/ \E s \in Signed : PeerDelete(s)
    \/ \E t \in TaskId : RemovalStep(t)
    \/ \E msg \in net : Lose(msg)

Spec == Init /\ [][Next]_vars

\* The REST handler goes on: its timers fire, and the engines answer the removal it
\* awaits.  Nothing is assumed of event loops, other removals and the network.
RestFairness == \A d \in Request : WF_vars(RestStep(d) \/ RemovalStep(d))

RestSpec == Spec /\ RestFairness

\* Besides, event loops take up what arrives, deployments and the removals of signed
\* requests come to an end.
FairSpec ==
    /\ RestSpec
    /\ \A s \in Signed : WF_vars(RemovalStep(s))
    /\ \A n \in Node : WF_vars(LoopStep(n)) /\ WF_vars(FinishDeployment(n))

-----------------------------------------------------------------------------
(* Properties *)

\* Types; delete_task waits for its own removal exactly while that is under way.
TypeOK ==
    /\ running \in [Node -> SUBSET Registered]
    /\ owner \in [Node -> Key \cup {NoOwner}]
    /\ loop \in [Node -> Registered \cup {Idle}]
    /\ boot \in [Node -> 0..MaxBoots]
    /\ dht \subseteq Peer
    /\ applies \in 0..MaxApplies
    /\ control \in [Node -> Seq(Control)]
    /\ pending \subseteq Request
    /\ net \subseteq [id : TaskId, to : Peer, signed : BOOLEAN]
    /\ phase \in [Request -> Phase]
    /\ targets \in [Request -> SUBSET Peer]
    /\ current \in [Request -> Peer \cup {NoPeer}]
    /\ hit \in [Request -> BOOLEAN]
    /\ task \in [TaskId -> Task]
    /\ \A d \in Request : phase[d] = "removing" <=> task[d].pc \in {"engines", "owner"}

OwnerDropped(n) == owner[n] # NoOwner /\ owner'[n] = NoOwner /\ boot'[n] = boot[n]

SweepFinished(n) ==
    \E t \in TaskId : /\ TaskNode(t) = n
                      /\ task[t].pc = "owner" /\ task'[t].pc = "done"
                      /\ running[n] \subseteq task[t].newer \cup task[t].missed

\* remove_workloads_by_manifest_id forgets the owner only when its sweep of the
\* engines was complete and met no error: what still runs was deployed behind its
\* back, or its engine hid it behind a success (Podman and Docker do).
OwnerDroppedAfterSweep == [][\A n \in Node : OwnerDropped(n) => SweepFinished(n)]_vars

\* delete_task answers whatever happens to event loops, peers and deployments,
\* as long as the engines answer: every wait for the event loop has a timeout.
DeletesEnd == \A d \in Request : phase[d] # "new" ~> phase[d] \in {"ok", "failed"}

\* A delete request that delete_task has sent to a provider ("Delete completed")
\* and that the network delivers takes the workloads off the provider.
DeleteReachesWorkloads ==
    \A n \in Node :
        (\E msg \in net : msg.id \in Request /\ msg.to = Self(n)) ~> running[n] = {}
=============================================================================
