# Verification of beemesh

TLA+ modules for beemesh: a mesh of machines that place workloads without a
central scheduler (`machineplane`, Rust) and the agents that run beside the
workloads (`workplane`, Go).  TLC checks small instances; TLAPS proves the
central results for every value of the constants.

## The system and what is modelled

| part | source | module | state |
|---|---|---|---|
| capacity arithmetic and reservation table | `machine/src/resource_verifier.rs` | `Capacity`, `ResourceVerifier` | modelled, proved |
| what the table promises | the same | `CapacityLedger` | abstract specification |
| candidate query, bids, apply, deployment | `cli/src/lib.rs`, `restapi/mod.rs`, `control/`, `behaviour/scheduler_message.rs`, `workload_integration.rs` | `Placement` | modelled, proved |
| delete: discovery, forwarding, owner check, removal | `restapi/mod.rs`, `behaviour/delete_message.rs`, `control/`, `workload_integration.rs`, `runtime/engines/podman.rs` | `Deletion` | modelled, proved |
| division of replicas among scored machines | `workplane/internal/machine/scheduler.go` | `ReplicaAssignment` | operators |
| proposal rounds of the workplane scheduler | the same, `workplane/cmd/machine/main.go` | `DistributedScheduler` | modelled, proved |
| workload agents: registration, Raft bootstrap, self-healing | `workplane/internal/workload/`, `workplane/cmd/workload/main.go`, `workplane/internal/machine/podman.go` | `WorkloadAgent` | modelled, proved |
| event loop, control messages | `libp2p_beemesh/mod.rs`, `control/mod.rs`, `behaviour/kademlia_event.rs` | inside `Placement` and `Deletion` | partly |
| scheduler crate | `scheduler/src/lib.rs` | `Placement!Selected` | round robin, the strategy the CLI asks for |
| runtime registry and engines | `machine/src/runtime/` | `RuntimeEngines`; Podman's part in `Deletion` | modelled |
| workload manager | `machine/src/workload_manager.rs` | `WorkloadManager` | modelled, proved |
| provider manager | `machine/src/provider/mod.rs` | `ProviderManager`, announcing in `WorkloadManager` and `Deletion` | modelled, proved |
| keys on disk and in memory | `crypto/src/lib.rs`, `cli/src/lib.rs`, `machine/src/lib.rs` | `KeyFiles` | modelled, proved |
| sealed requests, replay window, tasks of the REST API | `cli/src/flatbuffers.rs`, `restapi/`, `crypto/src/flatbuffer_envelope.rs`, `libp2p_beemesh/envelope.rs` | `Session` | modelled, proved |
| handshake, announcement and discovery managers, DHT manager, envelope validator | `behaviour/handshake_message.rs`, `provider/announcements.rs`, `provider/discovery.rs`, `libp2p_beemesh/dht_manager.rs`, `crypto/src/envelope_validator.rs` | | not modelled: nothing starts them |
| host API stub, logging, `beectl`, YAML helpers, streams | `hostapi/`, `workplane/cmd/beectl/`, `workplane/internal/common/`, `workplane/internal/workload/streams.go` | | no state to model |

`machine/src`, `cli/src`, `scheduler/src`, `protocol/` and `crypto/src` are under
`machineplane/`; `behaviour/` and `control/` under
`machineplane/machine/src/libp2p_beemesh/`.

A run of `beemesh apply` goes through the first parts.  The CLI asks the REST API of
one node, the *origin*, for candidates; the origin's event loop broadcasts a
capacity request; each peer checks its capacity, reserves for three seconds
and replies; after half a second the CLI takes the first `replicas` responders
and has an apply forwarded to each of them in turn; a node deploys if it still
holds a reservation for the manifest.  `beemesh delete` asks one node to find the
manifest's providers in the DHT, to remove its own workloads and to forward the
request.  The workplane is a second, independent placement: machines exchange
scored proposals for a task and divide its replicas, and an agent in every pod
asks for clones when it sees too few of its kind.

### Capacity, ResourceVerifier, CapacityLedger

`Capacity` holds the pure part: available resources, what a request needs, the
fit test, and the operations on the table.  A quantity is a function over the
dimensions because the code treats CPU, memory and storage alike; integers
saturate at `MaxValue[d]` as `saturating_add/mul/sub` do.  The sum over the
table is the number of reserved units, a cardinality, which keeps the modules
free of recursion.  A reservation carries the ticks left of its hold.

`ResourceVerifier` has one action per critical section of the two `RwLock`s, except
that `update_system_resources` keeps the write lock of the host's reading while it
awaits the registry and the engine: it is two actions, `LockResources` and
`update_system_resources`, and the checks wait for the second.
`verify_capacity` is `VerifyPrune`, `VerifySum`, `VerifyCheck`;
`reserve_capacity` is `ReservePrune`, `ReserveRefresh`, `ReserveSum`,
`ReserveCheck`, `ReserveInsert`; the gate of an apply is `GatePrune`,
`GateRead`.  Between two sections the clock, the start-up code that reads the
host, and other callers may move.  A `Caller` is an event loop.  The machine
binary runs one; the verifier is a process-wide static, so the integration
tests, which start several nodes in one process, run several on one verifier.

`CapacityLedger` is the promise: amounts are offered, a hold is granted in one
step only if it fits beside all others, keeps its size and is released.

### Placement

`Placement` composes the CLI, the REST handlers, the origin's and the peers'
event loops and the runtimes.  `verify_capacity` plus `reserve_capacity` is one
step there, which `ImplementsLedger` justifies for a node's single loop.  Every
request asks for the same constant amounts (`get_candidates` hard-codes them),
so a node's capacity is a number of slots.  A node in `Keyless` cannot load its KEM
key pair: it reserves and replies all the same, counts as a responder, and is left
out of the candidates; a manifest sent to it could not be decrypted.  A node whose
signing key cannot be loaded gives up a query (`FailQuery`) before it asks or answers
anything.  An event loop
does one thing at a time and awaits a deployment before it takes up anything else (`loop`).  Time is
counted in ticks of the 500 ms window; `CapWindow < Hold < ApplyTimeout` is the
order of the code's 0.5 s, 3 s and 30 s, the only thing about them that the
code can tell apart at this granularity.  `Lossy`, `MayFail` and `Slow` say what
the environment may do.

### Deletion

`Deletion` follows one manifest.  A call of `delete_task` is a small machine
(`phase`): find providers, ask for the local peer id, then each provider in turn,
removing locally or forwarding.  The call talks to its node's event loop through
`control`; `ProvidersFound` answers the query with any non-empty part of the DHT's
records, because the code passes on the first batch.  A removal (`task`) is a
process of its own with a step for every engine call and lock: verify, list an
engine, remove a workload, withdraw, drop the owner.  `Apply` and
`FinishDeployment` are the two ends of a deployment on the event loop, which
records the owner before and announces the manifest after; `CreateTask` writes the
same owner map beside the loop, and an empty key is never written.  The engines are
those of `RuntimeEngines`, silent failures included.  `Restart` empties the
owner map, kills queued work and gives the node a new peer id; pods and DHT
records survive, but not what the mock held.  Two histories, which only the properties
read: `newer`, what was deployed to an engine after a removal listed it, and `missed`,
what an engine let run on although it reported a success or an empty list.

### RuntimeEngines, WorkloadManager

`RuntimeEngines` is what the three engines may answer and leave behind: a Podman or
Docker command succeeds, or fails after none, part or all of its effect, as the code
that calls it allows for; the mock is exact.  Success does not always mean the effect:
Podman's removal ignores what the removal of a listed pod answers and its listing takes
output that is no JSON for no pods; Docker's removal succeeds whatever its commands answer,
and it lists every container under the manifest `unknown`, which no removal by manifest matches.
`WorkloadManager` runs on top.  Its
deploy and remove operations borrow the swarm, so there is one at a time (`call`),
interrupted wherever it awaits an engine; `get_workload_status` needs no swarm, and
any number of readers may hold an entry they read before a removal and write it
back after.  `leftover` is a history of what an engine runs although it reported
a removal as done or a deployment as failed.

### ProviderManager

One action for each critical section of the manager's mutexes.
`discover_providers` looks into the cache, registers a channel, and waits;
`handle_provider_found` adds to the cache (evicting the oldest beyond the limit) and
then, in a second section, notifies and forgets the registered channels.  Nothing in
the repository calls it; its comment says that the event handler does, and the model
lets any thread report at any time.  `inbox` is
the channel of a call and `told` a history of whether a provider was reported while
it waited.

### KeyFiles

A process is a CLI command, a machine, or a machine with `--ephemeral`, and asks for
its key pairs in the order of its code.  `ensure_keypair_on_disk` is a step for each
file operation: look, read both, or generate, open, write, open, write.  A process
may end at any point.  Files are `Absent`, `Empty` (opened, not written) or hold
half of the pair of a number.  `overlapped` is a history of the kinds that two
processes were creating at once.

### Session

A client fetches the node's KEM key once and seals each request to it.  The node first
looks the nonce up, and notes it, in a store that forgets what is older than the
window; then it verifies the signature and decrypts.  Copies are delayed, lost and delivered again.
`create_task` is a handler with a step for each of its awaits (map the operation,
store the task, record the owner, respond), and a closed connection drops a handler
at any of them.  The owner map is shared with the event loop and with removals:
`DeployApplied` records an owner, `DropOwner` drops one, and `dropped` is a history of the
stored tasks that lost theirs in this way.  A restart empties the stores, and changes the KEM key where it is
kept in memory.  A signature or ciphertext is represented by the key it was made
with.  All CLI clients share the label `cli-client` in the nonce store, as in the
code.

### ReplicaAssignment, DistributedScheduler

`ReplicaAssignment` is `assignReplicas`, the ranking of proposals and
`upsertProposal` as operators.  Fractions are exact where the code uses
`float64`, so rounding errors of near-equal remainders are not shown; scores are
naturals, as the default score is a sum of free quantities.  A sort is written by
the place of each element, the number of elements up to it, and a sum by counting
units, because the prover cannot see into the library's recursive sorts and folds.
`DistributedScheduler` runs rounds on top: all rounds of a machine read the one
bounded channel its listener fills, a round keeps proposals of its own task and
drops the others, and a closed window assigns, deploys and delegates at once.
`copies` counts calls of the deployment function, whose errors the code ignores.
A proposal or a delegated task may stay on its way for ever.
`cmd/machine/main.go` calls the scheduler with another signature than
`scheduler.go` defines; the model follows `scheduler.go` and takes from `main.go`
the channel, the listeners and one goroutine per task.  `StartRound` is taken once for
a task: `main.go` would start a second round for a second message with the same id, but
`beectl` and the healers mint an id (uuid) for each task and pubsub hands on a message once.

### WorkloadAgent

One pod per machine, because `deployFromManifest` names a pod after its workload and a
dead pod keeps its name.  A pod registers, creates or joins a Raft cluster if it is a StatefulSet, and then
heals: a tick counts records and publishes one clone task for each missing
replica.  A record outlives its pod, and is not renewed while the pod lives: `Expire`
takes away any of them.  A clone task starts up to `MaxCopies` pods since every machine
that hears it may place it, or none if no machine takes it or the chosen one has the
name already (`CloneLost`).  `desired` is each pod's own `-replicas` flag: the first
pods may be started with any number, a clone always gets the default of 1, since
`publishCloneTask` asks for one replica and the agent does not read the
`BEE_WORKLOAD_REPLICAS` that the machine sets.

## Runs

| run | question | outcome |
|---|---|---|
| `OneLoop` | are bids, deployments and the table sound for the binary's one loop, and can a call hang on the lock of the host's reading? | sound; no, as long as the engine answers its listing |
| `TwoLoops` | how bad can several loops on one verifier get? | at most one request over the capacity; live reservations are never lost |
| `PlaceTwo` | what do two applies leave behind under loss, failure and delay? | no node holds more reservations than it has slots; each run leaves a prefix of its selection, never extra copies; both always end |
| `PlacePrompt` | if nothing is slow, lost or broken, is "completed" true? | yes: the reservations suffice |
| `Delete` | when is the owner dropped, and does a call always answer? | after a sweep of all engines that met no *reported* error: a workload that an engine hid, or that was deployed meanwhile, may still run; a call always answers if the engines do |
| `DeleteRemote` | does a forwarded delete remove anything? | no, it is sent unsigned and refused (finding) |
| `Schedule` | are shares right and equal everywhere, are copies conserved, is a task ever only delegated? | holds |
| `Heal` | can two clusters arise, and are lost replicas replaced? | at most one by pods whose records last; replaced in the eyes of a pod that goes on serving, unless its clones keep being refused or lost |
| `Host` | does the manager lose sight of a workload when commands fail and refreshes race? | only of one that its engine claims to be rid of or failed to deploy; and it always gives the swarm back |
| `Discover` | can a waiting discovery miss a report, the cache outgrow its limit, a call hang? | no |
| `Keys` | do all programs that share a key directory get one key? | yes, unless two create it at the same moment |
| `Session` | is an envelope taken twice, a request refused without cause, a task without trace or owner? | no, as long as no copy outlives the window and no removal dropped the owner |

### What the finding says

`DeleteRemote`: `handle_send_delete_request` forwards the plain request, the receiver
only accepts signed ones, and the sender answers success at once.

### Behaviours the models have and no property forbids

* A remote apply is reported as done when it is sent.  A deployment on the origin
  that outlasts the three-second hold makes the next nodes refuse, and the CLI
  still reports success; `CompletedMeansDeployed` therefore needs a prompt runtime.
* Allocation is read once, at start-up.  When the reservations of running workloads
  expire the node offers the same resources again.
* A workload may run on without an owner entry.  `workload_integration.rs:796` says
  "Drop the cached owner once the manifest workloads are removed successfully", but
  Docker's workloads are listed under `unknown` and so never removed, and both engines
  report removals as done that failed (`podman.rs:811-839`, `docker.rs:492-501`); a
  deployment may also end between the sweep of an engine and the drop.
  `OwnerDroppedAfterSweep` says that there is no other way.
* An owner of a task that was created and answered may be dropped by a removal while
  the task is still listed; `AckedTaskOwned` says that nothing else loses one.
* The workplane scheduler may give a clone to a machine that already has a pod of
  that name, for ever, and every post may fail; `HealsUnlessLost` names both.
* A pod started as a clone desires one replica, itself, so when only clones survive
  nothing is healed, and a first pod's record may fade while it lives, so that it
  asks for clones it does not need.  `workplane/README.md:160` wants the desired replicas
  "derived from the workload manifest".
* Two healers that see the same deficit both have it cloned.  For a StatefulSet
  `workplane/README.md:167` says that the agent "MUST NOT create duplicates of the same
  ordinal"; the code keeps no ordinals, and nothing removes a surplus pod.
* Two first uses of a key directory at the same moment may leave the public half of
  one pair beside the private half of another.  A process that ends between
  opening and writing the private file leaves it empty for good.
* With `--ephemeral` the machine's own pair is not the one it advertises.
* A provider that is found again after its entry expired keeps the age of the old
  entry.  The channel of a query that timed out stays registered until the next report.
* `stop_providing` forgets a manifest locally and leaves its record in the DHT.
* A late `get_workload_status` may put back the map entry of a removed workload.
* No removal of the workload manager withdraws an announcement.  The comment at
  `workload_manager.rs:310` says "Stop provider announcement if we were announcing",
  but the flag it tests is set only in the copy that `deploy_workload` returns, after
  the entry was stored.
* The nonce store is lost at a restart, and the time in an envelope is not checked: a copy
  that outlives the window, or a restart that keeps the KEM key, is accepted again.
  `machineplane/README.md:165` requires that receivers "reject messages with clock skew >
  ±30 s"; `error_handling_test.rs:474` asserts that a timestamp of zero is accepted.
  With the check of the document a window of five minutes would outlast every copy that
  can be accepted; as the code is, `AcceptedOnce` assumes so (`Lifetime =< Window`).
* Of two clients that create one manifest at once, one may be named as owner
  in the task and the other in the owner map.

### Bounds

`OneLoop`: two dimensions with different limits and reserves, three
request ids over two manifests, five requests (nothing, one unit, two, more than
there is, one that saturates), three host readings (idle, busy, at the workload
limit), a hold of two ticks: every branch of both calls is taken and two
reservations of one manifest coexist with one of another.  `TwoLoops`: requests
of one and of two units on a host with three, so two large ones do not fit; three ids, so an
unguarded table would exceed the bound.  Ids and loops are interchangeable there, and
the symmetry is sound because both properties are about safety.

`PlaceTwo`: two nodes, runs of one and of two replicas through one origin's loop, so
selection, order, a node left over and contention for a slot all occur.
`PlacePrompt`: four nodes, one that sits out, one without a key, runs from two
origins.

`Delete`: two nodes with two engines each, one key, one call and one signed
request with force on the node that serves the call, two applies, one restart a
node.  With force any recorded owner will do, so that owners differ in nothing but being
known; the proofs are for all keys.  Two engines are what a partial sweep needs, two applies what a re-apply
needs.  One call suffices because a call only shares the node's removals and owner
entry with others, and the signed request already contends for those.
`DeleteRemote` drops what its counterexample does not need.

`Schedule`: two machines, a task both schedule and one that only the first does, so
that two rounds of a machine compete for the channel of length one; scores
include zero and ties.  Three proposals, where remainders are really distributed,
are covered by `AssignmentSound` over all small score vectors and totals.

`Heal`: three machines, one or two desired replicas for each first pod, two failures,
two clone tasks: both first pods may fail while a clone starts, a survivor may desire
one replica or two, records fade before and after their pods, and surplus pods occur.

`Host`: one manifest, because manifests share nothing but the swarm, in all three
engines, with every kind of content, and two refreshes.  `Discover`: three providers for
a cache of two, two calls and one reporting thread, entries that expire after one
tick.  `Keys`: two processes of any program, three pairs over both kinds: two that race,
or one that was interrupted and its successor, beside one of the other kind.  `Session`: two clients, a peer, two envelopes, two KEM keys, a
window of one and a clock that goes one further: two envelopes are what two creations
of one manifest need, and one already has as many copies as arrive.

### Deadlock

It is checked where the clock or new requests always remain possible
(`ResourceVerifier`, `Placement`, `WorkloadManager`, `ProviderManager`, `KeyFiles`,
`Session`).  Calls, applies, tasks and failures are finite in `Deletion`, `DistributedScheduler` and `WorkloadAgent`, which may therefore come to
rest; what must happen before is stated as liveness.

### Fairness

`ResourceVerifier!FairSpec`: a call in progress gets its next lock, since tokio's locks
are fair, and a reading of the host that has begun ends.  The reading keeps its write
lock while it awaits the registry and the listing of the default engine, which has no
timeout: that the engine answers is assumed.  `CallsReturn` is then about what is left
of the code, that the reading itself needs no lock that it or a waiting call holds.  Nothing
makes requests arrive.  `Placement!CliSpec`: time passes and the CLI process goes on; nothing is
assumed of event loops, runtimes and the network, so `RunsEnd` rests on the
code's timeouts alone.  `Placement!FairSpec` adds that event loops take up what is
queued and that deployments end.

`Deletion!RestSpec`: the handler goes on, its armed timeouts fire and the engines answer
the removal it awaits; nothing of event loops, other removals and the network.
`Deletion!FairSpec` adds event loops, deployments and the other removals; its violation therefore does not come from a system
that simply stops.

`DistributedScheduler!FairSpec`: only windows close, by a local timer (`EndWindow`, the
part of `CloseWindow` that moves the round; nothing else ends a window).

`WorkloadAgent!AgentFairSpec`: live pods go on and tick, lookups succeed now and then,
the machine's API answers a post, well or badly, a clone task is placed or lost, and
records of dead pods expire.  Weak fairness throughout; that clones reach a free
machine, or that posts succeed, is not assumed but named in `HealsUnlessLost`.

`WorkloadManager!FairSpec`: the engines' commands end and the call goes on.
`ProviderManager!FairSpec`: the clock moves and a call whose channel or timer is ready
is resumed; nothing is assumed of reports.  `KeyFiles` and `Session` are checked for
safety only.

## Proofs

`ResourceVerifierProofs`, for all dimensions, limits, hosts, requests and holds:

* `TypeCorrect` and `LiveReservations` for any number of event loops.  The
  inductive invariant is `TypeInv`: the types, and that the table is finite
  (needed to count it).
* `NeverOverbooked`, `DeploymentsBacked` and `LedgerImplemented` for one loop.
  `WithinCapacity` alone is not inductive: between the check and the insert the
  decision lives in the caller's locals.  `SerialInv` adds that nothing is known
  of the host until it is read, that the snapshot is exact when it is checked,
  and that reserved plus needed fits when it is inserted.  Each is preserved
  because with one loop only the clock and the host reading can intervene: ageing
  changes no size, and a reading replaces a host that offers nothing, with
  which no check succeeds.
* `OvershootIsBounded` for any finite number of loops.  Between a loop's snapshot
  and its insert the others may insert as well, so nothing about the table alone is
  inductive.  `RaceInv` counts the loops that are *due*, past a check that their
  snapshot passes: the one that took its snapshot last saw a table that its own
  request still fitted into, and every other due loop adds at most one largest
  request (`DueFit`).  The theorem assumes that the readings of the host agree on
  what it offers (`SteadyHost`, true of the run's constants): each loop reads the
  host once, and a later reading that offers less makes the table too large
  without any insert.
* Lemmas: pruning and refreshing never add units, an insert adds exactly the
  request's units, ageing keeps sizes.

`PlacementProofs`, for all nodes, runs, replicas and timeouts, with messages lost,
late and reordered: `TypeCorrect`, `RolloutKeepsOrder`, `CopiesBounded` and `OriginComesFirst`.  A
workload on a node says little about how it got there; `IInv` follows it back.  What
deploys, what travels and what is queued at a node was issued by a run (`InLoop`,
`InTransit`, `Queued`), a run issues in the order of its selection and at most one
apply for each replica (`Counted`), and its candidates no longer change once it
has issued anything (`Forward`).  For the origin, nothing that could bring another
answer is on its way before its own (`OriginAnswered`).  `CopiesBounded` then counts:
the nodes that hold a copy are among the first `sent[r]` of the selection.
`TypeCorrect` is not inductive either: that an apply goes to a node needs that the
place a run has come to is a place of its selection, and the selection is drawn from
the responders that have a key.  `Shaped` adds that a run that got past its window
has a candidate for each of its replicas (`Chosen`); the candidates are counted
once, when the window closes.  `Keyed` gives the responders with a key by their places,
and the lemma `KeyedType` that these places run from one without a gap.  That no node
holds more reservations than slots is kept because a new one is only entered below the
limit, and pruning and ageing add none (`IsTable`).

`DeletionProofs`, for all nodes, engines, keys, requests and bounds:
`OwnerKeptUntilSwept` is the action property `OwnerDroppedAfterSweep`.  A step that
drops an owner says nothing of the engines listed long before, so the proof carries
`SweepInv` (theorem `SweepKept`): as long as a removal has met no reported error, what
runs on its node is still to be listed, found and still to be removed, in `newer` or in
`missed`.  Deployments end in `newer` for every removal that has listed the engine,
other removals only take workloads away, and an engine that reports success for
a workload that runs on puts it into `missed`.
`TypeCorrect` is the type invariant, shown in three parts: what a node holds (with
`SweepInv`), the mesh with the requests in transit (`MeshTypes`), and the calls with
the queues of the event loops (`CallTypes`).

`WorkplaneProofs` is about `DistributedScheduler`, for all machines, links, tasks,
scores and clock readings: `RoundsTypeCorrect` is the type invariant, `SameDecision` is
`SameProposalsSameDecision`, `ProportionalSplit` is `Proportional`, `NoCopyLost` is
`CopiesAccounted`, `SomebodyDeploys` is `NotOnlyDelegated`.  None is inductive.  `IInv` adds that a machine makes at
most one proposal for a task, that every proposal anywhere is one its machine made,
that none is at once under way, in the channel and collected, or there twice, and that
a finished round decided by `AssignReplicas` on a sorted list.  So no list has two proposals of
one machine, the order of its proposals is strict, and the place of a proposal
depends on which proposals there are and not on where they stand (`PositionOfProposal`,
`RankedSame`).  That the places are one to the length of the list is the
lemma `PositionOnto`, a count of nested finite sets.

What `AssignReplicas` computes rests on sums, and a sum is a number of units: sums of
floors and remainders are compared by injections between sets of units.  The
floors leave over no more than there are proposals with a remainder, so each gets one at
most and nobody is a whole replica from its share; and the list is
sorted by score, so a proposal ranked before another has at least its floor and, at
equal floors, at least its remainder, with equal ones served in order.  `AssignmentIsSound` states this for every list
of proposals of distinct machines (the operator `Sound`, which `AssignmentSound` evaluates for all
small vectors), `ProportionalSplit` for every finished round, `TopNodeGetsOne` that the
machine a round ranks first gets a replica.  `NoCopyLost` adds up over
machines: the end of a window adds to `copies` and `orders` what it gives away, a delegated
task moves one from `orders` to `copies`.  `SomebodyDeploys` is what makes
delegation safe although proposals get lost and every machine decides for itself.  `Kept`
adds that a finished round counted its own proposal and deployed its own share.
Of the machines that decided, one made the best proposal (`BestOf`); nothing that it heard
comes before its own, so it ranks itself first and gives itself a replica.

`WorkloadProofs` is about the manager of a machine's workloads and the agents of their pods.
Of `WorkloadManager`, for all manifests, registered engines and readers:
`TypeCorrect` and `RunningAlwaysTracked`.  Neither is inductive, because a
reader may write back an entry after anything has happened and a call acts on what it
read before its awaits.  The invariant adds that a call has a target, and a reader an
entry, wherever it will use one, and that a workload a removal is
about to forget no longer runs, or is in `leftover`.

Of `WorkloadAgent`, for all sets of pods, replicas and bounds: `AgentsTypeCorrect`
is the type invariant, `OneClusterAtMost` is `SingleCluster`.  `ClusterInv` (theorem `ClusterKept`)
adds that only a pod past its start has a cluster.  A pod that looks up while its own record is
in the DHT and finds at most one record finds its own, so no other live pod with
a record has created a cluster (lemma `AtMostOne`); a pod whose record has faded
is no longer one the property speaks of.

`ProviderManagerProofs`, for all callers, finders, manifests and limits:
`NoReportMissed`.  `CallsConnected` is the inductive invariant: the channel of a waiting
call is registered exactly as long as nothing was sent to it, so a report either
finds the channel or comes after another one, and a call that was told holds a list.
`CacheBounded` is the type invariant with the limit of the cache.  It is not inductive:
an answered call puts the list from its channel back.  `CacheInv` says of the lists in
the channels what it says of the cached ones, and it is kept because filtering leaves
entries of the list in their order and the full list gives up one entry before
another is appended.  `Valid` is written with `Kept`, the entries at a set of
positions in order of `Rank`, since the prover cannot reason about `SelectSeq`, which is
recursive; that ranks count from one without a gap is the lemma `RankOnto`.

`KeyFilesProofs`, for all processes, programs and modes: `KeyIsOne`.  The private file is
opened last and never truncated unless two processes create at once; so once it is
there the public file is complete and nobody generates again, and before it is
there nobody has been given a key (`FilesSound`).

`SessionProofs`, for all clients, peers, manifests and bounds: `TypeCorrect`,
`OnceAccepted`, `OnlyStaleRefused`, `TasksTraceable`, `AckedTasksOwned`.  The store forgets nonces, so "accepted
once" is not inductive; what is kept is that the nonce of an accepted envelope that
may still arrive is in the store, noted no earlier than the envelope was built.
The tasks need that all copies and handlers of an operation are for one manifest
and that a handler has done what comes before its step: one that is about to respond
has recorded its owner, and whatever dropped it since is in `dropped`.

Assumptions are those of the `ASSUME`s: limits are naturals, the hold is
positive, a request id determines its manifest, signed requests and API calls are
distinct, the pods are finitely many, no copy of an envelope outlives the window.
`OvershootIsBounded` and the theorems about one loop state theirs in the theorem.
Nonces of different envelopes are taken to differ: the code hashes the time in
nanoseconds, or draws them at random.

Only model-checked: all liveness, for which fairness is out of the prover's reach.
`AssignmentSound` is not a theorem as it stands; `AssignmentIsSound` is its statement for all
values.

## What is not modelled

* The mathematics of signatures and KEM, and FlatBuffer encoding: what arrives is
  well formed, and made with the key the code uses.
* Code that nothing starts.  No code inserts an unconfirmed handshake state, so the
  handshake tick never sends; `AnnouncementManager`, `DiscoveryManager` and
  `DhtManager` are used by unit tests at most; `AnnounceProvider`, `WithdrawProvider` and
  `BootstrapDht` are never sent, so the renewal of announces has nothing to renew;
  nothing fills the pending manifest requests.  Of the envelope validator only
  the constant that messages must be signed is used.  A model of these would show what
  the code could do if it were called, in an order the source does not fix.
* The debug endpoints, which only read.
* The host readers (`/proc`, `df`): a reading is any member of `HostReadings`.
* The strategies of the scheduler crate that the CLI never asks for, and CLI functions
  nothing calls (`send_unencrypted_request`).
* Who starts the first pods, and with which `-replicas`: nothing in the repository does.
* Generated protocol code, logging, and the wording of errors.
* libp2p's DHT, request-response and gossip, and go-libp2p-raft, beyond loss, delay
  and partial answers.
* Two pods that both register before they look join each other and none creates a
  cluster; whether Raft recovers from that is outside the code.
