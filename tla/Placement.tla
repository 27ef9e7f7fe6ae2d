----------------------------- MODULE Placement -----------------------------
(***************************************************************************)
(* How a manifest gets from the CLI onto nodes: apply_file (cli/src/lib.rs)*)
(* asks the REST API of its origin node for candidates, the origin's event *)
(* loop broadcasts a capacity request, peers reserve and reply, the CLI    *)
(* selects the first responders and has an apply forwarded to each in      *)
(* turn, and each node deploys what its reservation gate lets through.     *)
(*                                                                         *)
(* A Run is one apply_file invocation.  get_candidates sends the same      *)
(* amounts for every manifest, so a node's capacity is the number of such  *)
(* requests it can hold, Slots[n]; verify_capacity and reserve_capacity    *)
(* are atomic, which ResourceVerifier justifies for a node's single event  *)
(* loop.  That loop handles one thing at a time and awaits deployments.    *)
(* Delays are counted in ticks of FREE_CAPACITY_TIMEOUT_MS.                *)
(***************************************************************************)
EXTENDS Integers, Sequences, FiniteSets

CONSTANTS
    Node,           \* machines of the mesh
    Run,            \* apply_file invocations; each has a fresh request id
    Manifest,       \* manifest ids
    ManifestOf,     \* the manifest a run applies
    Replicas,       \* the replicas its manifest asks for
    Origin,         \* the node whose REST API it talks to
    Slots,          \* requests a node can hold at once
    Disabled,       \* nodes with scheduling disabled
    Keyless,        \* nodes that cannot load their KEM key pair
    MaxCandidates,  \* responders get_candidates stops at (5)
    CapWindow,      \* FREE_CAPACITY_TIMEOUT_MS in ticks
    Hold,           \* RESERVATION_HOLD_SECS in ticks
    ApplyTimeout,   \* apply_direct's timeout (30 s) in ticks
    Lossy,          \* whether the network may lose messages
    MayFail,        \* whether runtimes may fail to deploy, and key pairs to load
    Slow            \* what may outlast a tick: "network" (and timers), "runtime"

ASSUME PlacementAssumption ==
    /\ ManifestOf \in [Run -> Manifest]
    /\ Replicas \in [Run -> Nat]
    /\ Origin \in [Run -> Node]
    /\ Slots \in [Node -> Nat]
    /\ Disabled \subseteq Node /\ Keyless \subseteq Node
    /\ MaxCandidates \in Nat \ {0}
    /\ CapWindow \in Nat \ {0} /\ CapWindow < Hold /\ Hold < ApplyTimeout
    /\ Hold \in Nat /\ ApplyTimeout \in Nat
    /\ Lossy \in BOOLEAN /\ MayFail \in BOOLEAN
    /\ Slow \subseteq {"network", "runtime"}

VARIABLES
    table,      \* reservations of each node: run |-> ticks left
    running,    \* manifests running on each node
    loop,       \* what each node's event loop is deploying, if anything
    control,    \* control messages queued for each event loop
    net,        \* messages between nodes
    asked,      \* ticks since a run's capacity request was signed
    phase,      \* where apply_file is
    responders, \* candidates in order of arrival
    sent,       \* applies issued so far
    timer       \* ticks since the REST call in progress began

vars == <<table, running, loop, control, net, asked, phase, responders, sent, timer>>

Phase == {"new", "collecting", "next", "awaiting", "ok", "failed"}

\* What the length-prefixed streams carry; a request's run stands for its id.
Message == [kind : {"capreq", "reply", "apply"}, run : Run, node : Node]

CapacityRequest(r, p) == [kind |-> "capreq", run |-> r, node |-> p]

\* The reply of a node says whether it has a key, which does not change: Keyless.
CapacityReply(r, n) == [kind |-> "reply", run |-> r, node |-> n]

ApplyRequest(r, n) == [kind |-> "apply", run |-> r, node |-> n]

Control == [kind : {"query", "apply"}, run : Run, node : Node]

Idle == [run |-> "none", self |-> FALSE]

Free(n) == loop[n] = Idle

is_scheduling_disabled_for(n) == n \in Disabled

\* A request id spells prefix, manifest id and a unique part.
extract_manifest_id_from_request_id(r) == ManifestOf[r]

RunsOf(m) == {r \in Run : ManifestOf[r] = m}

\* Responders without a key are left out, after they counted as responders.
Keyed(nodes) ==
    LET keyed == {i \in DOMAIN nodes : nodes[i] \notin Keyless}
        upTo(i) == Cardinality({j \in keyed : j <= i})
    IN  [k \in 1..Cardinality(keyed) |-> nodes[CHOOSE i \in keyed : upTo(i) = k]]

CandidatesResponse(r) == [ok |-> TRUE, candidates |-> Keyed(responders[r])]

\* What the CLI's client makes of the answer.
get_candidates(r) ==
    IF CandidatesResponse(r).ok THEN CandidatesResponse(r).candidates ELSE <<>>

\* A fresh round-robin scheduler starts at index 0.
Selected(r) ==
    LET candidates == get_candidates(r)
        n == Len(candidates)
    IN  [i \in 1..(IF Replicas[r] <= n THEN Replicas[r] ELSE n) |-> candidates[i]]

Init ==
    /\ table = [n \in Node |-> [r \in {} |-> 0]]
    /\ running = [n \in Node |-> {}]
    /\ loop = [n \in Node |-> Idle]
    /\ control = [n \in Node |-> <<>>]
    /\ net = {}
    /\ asked = [r \in Run |-> 0]
    /\ phase = [r \in Run |-> "new"]
    /\ responders = [r \in Run |-> <<>>]
    /\ sent = [r \in Run |-> 0]
    /\ timer = [r \in Run |-> 0]

-----------------------------------------------------------------------------
(* The CLI and the REST handlers it calls *)

\* apply_file calls get_candidates, which queues the query and starts waiting.
Start(r) ==
    /\ phase[r] = "new"
    /\ phase' = [phase EXCEPT ![r] = "collecting"]
    /\ timer' = [timer EXCEPT ![r] = 0]
    /\ control' = [control EXCEPT ![Origin[r]] =
                      Append(@, [kind |-> "query", run |-> r, node |-> Origin[r]])]
    /\ UNCHANGED <<table, running, loop, net, asked, responders, sent>>

WindowOver(r) == timer[r] >= CapWindow \/ Len(responders[r]) >= MaxCandidates

\* get_candidates returns at the timeout or with enough candidates; apply_file
\* gives up when there are none, or fewer than replicas.
CloseWindow(r) ==
    LET got == Len(get_candidates(r))
    IN  /\ phase[r] = "collecting"
        /\ WindowOver(r)
        /\ phase' = [phase EXCEPT ![r] =
                        IF got = 0 \/ got < Replicas[r] THEN "failed" ELSE "next"]
        /\ UNCHANGED <<table, running, loop, control, net, asked, responders, sent, timer>>

Reversed_SendApply(r) ==
    /\ phase[r] = "next"
    /\ sent[r] < Replicas[r]
    /\ sent' = [sent EXCEPT ![r] = @ + 1]
    /\ phase' = [phase EXCEPT ![r] = "awaiting"]
    /\ timer' = [timer EXCEPT ![r] = 0]
    /\ control' = [control EXCEPT ![Origin[r]] =
                      Append(@, [kind |-> "apply", run |-> r,
                                 node |-> Selected(r)[Replicas[r] - sent[r]]])]
    /\ UNCHANGED <<table, running, loop, net, asked, responders>>

AllCandidates_SendApply(r) ==
    /\ phase[r] = "next"
    /\ sent[r] < Len(get_candidates(r))
    /\ sent' = [sent EXCEPT ![r] = @ + 1]
    /\ phase' = [phase EXCEPT ![r] = "awaiting"]
    /\ timer' = [timer EXCEPT ![r] = 0]
    /\ control' = [control EXCEPT ![Origin[r]] =
                      Append(@, [kind |-> "apply", run |-> r, node |-> get_candidates(r)[sent'[r]]])]
    /\ UNCHANGED <<table, running, loop, net, asked, responders>>

\* The next selected node: apply_direct queues the apply at the origin.
SendApply(r) ==
    /\ phase[r] = "next"
    /\ sent[r] < Replicas[r]
    /\ sent' = [sent EXCEPT ![r] = @ + 1]
    /\ phase' = [phase EXCEPT ![r] = "awaiting"]
    /\ timer' = [timer EXCEPT ![r] = 0]
    /\ control' = [control EXCEPT ![Origin[r]] =
                      Append(@, [kind |-> "apply", run |-> r, node |-> Selected(r)[sent'[r]]])]
    /\ UNCHANGED <<table, running, loop, net, asked, responders>>

Complete(r) ==
    /\ phase[r] = "next"
    /\ sent[r] = Replicas[r]
    /\ phase' = [phase EXCEPT ![r] = "ok"]
    /\ UNCHANGED <<table, running, loop, control, net, asked, responders, sent, timer>>

Never_ApplyTimedOut(r) ==
    /\ phase[r] = "awaiting"
    /\ timer[r] > ApplyTimeout
    /\ phase' = [phase EXCEPT ![r] = "failed"]
    /\ UNCHANGED <<table, running, loop, control, net, asked, responders, sent, timer>>

\* apply_direct's timeout makes apply_file stop where it is.
ApplyTimedOut(r) ==
    /\ phase[r] = "awaiting"
    /\ timer[r] >= ApplyTimeout
    /\ phase' = [phase EXCEPT ![r] = "failed"]
    /\ UNCHANGED <<table, running, loop, control, net, asked, responders, sent, timer>>

-----------------------------------------------------------------------------
(* Control messages at the origin's event loop *)

\* get_candidates stops receiving once its window is closed.
Notify(r, n) ==
    responders' = IF /\ phase[r] = "collecting"
                     /\ Len(responders[r]) < MaxCandidates
                     /\ \A i \in DOMAIN responders[r] : responders[r][i] # n
                  THEN [responders EXCEPT ![r] = Append(@, n)]
                  ELSE responders

broadcast_signed_request_to_peers(r, n) == {CapacityRequest(r, p) : p \in Node \ {n}}

RemoteOnly_HandleQuery(n) ==
    /\ Free(n) /\ control[n] # <<>> /\ Head(control[n]).kind = "query"
    /\ LET r == Head(control[n]).run
       IN  /\ net' = net \cup broadcast_signed_request_to_peers(r, n)
           /\ asked' = [asked EXCEPT ![r] = 0]
    /\ control' = [control EXCEPT ![n] = Tail(@)]
    /\ UNCHANGED <<table, running, loop, phase, responders, sent, timer>>

\* Broadcast to all peers, then answer for the local node, which is neither
\* checked nor reserved.
HandleQuery(n) ==
    /\ Free(n) /\ control[n] # <<>> /\ Head(control[n]).kind = "query"
    /\ LET r == Head(control[n]).run
       IN  /\ net' = net \cup broadcast_signed_request_to_peers(r, n)
           /\ asked' = [asked EXCEPT ![r] = 0]
           /\ IF is_scheduling_disabled_for(n) THEN UNCHANGED responders ELSE Notify(r, n)
    /\ control' = [control EXCEPT ![n] = Tail(@)]
    /\ UNCHANGED <<table, running, loop, phase, sent, timer>>

\* A node that cannot load its key pair to sign the broadcast asks nobody and does
\* not answer for itself either.
FailQuery(n) ==
    /\ MayFail
    /\ Free(n) /\ control[n] # <<>> /\ Head(control[n]).kind = "query"
    /\ control' = [control EXCEPT ![n] = Tail(@)]
    /\ UNCHANGED <<table, running, loop, net, asked, phase, responders, sent, timer>>

\* The loop awaits the deployment of an apply for the node itself.
process_enhanced_self_apply_request(n, r) ==
    loop' = [loop EXCEPT ![n] = [run |-> r, self |-> TRUE]]

\* A remote apply is sent and reported as done at once; one for the node itself
\* is deployed first, without a reservation, and reported as done in any case.
HandleSendApply(n) ==
    /\ Free(n) /\ control[n] # <<>> /\ Head(control[n]).kind = "apply"
    /\ LET c == Head(control[n])
       IN  IF c.node = n
           THEN /\ process_enhanced_self_apply_request(n, c.run)
                /\ UNCHANGED <<net, phase>>
           ELSE /\ net' = net \cup {ApplyRequest(c.run, c.node)}
                /\ phase' = IF phase[c.run] = "awaiting"
                            THEN [phase EXCEPT ![c.run] = "next"] ELSE phase
                /\ UNCHANGED loop
    /\ control' = [control EXCEPT ![n] = Tail(@)]
    /\ UNCHANGED <<table, running, asked, responders, sent, timer>>

-----------------------------------------------------------------------------
(* Messages at an event loop *)

Receive(msg) == msg \in net /\ net' = net \ {msg}

Prune(t) == [r \in {x \in DOMAIN t : t[x] > 0} |-> t[r]]

Unreserved_HandleCapacityRequest(msg) ==
    LET n == msg.node
        t == Prune(table[n])
        accepted == /\ ~is_scheduling_disabled_for(n) /\ asked[msg.run] <= CapWindow
                    /\ Cardinality(DOMAIN t) < Slots[n]
    IN  /\ msg.kind = "capreq" /\ msg \in net /\ Free(n)
        /\ table' = [table EXCEPT ![n] = t]
        /\ net' = (net \ {msg}) \cup
                     (IF accepted THEN {CapacityReply(msg.run, n)} ELSE {})
        /\ UNCHANGED <<running, loop, control, asked, phase, responders, sent, timer>>

OffByOne_HandleCapacityRequest(msg) ==
    LET n == msg.node
        t == Prune(table[n])
        ignored == is_scheduling_disabled_for(n) \/ asked[msg.run] > CapWindow
        accepted == ~ignored /\ Cardinality(DOMAIN t) <= Slots[n]
    IN  /\ msg.kind = "capreq" /\ msg \in net /\ Free(n)
        /\ table' = IF ignored THEN table
                    ELSE [table EXCEPT ![n] =
                            IF accepted
                            THEN [r \in DOMAIN t \cup {msg.run} |->
                                    IF r = msg.run THEN Hold ELSE t[r]]
                            ELSE t]
        /\ net' = (net \ {msg}) \cup
                     (IF accepted THEN {CapacityReply(msg.run, n)} ELSE {})
        /\ UNCHANGED <<running, loop, control, asked, phase, responders, sent, timer>>

\* The scheduler request handler: a disabled node, a stale request and a full
\* node give no answer at all.
HandleCapacityRequest(msg) ==
    LET n == msg.node
        t == Prune(table[n])
        ignored == is_scheduling_disabled_for(n) \/ asked[msg.run] > CapWindow
        accepted == ~ignored /\ Cardinality(DOMAIN t) < Slots[n]
    IN  /\ msg.kind = "capreq" /\ msg \in net /\ Free(n)
        /\ table' = IF ignored THEN table
                    ELSE [table EXCEPT ![n] =
                            IF accepted
                            THEN [r \in DOMAIN t \cup {msg.run} |->
                                    IF r = msg.run THEN Hold ELSE t[r]]
                            ELSE t]
        /\ net' = (net \ {msg}) \cup
                     (IF accepted THEN {CapacityReply(msg.run, n)} ELSE {})
        /\ UNCHANGED <<running, loop, control, asked, phase, responders, sent, timer>>

HandleReply(msg) ==
    /\ msg.kind = "reply" /\ Free(Origin[msg.run])
    /\ Receive(msg)
    /\ Notify(msg.run, msg.node)
    /\ UNCHANGED <<table, running, loop, control, asked, phase, sent, timer>>

HasReservation(t, m) == \E r \in DOMAIN t : extract_manifest_id_from_request_id(r) = m

\* The apply handler: any live reservation for the manifest admits it, and is
\* left in place.  A rejection is answered, but nobody reads the answer.
HandleApply(msg) ==
    LET n == msg.node
        t == Prune(table[n])
    IN  /\ msg.kind = "apply" /\ Free(n)
        /\ Receive(msg)
        /\ table' = [table EXCEPT ![n] = t]
        /\ loop' = IF HasReservation(t, ManifestOf[msg.run])
                   THEN [loop EXCEPT ![n] = [run |-> msg.run, self |-> FALSE]]
                   ELSE loop
        /\ UNCHANGED <<running, control, asked, phase, responders, sent, timer>>

\* The CLI encrypts a manifest for the key in the candidate's reply.
decrypt_manifest_content(n) == n \notin Keyless

\* The runtime replaces what runs under the same manifest id; when it fails,
\* the old workload may be gone.
DeploymentOutcomes(n, m) ==
    IF decrypt_manifest_content(n)
    THEN {running[n] \cup {m}} \cup (IF MayFail THEN {running[n], running[n] \ {m}} ELSE {})
    ELSE {running[n]}

FinishDeployment(n) ==
    /\ ~Free(n)
    /\ LET r == loop[n].run
       IN  /\ \E runs \in DeploymentOutcomes(n, ManifestOf[r]) :
                  running' = [running EXCEPT ![n] = runs]
           /\ phase' = IF loop[n].self /\ phase[r] = "awaiting"
                       THEN [phase EXCEPT ![r] = "next"] ELSE phase
    /\ loop' = [loop EXCEPT ![n] = Idle]
    /\ UNCHANGED <<table, control, net, asked, responders, sent, timer>>

Lose(msg) ==
    /\ Lossy
    /\ Receive(msg)
    /\ UNCHANGED <<table, running, loop, control, asked, phase, responders, sent, timer>>

Receiver(msg) == IF msg.kind = "reply" THEN Origin[msg.run] ELSE msg.node

\* What is not slow is over before the clock moves.
MayWait ==
    /\ "network" \notin Slow =>
          /\ \A msg \in net : ~Free(Receiver(msg))
          /\ \A n \in Node : Free(n) => control[n] = <<>>
          /\ \A r \in Run : phase[r] # "next" /\ (phase[r] = "collecting" => ~WindowOver(r))
    /\ "runtime" \notin Slow => \A n \in Node : Free(n)

Aged(t) == [r \in DOMAIN t |-> IF t[r] = 0 THEN 0 ELSE t[r] - 1]

\* Clocks that nobody reads stand still, and counters stop where the code no
\* longer tells larger values apart.
Tick ==
    /\ MayWait
    /\ table' = [n \in Node |-> Aged(table[n])]
    /\ asked' = [r \in Run |->
                    IF \/ asked[r] > CapWindow
                       \/ ~\E msg \in net : msg.kind = "capreq" /\ msg.run = r
                    THEN asked[r] ELSE asked[r] + 1]
    /\ timer' = [r \in Run |->
                    IF timer[r] = ApplyTimeout \/ phase[r] \notin {"collecting", "awaiting"}
                    THEN timer[r] ELSE timer[r] + 1]
    /\ UNCHANGED <<running, loop, control, net, phase, responders, sent>>

-----------------------------------------------------------------------------
RunStep(r) == CloseWindow(r) \/ SendApply(r) \/ Complete(r) \/ ApplyTimedOut(r)

LoopStep(n) ==
    \/ HandleQuery(n) \/ FailQuery(n) \/ HandleSendApply(n)
    \/ \E msg \in net :
          /\ Receiver(msg) = n
          /\ HandleCapacityRequest(msg) \/ HandleReply(msg) \/ HandleApply(msg)

Next ==
    \/ \E r \in Run : Start(r) \/ RunStep(r)
    \/ \E n \in Node : LoopStep(n) \/ FinishDeployment(n)
    \/ \E msg \in net : Lose(msg)
    \/ Tick

Spec == Init /\ [][Next]_vars

\* Timers fire and the CLI goes on; nothing is assumed of event loops, runtimes
\* or the network.
CliFairness == WF_vars(Tick) /\ \A r \in Run : WF_vars(RunStep(r))

\* Besides, event loops take up what is queued and deployments come to an end.
LoopFairness == \A n \in Node : WF_vars(LoopStep(n)) /\ WF_vars(FinishDeployment(n))

CliSpec == Spec /\ CliFairness

FairSpec == Spec /\ CliFairness /\ LoopFairness

-----------------------------------------------------------------------------
(* Properties *)

\* Types: a node promises no more than its slots at once and no promise outlasts the
\* hold time (reserve_capacity), and what is queued is a control message.
TypeOK ==
    /\ \A n \in Node : \E S \in SUBSET Run :
          /\ table[n] \in [S -> 0..Hold]
          /\ IsFiniteSet(S) /\ Cardinality(S) <= Slots[n]
    /\ running \in [Node -> SUBSET Manifest]
    /\ \A n \in Node : Free(n) \/ loop[n] \in [run : Run, self : BOOLEAN]
    /\ \A n \in Node : \A i \in DOMAIN control[n] : control[n][i] \in Control
    /\ net \subseteq Message
    /\ asked \in [Run -> 0..(CapWindow + 1)]
    /\ phase \in [Run -> Phase]
    /\ \A r \in Run : \A i \in DOMAIN responders[r] : responders[r][i] \in Node
    /\ sent \in [Run -> Nat]
    /\ timer \in [Run -> 0..ApplyTimeout]

\* A manifest runs only on nodes that some run of it selected and has already
\* turned to: a run that gives up has touched a prefix of its selection.
RolloutInOrder ==
    \A n \in Node : \A m \in running[n] :
        \E r \in RunsOf(m) : \E i \in 1..sent[r] : Selected(r)[i] = n

\* One run never leaves more copies of its manifest than replicas, whatever is
\* lost, late or repeated.
NoExtraCopies ==
    \A m \in Manifest : \A r \in Run :
        RunsOf(m) = {r} => Cardinality({n \in Node : m \in running[n]}) <= Replicas[r]

\* The local answer is queued before any reply can be handled, so the node that
\* serves the API is the first candidate of every run it does not sit out.
OriginFirst ==
    \A r \in Run :
        responders[r] # <<>> /\ Origin[r] \notin Disabled => Head(responders[r]) = Origin[r]

\* apply_file comes to an end even if the origin's event loop never does.
RunsEnd == \A r \in Run : phase[r] # "new" ~> phase[r] \in {"ok", "failed"}

\* What apply_file reports as completed will run on every selected node ("all
\* will announce same ID to DHT").
CompletedMeansDeployed ==
    \A r \in Run :
        phase[r] = "ok" ~>
            \A i \in DOMAIN Selected(r) : ManifestOf[r] \in running[Selected(r)[i]]
=============================================================================
