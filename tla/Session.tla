--------------------------------- MODULE Session ---------------------------------
(***************************************************************************)
(* Sealed requests: the API clients and peers of a node, the nonces that   *)
(* keep an envelope from being taken twice, and the tasks of the REST API  *)
(* (cli/src/flatbuffers.rs, restapi/envelope_handler.rs, restapi/mod.rs,   *)
(* libp2p_beemesh/envelope.rs, crypto/src/flatbuffer_envelope.rs).         *)
(*                                                                         *)
(* A client fetches the KEM key of the node once and seals every request   *)
(* to it.  Requests may be delayed, lost or delivered again; the handler   *)
(* of a request is dropped at an await when its connection closes; the     *)
(* node restarts, with another KEM key if it is kept in memory.  What      *)
(* candidate, apply and delete requests do is in Placement and Deletion;   *)
(* here they write and drop the owners that creations write too.           *)
(*                                                                         *)
(* The time an envelope is built (ts) is signed and never looked at by the *)
(* receiver, so a copy may be accepted again once its nonce is pruned:     *)
(* Lifetime =< Window is what AcceptedOnce asks of the network.            *)
(***************************************************************************)
EXTENDS Naturals

CONSTANTS
    Client, Peer, Manifest,
    Window,        \* nonce_window, 300 s
    Lifetime,      \* how long a copy of a message may stay in the network
    MaxRequests,   \* bound: how many envelopes are built
    MaxKem,        \* bound: the last KEM key
    MaxTime,       \* bound: the clock stops here
    None

Nonce == 1..MaxRequests
Kem == 1..MaxKem
Creation == "create"
Kind == {Creation, "forward"}   \* create_task; candidates, apply_direct, delete_task

EnvelopeType ==
    [nonce : Nonce, from : Client \union Peer, kem : Kem, kind : Kind \union {"message"},
     manifest : Manifest \union {None}, sent : 0..MaxTime]

ClientType ==
    [step : {"idle", "keyed", "waiting", "refused"},
     kem : Kem \union {None}, nonce : Nonce \union {None}]

EntryType == [label : Peer \union {"cli-client"}, nonce : Nonce, at : 0..MaxTime]

HandlerType ==
    [nonce : Nonce, from : Client, kind : Kind, manifest : Manifest,
     step : {"map", "store", "owner", "respond"}, to : Client \union {None}]

TaskType == [operation : Nonce, owner : Client]
AnswerType == [nonce : Nonce, manifest : Manifest, kem : Client]

ASSUME SessionAssumption ==
    /\ Window \in Nat /\ Lifetime \in Nat
    /\ MaxRequests \in Nat /\ MaxKem \in Nat \ {0} /\ MaxTime \in Nat
    /\ Lifetime =< Window
    /\ Client \intersect Peer = {}
    /\ None \notin Manifest \union Client \union TaskType

VARIABLES
    now,
    kem,          \* the KEM key of the node, numbered
    built,        \* how many envelopes have been built; their nonces, hashes of
                  \* the time in nanoseconds or random, are taken to be distinct: 1..built
    net,          \* the envelopes that may still arrive
    delivered,    \* the nonces whose first copy has arrived
    cli,          \* the clients
    nonces,       \* NONCE_STORE
    accepted,     \* history: how often each nonce was accepted since the start
    handlers,     \* the handlers of accepted requests
    mapping,      \* OPERATION_MANIFEST_MAPPING; the operation is named by the nonce
    task_store,
    owners,       \* the manifests with an entry in MANIFEST_OWNER_MAP; whose key it
                  \* holds matters to deletes only and is in Deletion
    dropped,      \* history: the stored tasks whose owner was dropped since it was recorded
    acked         \* history: the answers to creations their clients have read since the start

session == <<now, kem, built, net, delivered, cli>>
tasks == <<mapping, task_store, owners, dropped, acked>>
vars == <<session, nonces, accepted, handlers, tasks>>

\* The CLI calls itself "cli-client", whoever runs it; a peer has its id.
Label(from) == IF from \in Client THEN "cli-client" ELSE from

Envelope(from, key, kind, m) ==
    [nonce |-> built + 1, from |-> from, kem |-> key, kind |-> kind, manifest |-> m, sent |-> now]

NewClient == [step |-> "idle", kem |-> None, nonce |-> None]
Keyed(key) == [step |-> "keyed", kem |-> key, nonce |-> None]
Waiting(key, n) == [step |-> "waiting", kem |-> key, nonce |-> n]
Refused == [step |-> "refused", kem |-> None, nonce |-> None]

Init ==
    /\ now = 0 /\ kem = 1 /\ built = 0
    /\ net = {} /\ delivered = {}
    /\ cli = [c \in Client |-> NewClient]
    /\ nonces = {} /\ accepted = [n \in Nonce |-> 0]
    /\ handlers = {}
    /\ mapping = [n \in Nonce |-> None]
    /\ task_store = [m \in Manifest |-> None]
    /\ owners = {} /\ dropped = {}
    /\ acked = {}

get_kem_public_key == kem

\* FlatbufferClient::new and fetch_machine_public_key, once for a command.
FetchKey(c) ==
    /\ cli[c].step \notin {"keyed", "waiting"}
    /\ cli' = [cli EXCEPT ![c] = Keyed(get_kem_public_key)]
    /\ UNCHANGED <<now, kem, built, net, delivered, nonces, accepted, handlers, tasks>>

\* send_encrypted_request, send_delete_request: sealed to the key fetched then.
Request(c, kind, m) ==
    /\ cli[c].step = "keyed" /\ built < MaxRequests
    /\ net' = net \union {Envelope(c, cli[c].kem, kind, m)}
    /\ built' = built + 1
    /\ cli' = [cli EXCEPT ![c] = Waiting(cli[c].kem, built + 1)]
    /\ UNCHANGED <<now, kem, delivered, nonces, accepted, handlers, tasks>>

\* Signed with a nonce and the time, and not encrypted.
sign_payload_default(p) == Envelope(p, kem, "message", None)

\* A peer's message.
PeerSend(p) ==
    /\ built < MaxRequests
    /\ net' = net \union {sign_payload_default(p)}
    /\ built' = built + 1
    /\ UNCHANGED <<now, kem, delivered, cli, nonces, accepted, handlers, tasks>>

Entry(e) == [label |-> Label(e.from), nonce |-> e.nonce, at |-> now]

Early_Retained(label) == {r \in nonces : r.label = label => now - r.at < Window}

\* check_and_insert_nonce_for_peer forgets what is older than the window, for
\* this sender only...
Retained(label) == {r \in nonces : r.label = label => now - r.at =< Window}

Seen(e) == \E r \in Retained(Label(e.from)) : r.label = Label(e.from) /\ r.nonce = e.nonce

\* ...and records the nonce unless it is there, before the signature is looked
\* at and the payload decrypted.
Noted(e) ==
    Retained(Label(e.from)) \union
        IF Seen(e) THEN {} ELSE {Entry(e)}

Arriving(e) == e \in net /\ now - e.sent =< Lifetime

\* decrypt_payload_from_recipient_blob fails for another key.
Decrypts(e) == e.kem = kem

Twice_Passes(e) == e.nonce \notin {r.nonce : r \in Noted(e)} /\ Decrypts(e)

\* decrypt_request_envelope: verified, then decrypted.
Passes(e) == ~Seen(e) /\ Decrypts(e)

\* The copy that came over the client's own connection, the first to arrive.
Own(e) ==
    /\ e.nonce \notin delivered
    /\ cli[e.from].step = "waiting" /\ cli[e.from].nonce = e.nonce

Handler(e) ==
    [nonce |-> e.nonce, from |-> e.from, kind |-> e.kind, manifest |-> e.manifest,
     step |-> IF e.kind = Creation THEN "map" ELSE "respond",
     to |-> IF Own(e) THEN e.from ELSE None]

Count(n) == IF accepted[n] < 2 THEN accepted[n] + 1 ELSE 2

\* envelope_middleware passes the decrypted request on to its handler.
Accept(e) ==
    /\ Arriving(e) /\ e.from \in Client /\ Passes(e)
    /\ nonces' = Noted(e)
    /\ accepted' = [accepted EXCEPT ![e.nonce] = Count(e.nonce)]
    /\ delivered' = delivered \union {e.nonce}
    /\ handlers' = handlers \union {Handler(e)}
    /\ UNCHANGED <<now, kem, built, net, cli, tasks>>

\* envelope_middleware answers 401; the command ends.
Refuse(e) ==
    /\ Arriving(e) /\ e.from \in Client /\ ~Passes(e)
    /\ nonces' = Noted(e)
    /\ delivered' = delivered \union {e.nonce}
    /\ cli' = IF Own(e) THEN [cli EXCEPT ![e.from] = Refused] ELSE cli
    /\ UNCHANGED <<now, kem, built, net, accepted, handlers, tasks>>

verify_signed_message(e) == ~Seen(e)

Refreshing_PeerReceive(e) ==
    /\ Arriving(e) /\ e.from \in Peer
    /\ nonces' = Retained(Label(e.from)) \union {Entry(e)}
    /\ accepted' = IF verify_signed_message(e)
                   THEN [accepted EXCEPT ![e.nonce] = Count(e.nonce)] ELSE accepted
    /\ delivered' = delivered \union {e.nonce}
    /\ UNCHANGED <<now, kem, built, net, cli, handlers, tasks>>

\* The handlers of libp2p.
PeerReceive(e) ==
    /\ Arriving(e) /\ e.from \in Peer
    /\ nonces' = Noted(e)
    /\ accepted' = IF verify_signed_message(e)
                   THEN [accepted EXCEPT ![e.nonce] = Count(e.nonce)] ELSE accepted
    /\ delivered' = delivered \union {e.nonce}
    /\ UNCHANGED <<now, kem, built, net, cli, handlers, tasks>>

\* No copy of it will arrive any more; if none did, the client's send fails.
Lose(e) ==
    /\ e \in net
    /\ net' = net \ {e}
    /\ cli' = IF e.from \in Client /\ Own(e) THEN [cli EXCEPT ![e.from] = NewClient] ELSE cli
    /\ UNCHANGED <<now, kem, built, delivered, nonces, accepted, handlers, tasks>>

TaskRecord(h) == [operation |-> h.nonce, owner |-> h.from]

At(h, step) == [h EXCEPT !.step = step]
Moved(h, step) == (handlers \ {h}) \union {At(h, step)}

store_operation_manifest_mapping(operation, m) == [mapping EXCEPT ![operation] = m]
get_manifest_cid_for_operation(operation) == mapping[operation]

record_manifest_owner(m) ==
    /\ owners' = owners \union {m}
    /\ dropped' = dropped \ {m}

remove_manifest_owner(m) ==
    /\ owners' = owners \ {m}
    /\ dropped' = IF task_store[m] = None THEN dropped ELSE dropped \union {m}

StoreFirst_MapOperation(h) ==
    /\ h.step = "map"
    /\ task_store' = [task_store EXCEPT ![h.manifest] = TaskRecord(h)]
    /\ handlers' = Moved(h, "store")
    /\ UNCHANGED <<session, nonces, accepted, mapping, owners, dropped, acked>>

\* create_task: store_operation_manifest_mapping,
MapOperation(h) ==
    /\ h.step = "map"
    /\ mapping' = store_operation_manifest_mapping(h.nonce, h.manifest)
    /\ handlers' = Moved(h, "store")
    /\ UNCHANGED <<session, nonces, accepted, task_store, owners, dropped, acked>>

Unowned_StoreTask(h) ==
    /\ h.step = "store"
    /\ task_store' = [task_store EXCEPT ![h.manifest] = TaskRecord(h)]
    /\ handlers' = Moved(h, "respond")
    /\ UNCHANGED <<session, nonces, accepted, mapping, owners, dropped, acked>>

\* ...the task record, in place of an earlier one,
StoreTask(h) ==
    /\ h.step = "store"
    /\ task_store' = [task_store EXCEPT ![h.manifest] = TaskRecord(h)]
    /\ handlers' = Moved(h, "owner")
    /\ UNCHANGED <<session, nonces, accepted, mapping, owners, dropped, acked>>

\* ...and the owner, the key that signed the envelope.
RecordOwner(h) ==
    /\ h.step = "owner"
    /\ record_manifest_owner(h.manifest)
    /\ handlers' = Moved(h, "respond")
    /\ UNCHANGED <<session, nonces, accepted, mapping, task_store, acked>>

\* process_manifest_deployment, in the event loop: the machine whose apply it is
\* becomes the owner, in place of the client whose creation it came from.
DeployApplied(m) ==
    /\ record_manifest_owner(m)
    /\ UNCHANGED <<session, nonces, accepted, handlers, mapping, task_store, acked>>

\* remove_workloads_by_manifest_id, called by delete_task and for signed deletes, ends
\* without an error, whoever owns the manifest by then and whether it was deployed.
\* The task stays in the store.
DropOwner(m) ==
    /\ m \in owners
    /\ remove_manifest_owner(m)
    /\ UNCHANGED <<session, nonces, accepted, handlers, mapping, task_store, acked>>

\* Encrypted to the KEM key in the request's envelope, its sender's.
encrypt_response_envelope_with_key(h) ==
    [nonce |-> h.nonce, manifest |-> h.manifest, kem |-> h.from]

decrypt_from_machine(c, answer) == answer.kem = c

Connected(h) == h.to # None /\ cli[h.to].step = "waiting" /\ cli[h.to].nonce = h.nonce

\* The response goes back over the connection the request came in on.
Respond(h) ==
    /\ h.step = "respond"
    /\ handlers' = handlers \ {h}
    /\ cli' = IF Connected(h) THEN [cli EXCEPT ![h.to] = Keyed(cli[h.to].kem)] ELSE cli
    /\ acked' = LET answer == encrypt_response_envelope_with_key(h)
                IN  IF Connected(h) /\ h.kind = Creation /\ decrypt_from_machine(h.to, answer)
                    THEN acked \union {answer} ELSE acked
    /\ UNCHANGED <<now, kem, built, net, delivered, nonces, accepted, mapping, task_store, owners, dropped>>

\* The future of a handler whose connection is closed is dropped at an await.
Cancel(h) ==
    /\ ~Connected(h)
    /\ handlers' = handlers \ {h}
    /\ UNCHANGED <<session, nonces, accepted, tasks>>

\* The command is done, or is interrupted; a request it waits for stays under way.
End(c) ==
    /\ cli[c].step \in {"keyed", "waiting"}
    /\ cli' = [cli EXCEPT ![c] = NewClient]
    /\ UNCHANGED <<now, kem, built, net, delivered, nonces, accepted, handlers, tasks>>

\* The node restarts: all that is in memory is gone, and so are the connections.
Restart(key) ==
    /\ kem' = key
    /\ nonces' = {} /\ accepted' = [n \in Nonce |-> 0]
    /\ handlers' = {}
    /\ cli' = [c \in Client |->
          IF cli[c].step = "waiting" THEN NewClient ELSE cli[c]]
    /\ mapping' = [n \in Nonce |-> None]
    /\ task_store' = [m \in Manifest |-> None]
    /\ owners' = {} /\ dropped' = {}
    /\ acked' = {}
    /\ UNCHANGED <<now, built, net, delivered>>

Tick ==
    /\ now < MaxTime
    /\ now' = now + 1
    /\ UNCHANGED <<kem, built, net, delivered, cli, nonces, accepted, handlers, tasks>>

\* A command of the CLI, delete_file or apply_file: the key, then its requests.
Command(c) ==
    FetchKey(c) \/ End(c) \/ \E kind \in Kind, m \in Manifest : Request(c, kind, m)

Create(h) == MapOperation(h) \/ StoreTask(h) \/ RecordOwner(h)

Next ==
    \/ \E c \in Client : Command(c)
    \/ \E p \in Peer : PeerSend(p)
    \/ \E e \in net : Accept(e) \/ Refuse(e) \/ PeerReceive(e) \/ Lose(e)
    \/ \E h \in handlers : Create(h) \/ Respond(h) \/ Cancel(h)
    \/ \E m \in Manifest : DeployApplied(m) \/ DropOwner(m)
    \/ \E key \in {kem, kem + 1} \intersect Kem : Restart(key)
    \/ Tick

Spec == Init /\ [][Next]_vars
----------------------------------------------------------------------------------
\* Types; a sender's nonce is in the store once, however often it was checked
\* (check_and_insert_nonce_for_peer).
TypeOK ==
    /\ now \in 0..MaxTime /\ kem \in Kem /\ built \in 0..MaxRequests
    /\ net \subseteq EnvelopeType
    /\ delivered \subseteq Nonce
    /\ cli \in [Client -> ClientType]
    /\ nonces \subseteq EntryType
    /\ \A r, s \in nonces : r.label = s.label /\ r.nonce = s.nonce => r = s
    /\ accepted \in [Nonce -> 0..2]
    /\ handlers \subseteq HandlerType
    /\ mapping \in [Nonce -> Manifest \union {None}]
    /\ task_store \in [Manifest -> TaskType \union {None}]
    /\ owners \subseteq Manifest /\ dropped \subseteq Manifest
    /\ acked \subseteq AnswerType

\* Between two starts of a node an envelope is accepted once, from whomever it
\* comes and however late its copies are delivered, as long as no copy outlives
\* the window (check_and_insert_nonce_for_peer; "Check replay protection").
AcceptedOnce == \A n \in Nonce : accepted[n] =< 1

\* A client's own request is only refused if the node has changed its KEM key
\* since the client fetched it: no other client, copy or expired nonce gets in
\* its way (decrypt_request_envelope after fetch_machine_public_key).
RefusedOnlyIfStale ==
    [][\A c \in Client :
          cli[c].step = "waiting" /\ cli'[c].step = "refused" => cli[c].kem # kem]_vars

\* What get_task_manifest_id looks up before it falls back on the record.
StoredCid(m) == get_manifest_cid_for_operation(task_store[m].operation)

\* A task in the store can be traced: the operation it names maps to its id,
\* whichever creations of it ran at once or were cut short (create_task, so that
\* get_task_manifest_id needs no fallback; "ensure consistent manifest ID usage").
TaskTraceable ==
    \A m \in Manifest : task_store[m] # None => StoredCid(m) = m

get_task_status(m) == IF task_store[m] = None THEN "Error" ELSE "Pending"

\* A creation that was answered is there until the node restarts, and its manifest has
\* an owner, who can delete it, unless a removal has dropped the owner since: it does
\* not matter which creations and applies overlap or are cut short (create_task).
AckedTaskOwned ==
    \A a \in acked :
        /\ get_task_status(a.manifest) = "Pending"
        /\ a.manifest \in owners \union dropped
==================================================================================
