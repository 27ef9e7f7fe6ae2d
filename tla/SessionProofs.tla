---------------------------- MODULE SessionProofs ----------------------------
(***************************************************************************)
(* An envelope is accepted once, a client is only refused for a stale key, *)
(* a stored task can be traced and an answered one has an owner unless a   *)
(* removal has dropped it: for any clients, peers and manifests, and any   *)
(* window that no copy outlives.                                           *)
(*                                                                         *)
(* The store forgets nonces, so that "accepted" alone is not inductive:    *)
(* what is kept is that the nonce of an accepted envelope that may still   *)
(* arrive is in the store, noted no earlier than the envelope was built.   *)
(* The tasks need besides that all copies and handlers of an operation are *)
(* for one manifest, and that a handler has done what comes before its     *)
(* step.                                                                   *)
(***************************************************************************)
EXTENDS Session, TLAPS

\* The envelopes: numbered as they were built, and what a client waits for is
\* sealed to its key.
Numbered ==
    /\ delivered \subseteq 1..built
    /\ \A e \in net : e.nonce \in 1..built /\ e.sent =< now
    /\ \A e, f \in net : e.nonce = f.nonce => e = f
    /\ \A e \in net : e.from \in Client => e.kind \in Kind /\ e.manifest \in Manifest

Sealed ==
    /\ \A c \in Client : cli[c].step \in {"keyed", "waiting"} => cli[c].kem \in Kem
    /\ \A e \in net :
          e.from \in Client /\ cli[e.from].step = "waiting" /\ cli[e.from].nonce = e.nonce
          => cli[e.from].kem = e.kem

\* The store: what is in it was delivered, and an envelope that was accepted
\* and may still arrive is in it.
Noticed ==
    /\ \A r \in nonces : r.nonce \in delivered /\ r.at =< now
    /\ \A n \in Nonce : accepted[n] # 0 => n =< built

Kept ==
    \A e \in net :
        now - e.sent =< Lifetime /\ accepted[e.nonce] # 0
        => \E r \in nonces : r.label = Label(e.from) /\ r.nonce = e.nonce /\ e.sent =< r.at

Replay == Numbered /\ Sealed /\ Noticed /\ Kept /\ AcceptedOnce

RInv == TypeOK /\ Replay

\* The records: their fields, and the fields of what is put into them.  The
\* other proofs never look inside a record.
LEMMA ClientForms ==
    /\ NewClient.step = "idle" /\ Refused.step = "refused"
    /\ \A key : Keyed(key).step = "keyed" /\ Keyed(key).kem = key
    /\ \A key, n : /\ Waiting(key, n).step = "waiting"
                   /\ Waiting(key, n).kem = key /\ Waiting(key, n).nonce = n
BY DEF NewClient, Refused, Keyed, Waiting

LEMMA EnvelopeForm ==
    ASSUME NEW from, NEW key, NEW kind, NEW m, NEW e, e = Envelope(from, key, kind, m)
    PROVE  /\ e.nonce = built + 1 /\ e.sent = now /\ e.kind = kind /\ e.manifest = m
           /\ e.from = from /\ e.kem = key
BY DEF Envelope

LEMMA EntryForm ==
    ASSUME NEW e
    PROVE  Entry(e).label = Label(e.from) /\ Entry(e).nonce = e.nonce /\ Entry(e).at = now
BY DEF Entry

LEMMA HandlerForm ==
    ASSUME NEW e, NEW g, g = Handler(e)
    PROVE  /\ g.nonce = e.nonce /\ g.manifest = e.manifest /\ g.kind = e.kind
           /\ g.step = IF e.kind = Creation THEN "map" ELSE "respond"
BY DEF Handler

LEMMA TaskForm ==
    ASSUME NEW h, h.nonce \in Nonce, h.from \in Client
    PROVE  TaskRecord(h).operation = h.nonce /\ TaskRecord(h) \in TaskType /\ TaskRecord(h) # None
<1>1. TaskRecord(h).operation = h.nonce /\ TaskRecord(h) \in TaskType
  BY DEF TaskRecord, TaskType
<1> QED BY <1>1, SessionAssumption

LEMMA AnswerForm ==
    ASSUME NEW h, h.nonce \in Nonce, h.manifest \in Manifest, h.from \in Client,
           NEW a, a = encrypt_response_envelope_with_key(h)
    PROVE  a.manifest = h.manifest /\ a \in AnswerType
BY DEF encrypt_response_envelope_with_key, AnswerType

LEMMA Fields ==
    /\ \A e \in EnvelopeType :
          /\ e.nonce \in Nonce /\ e.from \in Client \union Peer /\ e.kem \in Kem
          /\ e.kind \in Kind \union {"message"} /\ e.manifest \in Manifest \union {None}
          /\ e.sent \in 0..MaxTime
    /\ \A c \in ClientType : c.kem \in Kem \union {None}
    /\ \A r \in EntryType : r.nonce \in Nonce /\ r.at \in 0..MaxTime
    /\ \A h \in HandlerType :
          /\ h.nonce \in Nonce /\ h.from \in Client /\ h.kind \in Kind
          /\ h.manifest \in Manifest /\ h.to \in Client \union {None}
    /\ \A t \in TaskType : t.operation \in Nonce
    /\ \A a \in AnswerType : a.manifest \in Manifest
BY DEF EnvelopeType, ClientType, EntryType, HandlerType, TaskType, AnswerType

LEMMA ClientsTyped ==
    /\ NewClient \in ClientType /\ Refused \in ClientType
    /\ \A key \in Kem \union {None} : Keyed(key) \in ClientType
    /\ \A key \in Kem, n \in Nonce : Waiting(key, n) \in ClientType
BY DEF NewClient, Refused, Keyed, Waiting, ClientType

LEMMA InitRInv == Init => RInv
<1> SUFFICES ASSUME Init PROVE RInv
  OBVIOUS
<1> USE SessionAssumption DEF Init
<1>1. TypeOK
  BY ClientsTyped DEF TypeOK, Kem
<1>2. Replay
  BY ClientForms DEF Replay, Numbered, Sealed, Noticed, Kept, AcceptedOnce
<1> QED BY <1>1, <1>2 DEF RInv

\* Types, one action at a time.
LEMMA ClientTyped ==
    ASSUME TypeOK, NEW c \in Client, NEW r \in ClientType
    PROVE  [cli EXCEPT ![c] = r] \in [Client -> ClientType]
BY DEF TypeOK

LEMMA Labelled ==
    ASSUME NEW from \in Client \union Peer
    PROVE  Label(from) \in Peer \union {"cli-client"}
BY DEF Label

LEMMA NotedTyped ==
    ASSUME TypeOK, NEW e \in net
    PROVE  /\ Noted(e) \subseteq EntryType
           /\ \A r, s \in Noted(e) : r.label = s.label /\ r.nonce = s.nonce => r = s
           /\ \A r \in Noted(e) : r \in nonces \/ (r.nonce = e.nonce /\ r.at = now)
<1>1. e.nonce \in Nonce /\ Label(e.from) \in Peer \union {"cli-client"} /\ now \in 0..MaxTime
  BY Labelled, Fields DEF TypeOK
<1>2. Entry(e) \in EntryType
  BY <1>1 DEF Entry, EntryType
<1>3. nonces \subseteq EntryType
  BY DEF TypeOK
<1>4. ASSUME NEW r \in nonces, ~Seen(e), r \in Retained(Label(e.from)), r.label = Label(e.from)
      PROVE  r.nonce # e.nonce
  BY <1>4 DEF Seen
<1>5. \A r, s \in Noted(e) : r.label = s.label /\ r.nonce = s.nonce => r = s
  BY <1>3, <1>4, EntryForm DEF Noted, Retained, TypeOK
<1> QED BY <1>2, <1>3, <1>5, EntryForm DEF Noted, Retained

LEMMA EnvelopeTyped ==
    ASSUME TypeOK, built < MaxRequests, NEW from \in Client \union Peer, NEW key \in Kem,
           NEW kind \in Kind \union {"message"}, NEW m \in Manifest \union {None}
    PROVE  Envelope(from, key, kind, m) \in EnvelopeType
BY SessionAssumption DEF Envelope, EnvelopeType, TypeOK, Nonce

LEMMA FetchTyped ==
    ASSUME RInv, NEW c \in Client, FetchKey(c) \/ End(c)
    PROVE  TypeOK'
<1> USE DEF RInv
<1>1. Keyed(kem) \in ClientType
  BY ClientsTyped DEF TypeOK
<1>2. cli' \in [Client -> ClientType]
  BY <1>1, ClientTyped, ClientsTyped DEF FetchKey, get_kem_public_key, End
<1> QED BY <1>2 DEF TypeOK, FetchKey, End, tasks

LEMMA RequestTyped ==
    ASSUME RInv, NEW c \in Client, NEW kind \in Kind, NEW m \in Manifest,
           Request(c, kind, m)
    PROVE  TypeOK'
<1> USE DEF RInv
<1>0. cli[c].kem \in Kem /\ built + 1 \in Nonce
  BY SessionAssumption DEF TypeOK, Replay, Sealed, Request, Nonce
<1>1. cli' \in [Client -> ClientType]
  <2>1. Waiting(cli[c].kem, built + 1) \in ClientType
    BY <1>0, ClientsTyped
  <2> QED BY <2>1, ClientTyped DEF Request
<1>2. net' \subseteq EnvelopeType
  BY <1>0, EnvelopeTyped DEF TypeOK, Request
<1>3. built' \in 0..MaxRequests
  BY SessionAssumption DEF TypeOK, Request
<1> QED BY <1>1, <1>2, <1>3 DEF TypeOK, Request, tasks

LEMMA PeerSendTyped ==
    ASSUME RInv, NEW p \in Peer, PeerSend(p)
    PROVE  TypeOK'
<1> USE DEF RInv
<1>1. net' \subseteq EnvelopeType
  <2>1. Envelope(p, kem, "message", None) \in EnvelopeType
    <3>1. kem \in Kem /\ built < MaxRequests /\ p \in Client \union Peer
      BY DEF TypeOK, PeerSend
    <3> QED BY <3>1, EnvelopeTyped
  <2> QED BY <2>1 DEF TypeOK, PeerSend, sign_payload_default
<1>2. built' \in 0..MaxRequests
  BY SessionAssumption DEF TypeOK, PeerSend
<1> QED BY <1>1, <1>2 DEF TypeOK, PeerSend, tasks

LEMMA Counted ==
    ASSUME TypeOK, NEW n \in Nonce
    PROVE  [accepted EXCEPT ![n] = Count(n)] \in [Nonce -> 0..2]
BY DEF TypeOK, Count

LEMMA HandlerTyped ==
    ASSUME RInv, NEW e \in net, e.from \in Client
    PROVE  Handler(e) \in HandlerType
<1>1. e.nonce \in Nonce /\ e.kind \in Kind /\ e.manifest \in Manifest
  BY Fields DEF RInv, Replay, Numbered, TypeOK
<1> QED BY <1>1 DEF HandlerType, Handler

LEMMA ReceiveTyped ==
    ASSUME RInv, NEW e \in net, Accept(e) \/ Refuse(e) \/ PeerReceive(e) \/ Lose(e)
    PROVE  TypeOK'
<1> USE DEF RInv
<1>1. e.nonce \in Nonce
  BY Fields DEF TypeOK
<1>2. nonces' = Noted(e) \/ nonces' = nonces
  BY DEF Accept, Refuse, PeerReceive, Lose
<1>3. /\ nonces' \subseteq EntryType
      /\ \A r, s \in nonces' : r.label = s.label /\ r.nonce = s.nonce => r = s
  <2>1. CASE nonces' = Noted(e)
    BY <2>1, NotedTyped
  <2>2. CASE nonces' = nonces
    BY <2>2 DEF TypeOK
  <2> QED BY <1>2, <2>1, <2>2, Zenon
<1>4. accepted' \in [Nonce -> 0..2]
  BY <1>1, Counted DEF Accept, Refuse, PeerReceive, verify_signed_message, Lose, TypeOK
<1>5. delivered' \subseteq Nonce
  BY <1>1 DEF Accept, Refuse, PeerReceive, Lose, TypeOK
<1>6. handlers' \subseteq HandlerType
  BY HandlerTyped DEF Accept, Refuse, PeerReceive, Lose, TypeOK, tasks
<1>7. cli' \in [Client -> ClientType]
  BY ClientTyped, ClientsTyped DEF TypeOK, Accept, Refuse, PeerReceive, Lose
<1>8. /\ net' \subseteq net
      /\ UNCHANGED <<now, kem, built, mapping, task_store, owners, dropped, acked>>
  BY DEF Accept, Refuse, PeerReceive, Lose, tasks
<1> QED BY <1>3, <1>4, <1>5, <1>6, <1>7, <1>8 DEF TypeOK

LEMMA MovedTyped ==
    ASSUME TypeOK, NEW h \in handlers, NEW step \in {"map", "store", "owner", "respond"}
    PROVE  Moved(h, step) \subseteq HandlerType
<1>1. h \in HandlerType
  BY DEF TypeOK
<1>2. At(h, step) \in HandlerType
  BY <1>1, Zenon DEF At, HandlerType
<1> QED BY <1>2 DEF TypeOK, Moved

LEMMA HandlerStepTyped ==
    ASSUME RInv, NEW h \in handlers, Create(h) \/ Respond(h) \/ Cancel(h)
    PROVE  TypeOK'
<1> USE DEF RInv
<1>1. h \in HandlerType /\ h.nonce \in Nonce /\ h.manifest \in Manifest /\ h.from \in Client
      /\ h.to \in Client \union {None}
  BY Fields DEF TypeOK
<1>2. CASE Create(h)
  <2>1. handlers' \subseteq HandlerType
    BY <1>2, MovedTyped DEF Create, MapOperation, StoreTask, RecordOwner
  <2>2. mapping' \in [Nonce -> Manifest \union {None}]
    BY <1>1, <1>2 DEF Create, MapOperation, store_operation_manifest_mapping, StoreTask, RecordOwner, TypeOK
  <2>3. owners' \subseteq Manifest /\ dropped' \subseteq Manifest
    BY <1>1, <1>2 DEF Create, MapOperation, StoreTask, RecordOwner, record_manifest_owner, TypeOK
  <2>4. task_store' \in [Manifest -> TaskType \union {None}]
    <3>1. TaskRecord(h) \in TaskType
      BY <1>1, TaskForm
    <3>2. task_store \in [Manifest -> TaskType \union {None}]
      BY DEF TypeOK
    <3> QED BY <3>1, <3>2, <1>1, <1>2 DEF Create, MapOperation, StoreTask, RecordOwner
  <2>5. UNCHANGED <<session, nonces, accepted, acked>>
    BY <1>2 DEF Create, MapOperation, StoreTask, RecordOwner
  <2> QED BY <2>1, <2>2, <2>3, <2>4, <2>5 DEF TypeOK, session
<1>3. CASE Respond(h)
  <2>1. cli' \in [Client -> ClientType]
    <3>1. CASE Connected(h)
      <4>1. h.to \in Client
        BY <1>1, <3>1 DEF Connected
      <4>2. cli[h.to].kem \in Kem \union {None}
        BY <4>1, Fields DEF TypeOK
      <4>3. Keyed(cli[h.to].kem) \in ClientType
        BY <4>2, ClientsTyped
      <4> QED BY <1>3, <3>1, <4>1, <4>3, ClientTyped DEF Respond
    <3>2. CASE ~Connected(h)
      BY <1>3, <3>2 DEF TypeOK, Respond
    <3> QED BY <3>1, <3>2, Zenon
  <2>2. acked' \subseteq AnswerType
    BY <1>1, <1>3, AnswerForm DEF Respond, TypeOK
  <2> QED BY <1>3, <2>1, <2>2 DEF Respond, TypeOK
<1>4. CASE Cancel(h)
  BY <1>4 DEF Cancel, TypeOK, session, tasks
<1> QED BY <1>2, <1>3, <1>4

LEMMA OwnerTyped ==
    ASSUME RInv, NEW m \in Manifest, DeployApplied(m) \/ DropOwner(m)
    PROVE  TypeOK'
BY DEF RInv, TypeOK, DeployApplied, DropOwner, record_manifest_owner, remove_manifest_owner, session

LEMMA RestartTyped ==
    ASSUME RInv, NEW key \in Kem, Restart(key)
    PROVE  TypeOK'
<1> USE DEF RInv
<1>1. cli' \in [Client -> ClientType]
  BY ClientsTyped DEF TypeOK, Restart
<1> QED BY <1>1 DEF Restart, TypeOK

LEMMA TickTyped == RInv /\ Tick => TypeOK'
BY SessionAssumption DEF RInv, Tick, TypeOK, tasks

\* Replay, one action at a time.  What concerns the clients only:
LEMMA ClientReplay ==
    ASSUME RInv, UNCHANGED <<now, kem, built, net, delivered, nonces, accepted>>, Sealed'
    PROVE  Replay'
BY DEF RInv, Replay, Numbered, Noticed, Kept, AcceptedOnce

LEMMA SealedForm ==
    ASSUME RInv, net' \subseteq net, cli' \in [Client -> ClientType],
           \A c \in Client : \/ cli'[c] = cli[c]
                             \/ cli'[c].step \in {"idle", "refused"}
                             \/ cli'[c].step = "keyed" /\ cli'[c].kem \in Kem
    PROVE  Sealed'
BY DEF RInv, Replay, Sealed

LEMMA FetchReplay ==
    ASSUME RInv, NEW c \in Client, FetchKey(c) \/ End(c)
    PROVE  Replay'
<1>1. cli \in [Client -> ClientType] /\ kem \in Kem
  BY DEF RInv, TypeOK
<1>2. cli' \in [Client -> ClientType]
  BY FetchTyped DEF TypeOK
<1>3. Sealed'
  BY <1>1, <1>2, SealedForm, ClientForms DEF FetchKey, get_kem_public_key, End
<1> QED BY <1>3, ClientReplay DEF FetchKey, End

\* An envelope that is built has a number of its own.
LEMMA BuildReplay ==
    ASSUME RInv, NEW e \in EnvelopeType, net' = net \union {e},
           e.nonce = built + 1, e.sent = now, e.from \in Client => e.kind \in Kind /\ e.manifest \in Manifest,
           built' = built + 1, UNCHANGED <<now, kem, delivered, nonces, accepted>>, Sealed'
    PROVE  Replay'
<1> USE DEF RInv, Replay
<1>1. built \in Nat /\ now \in Nat /\ accepted \in [Nonce -> 0..2]
  BY SessionAssumption DEF TypeOK
<1>2. \A f \in net : f.nonce \in 1..built /\ f.nonce # e.nonce
  BY <1>1 DEF Numbered
<1>3. Numbered'
  BY <1>1, <1>2 DEF Numbered
<1>4. accepted[e.nonce] = 0
  BY <1>1, Fields DEF Noticed
<1>5. Noticed'
  BY <1>1 DEF Noticed, Nonce
<1>6. Kept'
  BY <1>4 DEF Kept
<1> QED BY <1>3, <1>5, <1>6 DEF AcceptedOnce

LEMMA RequestReplay ==
    ASSUME RInv, NEW c \in Client, NEW kind \in Kind, NEW m \in Manifest, Request(c, kind, m)
    PROVE  Replay'
<1> DEFINE e == Envelope(c, cli[c].kem, kind, m)
<1>1. built < MaxRequests /\ cli[c].kem \in Kem
  BY DEF RInv, Replay, Sealed, Request
<1>2. e \in EnvelopeType
  BY <1>1, EnvelopeTyped DEF RInv
<1>3. /\ e.nonce = built + 1 /\ e.sent = now /\ e.kind = kind /\ e.manifest = m
      /\ e.from = c /\ e.kem = cli[c].kem
  BY EnvelopeForm
<1>4. cli \in [Client -> ClientType]
  BY DEF RInv, TypeOK
<1>5. \A f \in net : f.nonce # built + 1
  BY SessionAssumption DEF RInv, Replay, Numbered, TypeOK
<1>6. /\ net' = net \union {e} /\ built' = built + 1
      /\ UNCHANGED <<now, kem, delivered, nonces, accepted>>
      /\ cli'[c] = Waiting(cli[c].kem, built + 1)
      /\ \A d \in Client \ {c} : cli'[d] = cli[d]
  BY <1>4 DEF Request
<1> HIDE DEF e
<1>7. Sealed'
  BY <1>1, <1>3, <1>5, <1>6, ClientForms DEF RInv, Replay, Sealed
<1> QED BY <1>2, <1>3, <1>6, <1>7, BuildReplay

LEMMA PeerSendReplay ==
    ASSUME RInv, NEW p \in Peer, PeerSend(p)
    PROVE  Replay'
<1> DEFINE e == Envelope(p, kem, "message", None)
<1>1. e \in EnvelopeType
  <2>1. kem \in Kem /\ built < MaxRequests /\ p \in Client \union Peer
    BY DEF RInv, TypeOK, PeerSend
  <2> QED BY <2>1, EnvelopeTyped DEF RInv
<1>2. e.nonce = built + 1 /\ e.sent = now /\ e.from = p
  BY EnvelopeForm
<1>3. p \notin Client
  BY SessionAssumption
<1>4. net' = net \union {e} /\ built' = built + 1 /\ UNCHANGED <<now, kem, delivered, cli, nonces, accepted>>
  BY DEF PeerSend, sign_payload_default
<1> HIDE DEF e
<1>5. Sealed'
  BY <1>2, <1>3, <1>4 DEF RInv, Replay, Sealed
<1> QED BY <1>1, <1>2, <1>3, <1>4, <1>5, BuildReplay

\* The store keeps what a copy that may still arrive needs: Lifetime =< Window.
LEMMA NotedKeeps ==
    ASSUME RInv, NEW e \in net, NEW f \in net, now - f.sent =< Lifetime, accepted[f.nonce] # 0
    PROVE  \E r \in Noted(e) : r.label = Label(f.from) /\ r.nonce = f.nonce /\ f.sent =< r.at
<1>1. PICK r \in nonces : r.label = Label(f.from) /\ r.nonce = f.nonce /\ f.sent =< r.at
  BY DEF RInv, Replay, Kept
<1>2. now \in Nat /\ f.sent \in Nat /\ r.at \in Nat
  BY SessionAssumption, Fields DEF RInv, TypeOK
<1>3. now - r.at =< Window
  BY <1>1, <1>2, SessionAssumption
<1>4. r \in Noted(e)
  BY <1>3 DEF Noted, Retained
<1> QED BY <1>1, <1>4

LEMMA NotedHas ==
    ASSUME RInv, NEW e \in net
    PROVE  \E r \in Noted(e) : r.label = Label(e.from) /\ r.nonce = e.nonce /\ (r.at = now \/ Seen(e))
<1>1. CASE Seen(e)
  BY <1>1 DEF Seen, Noted
<1>2. CASE ~Seen(e)
  <2>1. Entry(e) \in Noted(e)
    BY <1>2 DEF Noted
  <2> QED BY <2>1, EntryForm
<1> QED BY <1>1, <1>2

\* An envelope that may arrive and is not in the store was not accepted yet.
LEMMA FirstTime ==
    ASSUME RInv, NEW e \in net, Arriving(e), ~Seen(e)
    PROVE  accepted[e.nonce] = 0
<1> SUFFICES ASSUME accepted[e.nonce] # 0 PROVE FALSE
  OBVIOUS
<1>1. PICK r \in nonces : r.label = Label(e.from) /\ r.nonce = e.nonce /\ e.sent =< r.at
  BY DEF RInv, Replay, Kept, Arriving
<1>2. now \in Nat /\ e.sent \in Nat /\ r.at \in Nat
  BY SessionAssumption, Fields DEF RInv, TypeOK
<1>3. now - r.at =< Window
  BY <1>1, <1>2, SessionAssumption DEF Arriving
<1>4. r \in Retained(Label(e.from))
  BY <1>3 DEF Retained
<1> QED BY <1>1, <1>4 DEF Seen

\* A check of a nonce, whatever comes of it.
LEMMA CheckReplay ==
    ASSUME RInv, NEW e \in net, Arriving(e), nonces' = Noted(e),
           \/ accepted' = accepted
           \/ ~Seen(e) /\ accepted' = [accepted EXCEPT ![e.nonce] = Count(e.nonce)],
           delivered' = delivered \union {e.nonce},
           UNCHANGED <<now, kem, built, net>>, Sealed'
    PROVE  Replay'
<1> USE DEF RInv, Replay
<1>1. /\ built \in Nat /\ now \in Nat /\ e.sent \in Nat /\ e.sent =< now
      /\ accepted \in [Nonce -> 0..2] /\ e.nonce \in Nonce /\ e.nonce \in 1..built
  BY SessionAssumption, Fields DEF TypeOK, Numbered
<1>2. Numbered'
  BY <1>1, Zenon DEF Numbered
<1>3. \A r \in nonces' : r.nonce \in delivered' /\ r.at =< now
  BY <1>1, NotedTyped DEF Noticed
<1>4. CASE accepted' = accepted
  <2>1. Noticed'
    BY <1>3, <1>4 DEF Noticed
  <2>2. Kept'
    BY <1>4, NotedKeeps DEF Kept
  <2> QED BY <1>2, <1>4, <2>1, <2>2 DEF AcceptedOnce
<1>5. CASE ~Seen(e) /\ accepted' = [accepted EXCEPT ![e.nonce] = Count(e.nonce)]
  <2>1. accepted'[e.nonce] = 1 /\ \A n \in Nonce \ {e.nonce} : accepted'[n] = accepted[n]
    BY <1>1, <1>5, FirstTime DEF Count
  <2>2. Noticed'
    BY <1>1, <1>3, <2>1 DEF Noticed
  <2>3. AcceptedOnce'
    BY <2>1 DEF AcceptedOnce
  <2>4. ASSUME NEW f \in net, now - f.sent =< Lifetime, accepted'[f.nonce] # 0
        PROVE  \E r \in nonces' : r.label = Label(f.from) /\ r.nonce = f.nonce /\ f.sent =< r.at
    <3>1. CASE f = e
      BY <1>1, <1>5, <3>1, NotedHas
    <3>2. CASE f # e
      <4>1. f.nonce \in Nonce /\ f.nonce # e.nonce
        BY <3>2, Fields DEF Numbered, TypeOK
      <4>2. accepted[f.nonce] # 0
        BY <2>1, <2>4, <4>1
      <4> QED BY <2>4, <4>2, NotedKeeps
    <3> QED BY <3>1, <3>2, Zenon
  <2>5. Kept'
    BY <2>4 DEF Kept
  <2> QED BY <1>2, <2>2, <2>3, <2>5, Zenon
<1> QED BY <1>4, <1>5

-----------------------------------------------------------------------------
(* No envelope is accepted twice *)


LEMMA ReceiveReplay ==
    ASSUME RInv, NEW e \in net, Accept(e) \/ Refuse(e) \/ PeerReceive(e) \/ Lose(e)
    PROVE  Replay'
<1>1. cli' \in [Client -> ClientType] /\ cli \in [Client -> ClientType]
  BY ReceiveTyped DEF TypeOK, RInv
<1>2. Sealed'
  <2>1. net' \subseteq net
    BY DEF Accept, Refuse, PeerReceive, Lose
  <2>2. \A c \in Client : cli'[c] = cli[c] \/ cli'[c].step \in {"idle", "refused"}
    BY <1>1, ClientForms DEF Accept, Refuse, PeerReceive, Lose
  <2> QED BY <1>1, <2>1, <2>2, SealedForm
<1>3. CASE Accept(e) \/ Refuse(e) \/ PeerReceive(e)
  <2>1. /\ Arriving(e) /\ nonces' = Noted(e) /\ delivered' = delivered \union {e.nonce}
        /\ UNCHANGED <<now, kem, built, net>>
    BY <1>3 DEF Accept, Refuse, PeerReceive
  <2>2. \/ accepted' = accepted
        \/ ~Seen(e) /\ accepted' = [accepted EXCEPT ![e.nonce] = Count(e.nonce)]
    BY <1>3 DEF Accept, Refuse, PeerReceive, verify_signed_message, Passes
  <2> QED BY <1>2, <2>1, <2>2, CheckReplay
<1>4. CASE Lose(e)
  BY <1>2, <1>4 DEF Lose, RInv, Replay, Numbered, Noticed, Kept, AcceptedOnce
<1> QED BY <1>3, <1>4

LEMMA HandlerStepReplay ==
    ASSUME RInv, NEW h \in handlers, Create(h) \/ Respond(h) \/ Cancel(h)
    PROVE  Replay'
<1>1. cli' \in [Client -> ClientType] /\ cli \in [Client -> ClientType]
  BY HandlerStepTyped DEF TypeOK, RInv
<1>2. UNCHANGED <<now, kem, built, net, delivered, nonces, accepted>>
  BY DEF Create, MapOperation, StoreTask, RecordOwner, Respond, Cancel, session
<1>3. \A c \in Client : cli'[c] = cli[c] \/ (cli'[c].step = "keyed" /\ cli'[c].kem \in Kem)
  <2>1. CASE Respond(h) /\ Connected(h)
    <3>1. h.to \in Client /\ cli[h.to].kem \in Kem
      BY <2>1, Fields, SessionAssumption, Zenon DEF Connected, RInv, TypeOK, Replay, Sealed
    <3> QED BY <1>1, <2>1, <3>1, ClientForms, Zenon DEF Respond
  <2>2. CASE ~(Respond(h) /\ Connected(h))
    BY <2>2 DEF Create, MapOperation, StoreTask, RecordOwner, Respond, Cancel, session
  <2> QED BY <2>1, <2>2, Zenon
<1>4. Sealed'
  BY <1>1, <1>2, <1>3, SealedForm
<1> QED BY <1>2, <1>4, ClientReplay

LEMMA OwnerReplay ==
    ASSUME RInv, NEW m \in Manifest, DeployApplied(m) \/ DropOwner(m)
    PROVE  Replay'
<1>1. UNCHANGED <<session, nonces, accepted>>
  BY Zenon DEF DeployApplied, DropOwner
<1> QED BY <1>1 DEF session, RInv, Replay, Numbered, Sealed, Noticed, Kept, AcceptedOnce

LEMMA RestartReplay ==
    ASSUME RInv, NEW key \in Kem, Restart(key)
    PROVE  Replay'
<1>1. cli' \in [Client -> ClientType] /\ cli \in [Client -> ClientType]
  BY RestartTyped DEF TypeOK, RInv
<1>2. Sealed'
  BY <1>1, SealedForm, ClientForms, Zenon DEF Restart
<1>3. \A n \in Nonce : accepted'[n] = 0
  BY Zenon DEF Restart
<1>4. Kept'
  BY <1>3, Fields DEF Restart, Kept, RInv, TypeOK
<1> QED BY <1>2, <1>3, <1>4 DEF Restart, RInv, Replay, Numbered, Noticed, AcceptedOnce

LEMMA TickReplay == RInv /\ Tick => Replay'
<1> SUFFICES ASSUME RInv, Tick PROVE Replay'
  OBVIOUS
<1> USE DEF RInv, Replay, Tick
<1>1. /\ now \in Nat /\ now' = now + 1
      /\ \A e \in net : e.sent \in Nat
      /\ \A r \in nonces : r.at \in Nat
  BY SessionAssumption, Fields DEF TypeOK
<1>2. Numbered'
  BY <1>1 DEF Numbered
<1>3. Noticed'
  BY <1>1 DEF Noticed
<1>4. Kept'
  <2>1. Kept /\ UNCHANGED <<net, nonces, accepted>>
    BY Zenon
  <2> HIDE DEF RInv, Replay, Tick
  <2>2. ASSUME NEW e \in net, now' - e.sent =< Lifetime PROVE now - e.sent =< Lifetime
    BY <1>1, <2>2, SessionAssumption
  <2> QED BY <2>1, <2>2, Zenon DEF Kept
<1>5. Sealed' /\ AcceptedOnce'
  BY DEF Sealed, AcceptedOnce
<1> QED BY <1>2, <1>3, <1>4, <1>5

LEMMA StepRInv == RInv /\ [Next]_vars => RInv'
<1> SUFFICES ASSUME RInv, [Next]_vars PROVE TypeOK' /\ Replay'
  BY DEF RInv
<1>1. ASSUME NEW c \in Client, FetchKey(c) \/ End(c) PROVE TypeOK' /\ Replay'
  BY <1>1, FetchTyped, FetchReplay
<1>2. ASSUME NEW c \in Client, NEW kind \in Kind, NEW m \in Manifest, Request(c, kind, m)
      PROVE  TypeOK' /\ Replay'
  BY <1>2, RequestTyped, RequestReplay
<1>3. ASSUME NEW p \in Peer, PeerSend(p) PROVE TypeOK' /\ Replay'
  BY <1>3, PeerSendTyped, PeerSendReplay
<1>4. ASSUME NEW e \in net, Accept(e) \/ Refuse(e) \/ PeerReceive(e) \/ Lose(e) PROVE TypeOK' /\ Replay'
  BY <1>4, ReceiveTyped, ReceiveReplay
<1>5. ASSUME NEW h \in handlers, Create(h) \/ Respond(h) \/ Cancel(h) PROVE TypeOK' /\ Replay'
  BY <1>5, HandlerStepTyped, HandlerStepReplay
<1>6. ASSUME NEW key \in Kem, Restart(key) PROVE TypeOK' /\ Replay'
  BY <1>6, RestartTyped, RestartReplay
<1>7. CASE Tick
  BY <1>7, TickTyped, TickReplay, Zenon
<1>8. CASE UNCHANGED vars
  BY <1>8 DEF vars, session, tasks, RInv, TypeOK, Replay, Numbered, Sealed, Noticed, Kept, AcceptedOnce
<1>9. ASSUME NEW m \in Manifest, DeployApplied(m) \/ DropOwner(m) PROVE TypeOK' /\ Replay'
  BY <1>9, OwnerTyped, OwnerReplay
<1> QED BY <1>1, <1>2, <1>3, <1>4, <1>5, <1>6, <1>7, <1>8, <1>9 DEF Next, Command

\* Between two starts no envelope is accepted twice, if no copy outlives the
\* window (check_and_insert_nonce_for_peer).
THEOREM OnceAccepted == Spec => []AcceptedOnce
<1>1. RInv => AcceptedOnce
  BY DEF RInv, Replay
<1> QED BY <1>1, InitRInv, StepRInv, PTL DEF Spec

\* The session state keeps its types, and the store has one entry for a sender and
\* a nonce, however often it was checked (check_and_insert_nonce_for_peer).
THEOREM TypeCorrect == Spec => []TypeOK
<1>1. RInv => TypeOK
  BY Zenon DEF RInv
<1> QED BY <1>1, InitRInv, StepRInv, PTL DEF Spec

\* No step makes a waiting client a refused one unless its key is stale
\* (decrypt_request_envelope).
LEMMA RefusedStale ==
    ASSUME RInv, [Next]_vars, NEW c \in Client,
           cli[c].step = "waiting", cli'[c].step = "refused"
    PROVE  cli[c].kem # kem
<1>1. cli \in [Client -> ClientType]
  BY Zenon DEF RInv, TypeOK
<1>2. ASSUME NEW e \in net, Refuse(e) PROVE cli[c].kem # kem
  <2>1. Own(e) /\ e.from = c
    BY <1>1, <1>2, ClientForms DEF Refuse
  <2>2. e.nonce \notin delivered /\ cli[c].kem = e.kem
    BY <2>1 DEF Own, RInv, Replay, Sealed
  <2>3. ~Seen(e)
    BY <2>2 DEF Seen, Retained, RInv, Replay, Noticed
  <2>4. e.kem # kem
    BY <1>2, <2>3 DEF Refuse, Passes, Decrypts
  <2> QED BY <2>2, <2>4, Zenon
<1>3. ASSUME NEW d \in Client,
             FetchKey(d) \/ End(d) \/ \E kind \in Kind, m \in Manifest : Request(d, kind, m)
      PROVE  FALSE
  BY <1>1, <1>3, ClientForms DEF FetchKey, End, Request
<1>4. ASSUME NEW p \in Peer, PeerSend(p) PROVE FALSE
  BY <1>4, Zenon DEF PeerSend
<1>5. ASSUME NEW e \in net, Accept(e) \/ PeerReceive(e) \/ Lose(e) PROVE FALSE
  BY <1>1, <1>5, ClientForms, Zenon DEF Accept, PeerReceive, Lose
<1>6. ASSUME NEW h \in handlers, Create(h) \/ Respond(h) \/ Cancel(h) PROVE FALSE
  BY <1>1, <1>6, ClientForms DEF Create, MapOperation, StoreTask, RecordOwner, Respond, Cancel, session
<1>7. ASSUME NEW key \in Kem, Restart(key) PROVE FALSE
  BY <1>7, ClientForms, Zenon DEF Restart
<1>8. CASE Tick \/ UNCHANGED vars
  BY <1>8 DEF Tick, vars, session
<1>9. ASSUME NEW m \in Manifest, DeployApplied(m) \/ DropOwner(m) PROVE FALSE
  BY <1>9 DEF DeployApplied, DropOwner, session
<1> QED BY <1>2, <1>3, <1>4, <1>5, <1>6, <1>7, <1>8, <1>9, Zenon DEF Next, Command

\* A client's own request is only refused for a stale key.
THEOREM OnlyStaleRefused == Spec => RefusedOnlyIfStale
<1>1. RInv /\ [Next]_vars =>
        [\A c \in Client :
            cli[c].step = "waiting" /\ cli'[c].step = "refused" => cli[c].kem # kem]_vars
  BY RefusedStale
<1> QED BY <1>1, InitRInv, StepRInv, PTL DEF Spec, RefusedOnlyIfStale

\* The tasks: an operation belongs to one manifest, and a creation has done
\* what its step says.
OneManifest ==
    /\ \A e \in net : e.from \in Client => mapping[e.nonce] \in {None, e.manifest}
    /\ \A h \in handlers : mapping[h.nonce] \in {None, h.manifest}
    /\ \A e \in net, h \in handlers : e.nonce = h.nonce => e.manifest = h.manifest
    /\ \A h, k \in handlers : h.nonce = k.nonce => h.manifest = k.manifest
    /\ \A n \in Nonce : mapping[n] # None => n =< built
    /\ \A h \in handlers : h.nonce =< built

Done ==
    \A h \in handlers :
        /\ h.step = "store" => mapping[h.nonce] = h.manifest
        /\ h.step = "owner" \/ (h.step = "respond" /\ h.kind = Creation) => task_store[h.manifest] # None
        /\ h.step = "respond" /\ h.kind = Creation => h.manifest \in owners \union dropped
        /\ h.step # "respond" => h.kind = Creation

Tasks == OneManifest /\ Done /\ TaskTraceable /\ AckedTaskOwned

IInv == TypeOK /\ Replay /\ Tasks

LEMMA InitIInv == Init => IInv
<1> SUFFICES ASSUME Init PROVE IInv
  OBVIOUS
<1>1. Tasks
  BY Zenon DEF Init, Tasks, OneManifest, Done, TaskTraceable, AckedTaskOwned, get_task_status
<1> QED BY <1>1, InitRInv, Zenon DEF IInv, RInv

\* Tasks, one action at a time.  Steps that leave the handlers and the tasks
\* alone, and build at most envelopes with a number of their own:
LEMMA OtherTasks ==
    ASSUME IInv, UNCHANGED <<handlers, mapping, task_store, owners, dropped, acked>>,
           built' \in Nat, built =< built', \A e \in net' \ net : e.nonce \in Nonce /\ e.nonce > built
    PROVE  Tasks'
<1> USE DEF IInv, Tasks
<1>1. built \in Nat /\ mapping \in [Nonce -> Manifest \union {None}]
  BY SessionAssumption DEF TypeOK
<1>2. \A h \in handlers : h.nonce \in Nonce /\ h.nonce =< built
  BY Fields, Zenon DEF TypeOK, OneManifest
<1>3. \A e \in net' \ net : mapping[e.nonce] = None /\ \A h \in handlers : h.nonce # e.nonce
  BY <1>1, <1>2 DEF OneManifest, Nonce
<1>4. OneManifest'
  BY <1>1, <1>2, <1>3 DEF OneManifest, Nonce
<1> QED BY <1>4 DEF Done, TaskTraceable, StoredCid, get_manifest_cid_for_operation,
                    AckedTaskOwned, get_task_status

\* A step of one operation, of which everything on its way is for one manifest,
\* leaves every operation with one manifest.
LEMMA OneManifestKept ==
    ASSUME OneManifest, UNCHANGED <<net, built>>, NEW op \in Nonce, NEW m,
           \A g \in handlers' : g \in handlers \/ (g.nonce = op /\ g.manifest = m),
           \A n \in Nonce : mapping'[n] = mapping[n] \/ (n = op /\ mapping'[n] = m),
           \A e \in net : e.nonce \in Nonce /\ (e.nonce = op => e.manifest = m),
           \A g \in handlers : g.nonce \in Nonce /\ (g.nonce = op => g.manifest = m),
           mapping[op] \in {None, m}, op =< built
    PROVE  OneManifest'
<1>1. \A e \in net' : e.from \in Client => mapping'[e.nonce] \in {None, e.manifest}
  BY DEF OneManifest
<1>2. \A g \in handlers' : mapping'[g.nonce] \in {None, g.manifest}
  BY DEF OneManifest
<1>3. \A e \in net', g \in handlers' : e.nonce = g.nonce => e.manifest = g.manifest
  BY DEF OneManifest
<1>4. \A g, k \in handlers' : g.nonce = k.nonce => g.manifest = k.manifest
  BY DEF OneManifest
<1>5. \A n \in Nonce : mapping'[n] # None => n =< built'
  BY DEF OneManifest
<1>6. \A g \in handlers' : g.nonce =< built'
  BY DEF OneManifest
<1> QED BY <1>1, <1>2, <1>3, <1>4, <1>5, <1>6, Zenon DEF OneManifest

LEMMA AcceptTasks ==
    ASSUME IInv, NEW e \in net, Accept(e)
    PROVE  Tasks'
<1> USE DEF IInv, Tasks
<1> DEFINE g == Handler(e)
<1>1. /\ g.nonce = e.nonce /\ g.manifest = e.manifest /\ g.kind = e.kind
      /\ g.step = IF e.kind = Creation THEN "map" ELSE "respond"
  BY HandlerForm
<1>2. handlers' = handlers \union {g} /\ UNCHANGED <<net, built, mapping, task_store, owners, dropped, acked>>
  BY Zenon DEF Accept, tasks
<1>3. e.from \in Client /\ e.nonce =< built
  <2>1. e.from \in Client /\ e.nonce \in 1..built
    BY Zenon DEF Accept, Replay, Numbered
  <2>2. built \in Nat
    BY SessionAssumption DEF TypeOK
  <2> HIDE DEF IInv, Tasks, g
  <2> QED BY <2>1, <2>2
<1> HIDE DEF g
<1>4. \A f \in net : f.nonce = e.nonce => f = e
  BY Zenon DEF Replay, Numbered
<1>5. OneManifest'
  <2>1. /\ \A f \in net : f.nonce \in Nonce /\ (f.nonce = e.nonce => f.manifest = e.manifest)
        /\ \A h \in handlers : h.nonce \in Nonce /\ (h.nonce = e.nonce => h.manifest = e.manifest)
        /\ mapping[e.nonce] \in {None, e.manifest}
    BY <1>3, <1>4, Fields, Zenon DEF OneManifest, TypeOK
  <2>2. \A h \in handlers' : h \in handlers \/ (h.nonce = e.nonce /\ h.manifest = e.manifest)
    BY <1>1, <1>2, Zenon
  <2> QED BY <1>2, <1>3, <2>1, <2>2, OneManifestKept, Zenon
<1>6. Done'
  BY <1>1, <1>2, Zenon DEF Done
<1> QED BY <1>2, <1>5, <1>6
        DEF TaskTraceable, StoredCid, get_manifest_cid_for_operation,
            AckedTaskOwned, get_task_status

\* A handler moves on: its step is the only thing that changes.
LEMMA MovedForm ==
    ASSUME TypeOK, NEW h \in handlers, NEW step \in {"map", "store", "owner", "respond"}
    PROVE  \A g \in Moved(h, step) :
              \/ g \in handlers
              \/ g.step = step /\ g.nonce = h.nonce /\ g.manifest = h.manifest /\ g.kind = h.kind
<1> DEFINE g == At(h, step)
<1>1. h \in HandlerType
  BY DEF TypeOK
<1>2. g.step = step /\ g.nonce = h.nonce /\ g.manifest = h.manifest /\ g.kind = h.kind
  BY <1>1 DEF At, HandlerType
<1> HIDE DEF g
<1>3. Moved(h, step) = (handlers \ {h}) \union {g}
  BY DEF g, Moved
<1> QED BY <1>2, <1>3

LEMMA CreateTasks ==
    ASSUME IInv, NEW h \in handlers, Create(h)
    PROVE  Tasks'
<1> USE DEF IInv, Tasks
<1>1. /\ h.nonce \in Nonce /\ h.manifest \in Manifest /\ h.from \in Client
      /\ \A g \in handlers : g.nonce \in Nonce /\ g.manifest \in Manifest
      /\ \A e \in net : e.nonce \in Nonce
      /\ mapping \in [Nonce -> Manifest \union {None}]
      /\ task_store \in [Manifest -> TaskType \union {None}]
  BY Fields DEF TypeOK
<1>2. None \notin Manifest /\ None \notin Client
  BY SessionAssumption
<1>3. UNCHANGED <<net, built, acked>>
  BY Zenon DEF Create, MapOperation, StoreTask, RecordOwner, session
<1>4. /\ \A e \in net : e.nonce \in Nonce /\ (e.nonce = h.nonce => e.manifest = h.manifest)
      /\ \A g \in handlers : g.nonce \in Nonce /\ (g.nonce = h.nonce => g.manifest = h.manifest)
      /\ mapping[h.nonce] \in {None, h.manifest} /\ h.nonce \in Nonce /\ h.nonce =< built
  BY <1>1, Zenon DEF OneManifest
<1>5. CASE MapOperation(h)
  <2>1. /\ handlers' = Moved(h, "store") /\ UNCHANGED <<task_store, owners, dropped>>
        /\ mapping'[h.nonce] = h.manifest /\ \A n \in Nonce \ {h.nonce} : mapping'[n] = mapping[n]
        /\ h.kind = Creation
    BY <1>1, <1>5 DEF MapOperation, store_operation_manifest_mapping, Done
  <2>2. \A g \in handlers' : \/ g \in handlers
                             \/ g.step = "store" /\ g.nonce = h.nonce /\ g.manifest = h.manifest /\ g.kind = h.kind
    BY <2>1, MovedForm, Zenon
  <2>3. OneManifest'
    <3>1. \A g \in handlers' : g \in handlers \/ (g.nonce = h.nonce /\ g.manifest = h.manifest)
      BY <2>2, Zenon
    <3>2. \A n \in Nonce : mapping'[n] = mapping[n] \/ (n = h.nonce /\ mapping'[n] = h.manifest)
      BY <2>1, Zenon
    <3> QED BY <1>3, <1>4, <3>1, <3>2, OneManifestKept
  <2>4. Done'
    BY <1>1, <2>1, <2>2 DEF Done, OneManifest
  <2>5. TaskTraceable'
    <3>1. ASSUME NEW m \in Manifest, task_store[m] # None
          PROVE  mapping'[task_store[m].operation] = m
      <4>1. task_store[m].operation \in Nonce /\ mapping[task_store[m].operation] = m
        BY <1>1, <3>1, Fields, Zenon DEF TaskTraceable, StoredCid, get_manifest_cid_for_operation
      <4>2. CASE task_store[m].operation = h.nonce
        BY <1>2, <2>1, <4>1, <4>2 DEF OneManifest
      <4>3. CASE task_store[m].operation # h.nonce
        BY <2>1, <4>1, <4>3
      <4> QED BY <4>2, <4>3, Zenon
    <3> QED BY <2>1, <3>1 DEF TaskTraceable, StoredCid, get_manifest_cid_for_operation
  <2> QED BY <1>3, <2>1, <2>3, <2>4, <2>5, Zenon DEF AckedTaskOwned, get_task_status
<1>6. CASE StoreTask(h)
  <2> DEFINE task == TaskRecord(h)
  <2>1. /\ handlers' = Moved(h, "owner") /\ UNCHANGED <<mapping, owners, dropped>>
        /\ task_store'[h.manifest] = task /\ \A m \in Manifest \ {h.manifest} : task_store'[m] = task_store[m]
        /\ h.kind = Creation /\ mapping[h.nonce] = h.manifest
    BY <1>1, <1>6, Zenon DEF StoreTask, Done
  <2>2. \A g \in handlers' : \/ g \in handlers
                             \/ g.step = "owner" /\ g.nonce = h.nonce /\ g.manifest = h.manifest /\ g.kind = h.kind
    BY <2>1, MovedForm, Zenon
  <2>3. task.operation = h.nonce /\ task # None
    BY <1>1, TaskForm
  <2> HIDE DEF task
  <2>4. OneManifest'
    <3>1. \A g \in handlers' : g \in handlers \/ (g.nonce = h.nonce /\ g.manifest = h.manifest)
      BY <2>2, Zenon
    <3>2. \A n \in Nonce : mapping'[n] = mapping[n] \/ (n = h.nonce /\ mapping'[n] = h.manifest)
      BY <2>1, Zenon
    <3> QED BY <1>3, <1>4, <3>1, <3>2, OneManifestKept
  <2>5. Done'
    BY <1>1, <2>1, <2>2, <2>3 DEF Done
  <2>6. TaskTraceable'
    BY <2>1, <2>3, Zenon DEF TaskTraceable, StoredCid, get_manifest_cid_for_operation
  <2>7. AckedTaskOwned'
    BY <1>3, <2>1, <2>3, Fields, Zenon DEF AckedTaskOwned, get_task_status, TypeOK
  <2> QED BY <2>4, <2>5, <2>6, <2>7, Zenon
<1>7. CASE RecordOwner(h)
  <2>1. /\ handlers' = Moved(h, "respond") /\ UNCHANGED <<mapping, task_store>>
        /\ owners' = owners \union {h.manifest} /\ dropped' = dropped \ {h.manifest}
        /\ task_store[h.manifest] # None
    BY <1>1, <1>7 DEF RecordOwner, record_manifest_owner, Done
  <2>2. \A g \in handlers' : \/ g \in handlers
                             \/ g.step = "respond" /\ g.nonce = h.nonce /\ g.manifest = h.manifest /\ g.kind = h.kind
    BY <2>1, MovedForm
  <2>3. OneManifest'
    <3>1. \A g \in handlers' : g \in handlers \/ (g.nonce = h.nonce /\ g.manifest = h.manifest)
      BY <2>2
    <3>2. \A n \in Nonce : mapping'[n] = mapping[n] \/ (n = h.nonce /\ mapping'[n] = h.manifest)
      BY <2>1, Zenon
    <3> QED BY <1>3, <1>4, <3>1, <3>2, OneManifestKept
  <2>4. Done'
    <3>1. owners \union dropped \subseteq owners' \union dropped'
      BY <2>1
    <3>2. h.manifest \in owners' /\ h.kind = Creation
      BY <1>1, <1>2, <1>7, <2>1, Zenon DEF RecordOwner, Done
    <3> QED BY <1>1, <2>1, <2>2, <3>1, <3>2, Zenon DEF Done
  <2>5. AckedTaskOwned'
    BY <1>1, <1>2, <1>3, <2>1, Fields DEF AckedTaskOwned, get_task_status, TypeOK
  <2> QED BY <2>1, <2>3, <2>4, <2>5, Zenon DEF TaskTraceable, StoredCid, get_manifest_cid_for_operation
<1> QED BY <1>5, <1>6, <1>7, Zenon DEF Create

LEMMA RespondTasks ==
    ASSUME IInv, NEW h \in handlers, Respond(h) \/ Cancel(h)
    PROVE  Tasks'
<1> USE DEF IInv, Tasks
<1>1. handlers' \subseteq handlers /\ UNCHANGED <<net, built, mapping, task_store, owners, dropped>>
  BY Zenon DEF Respond, Cancel, session, tasks
<1>2. OneManifest' /\ Done' /\ TaskTraceable'
  BY <1>1 DEF OneManifest, Done, TaskTraceable, StoredCid, get_manifest_cid_for_operation
<1>3. AckedTaskOwned'
  <2>1. CASE acked' = acked
    BY <1>1, <2>1, Zenon DEF AckedTaskOwned, get_task_status
  <2>2. CASE acked' # acked
    <3>1. /\ h.step = "respond" /\ h.kind = Creation
          /\ acked' = acked \union {encrypt_response_envelope_with_key(h)}
      BY <2>2 DEF Respond, Cancel, tasks
    <3>2. h.nonce \in Nonce /\ h.manifest \in Manifest /\ h.from \in Client
      BY Fields, Zenon DEF TypeOK
    <3>3. encrypt_response_envelope_with_key(h).manifest = h.manifest
      BY <3>2, AnswerForm
    <3>4. task_store[h.manifest] # None /\ h.manifest \in owners \union dropped
      BY <3>1, Zenon DEF Done
    <3>5. \A a \in acked' : a \in acked \/ a.manifest = h.manifest
      BY <3>1, <3>3, Zenon
    <3> QED BY <1>1, <3>4, <3>5, Zenon DEF AckedTaskOwned, get_task_status
  <2> QED BY <2>1, <2>2, Zenon
<1> QED BY <1>2, <1>3

\* The owner is written and dropped from elsewhere; a task keeps its owner or has it
\* among the dropped ones.
LEMMA OwnerTasks ==
    ASSUME IInv, NEW m \in Manifest, DeployApplied(m) \/ DropOwner(m)
    PROVE  Tasks'
<1> USE DEF IInv, Tasks
<1>1. UNCHANGED <<net, built, handlers, mapping, task_store, acked>>
  BY Zenon DEF DeployApplied, DropOwner, session
<1>2. \A n \in owners \union dropped : task_store[n] # None => n \in owners' \union dropped'
  BY DEF DeployApplied, DropOwner, record_manifest_owner, remove_manifest_owner
<1>3. OneManifest' /\ TaskTraceable'
  BY <1>1 DEF OneManifest, TaskTraceable, StoredCid, get_manifest_cid_for_operation
<1>4. Done'
  BY <1>1, <1>2, Zenon DEF Done
<1>5. AckedTaskOwned'
  BY <1>1, <1>2 DEF AckedTaskOwned, get_task_status
<1> QED BY <1>3, <1>4, <1>5

LEMMA RestartTasks ==
    ASSUME IInv, NEW key \in Kem, Restart(key)
    PROVE  Tasks'
<1>1. \A e \in net : e.nonce \in Nonce
  BY Fields DEF IInv, TypeOK
<1> QED BY <1>1, Zenon DEF Restart, Tasks, OneManifest, Done, TaskTraceable, AckedTaskOwned,
                     get_task_status

LEMMA StepIInv == IInv /\ [Next]_vars => IInv'
<1> SUFFICES ASSUME IInv, [Next]_vars PROVE Tasks'
  BY StepRInv DEF IInv, RInv
<1>0. built \in Nat /\ built + 1 \in Nat /\ built =< built + 1
  BY SessionAssumption DEF IInv, TypeOK
<1>1. ASSUME NEW c \in Client, FetchKey(c) \/ End(c) PROVE Tasks'
  <2>1. UNCHANGED <<net, built, handlers, mapping, task_store, owners, dropped, acked>>
    BY <1>1 DEF FetchKey, End, tasks
  <2> QED BY <1>0, <2>1, OtherTasks
<1>2. ASSUME NEW c \in Client, NEW kind \in Kind, NEW m \in Manifest, Request(c, kind, m) PROVE Tasks'
  <2> DEFINE e == Envelope(c, cli[c].kem, kind, m)
  <2>1. /\ net' = net \union {e} /\ built' = built + 1
        /\ UNCHANGED <<handlers, mapping, task_store, owners, dropped, acked>>
    BY <1>2, Zenon DEF Request, tasks
  <2>2. e.nonce = built + 1 /\ built + 1 \in Nonce
    BY <1>0, <1>2, SessionAssumption, EnvelopeForm DEF Request, Nonce
  <2> HIDE DEF e
  <2> QED BY <1>0, <2>1, <2>2, OtherTasks
<1>3. ASSUME NEW p \in Peer, PeerSend(p) PROVE Tasks'
  <2> DEFINE e == Envelope(p, kem, "message", None)
  <2>1. /\ net' = net \union {e} /\ built' = built + 1
        /\ UNCHANGED <<handlers, mapping, task_store, owners, dropped, acked>>
    BY <1>3, Zenon DEF PeerSend, sign_payload_default, tasks
  <2>2. e.nonce = built + 1 /\ built + 1 \in Nonce
    BY <1>0, <1>3, SessionAssumption, EnvelopeForm DEF PeerSend, Nonce
  <2> HIDE DEF e
  <2> QED BY <1>0, <2>1, <2>2, OtherTasks
<1>4. ASSUME NEW e \in net, Accept(e) \/ Refuse(e) \/ PeerReceive(e) \/ Lose(e) PROVE Tasks'
  <2>1. CASE Accept(e)
    BY <2>1, AcceptTasks
  <2>2. CASE Refuse(e) \/ PeerReceive(e) \/ Lose(e)
    <3>1. net' \subseteq net /\ UNCHANGED <<built, handlers, mapping, task_store, owners, dropped, acked>>
      BY <2>2 DEF Refuse, PeerReceive, Lose, tasks
    <3> QED BY <1>0, <3>1, OtherTasks
  <2> QED BY <1>4, <2>1, <2>2, Zenon
<1>5. ASSUME NEW h \in handlers, Create(h) \/ Respond(h) \/ Cancel(h) PROVE Tasks'
  BY <1>5, CreateTasks, RespondTasks
<1>6. ASSUME NEW key \in Kem, Restart(key) PROVE Tasks'
  BY <1>6, RestartTasks
<1>7. CASE Tick
  <2>1. UNCHANGED <<net, built, handlers, mapping, task_store, owners, dropped, acked>>
    BY <1>7, Zenon DEF Tick, tasks
  <2> QED BY <1>0, <2>1, OtherTasks
<1>8. CASE UNCHANGED vars
  BY <1>8 DEF vars, session, tasks, IInv, Tasks, OneManifest, Done, TaskTraceable,
              StoredCid, get_manifest_cid_for_operation,
              AckedTaskOwned, get_task_status
<1>9. ASSUME NEW m \in Manifest, DeployApplied(m) \/ DropOwner(m) PROVE Tasks'
  BY <1>9, OwnerTasks
<1> QED BY <1>1, <1>2, <1>3, <1>4, <1>5, <1>6, <1>7, <1>8, <1>9 DEF Next, Command

\* A stored task names an operation that maps back to it, however creations
\* interleave or are cut short (create_task).
THEOREM TasksTraceable == Spec => []TaskTraceable
<1>1. IInv => TaskTraceable
  BY DEF IInv, Tasks
<1> QED BY <1>1, InitIInv, StepIInv, PTL DEF Spec

\* An answered creation has its task until the node restarts, and its manifest an owner
\* unless a removal dropped it since, although all these are steps of their own
\* (create_task, process_manifest_deployment, remove_manifest_owner).
THEOREM AckedTasksOwned == Spec => []AckedTaskOwned
<1>1. IInv => AckedTaskOwned
  BY DEF IInv, Tasks
<1> QED BY <1>1, InitIInv, StepIInv, PTL DEF Spec
==============================================================================
