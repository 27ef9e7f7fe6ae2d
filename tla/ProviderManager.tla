----------------------------- MODULE ProviderManager -----------------------------
(***************************************************************************)
(* Discovery in the provider manager (provider/mod.rs): calls of           *)
(* discover_providers share a cache of the providers of each manifest, and *)
(* wait for handle_provider_found, which the source describes as called    *)
(* from the event handler of libp2p (no call of it is in the repository).  *)
(*                                                                         *)
(* The manager is one for the process.  A call borrows its swarm, so there *)
(* is one call for each swarm; the threads that report providers are       *)
(* others.  Every critical section of a mutex is a step.                   *)
(***************************************************************************)
EXTENDS Naturals, FiniteSets, SequencesExt

CONSTANTS
    Manifest, Peer,
    Caller,                      \* the swarms whose owner may be in discover_providers
    Finder,                      \* the threads that run handle_provider_found
    max_providers_per_manifest, default_ttl, discovery_timeout,
    MaxTime,                     \* bound: the clock stands still from here on
    None

ASSUME ProviderAssumption ==
    /\ max_providers_per_manifest \in Nat \ {0}
    /\ default_ttl \in Nat /\ discovery_timeout \in Nat /\ MaxTime \in Nat
    /\ None \notin Manifest

VARIABLES
    now,
    remote_providers,   \* per manifest the providers, oldest entry first
    pending_queries,    \* per manifest the callers whose channel is registered,
                        \* those that gave up included
    call,               \* discover_providers of each caller
    inbox,              \* what the channel of its query holds
    finder              \* the manifest a finder has added to but not notified, or None

vars == <<now, remote_providers, pending_queries, call, inbox, finder>>

ProviderInfo == [peer : Peer, announced_at : 0..MaxTime, last_seen : 0..MaxTime]

\* `left' is what remains of the timeout; `told' is history: a provider was
\* reported while the call was waiting.
Idle == [step |-> "idle", manifest |-> None, left |-> 0, told |-> FALSE]

Init ==
    /\ now = 0
    /\ remote_providers = [m \in Manifest |-> <<>>]
    /\ pending_queries = [m \in Manifest |-> {}]
    /\ call = [c \in Caller |-> Idle]
    /\ inbox = [c \in Caller |-> <<>>]
    /\ finder = [f \in Finder |-> None]

is_expired(p) == now - p.announced_at > default_ttl

\* Filtering a list: the entries at some of its places, in their order.
Rank(i, places) == Cardinality({j \in places : j <= i})

Kept(list, places) ==
    [k \in 1..Cardinality(places) |-> list[CHOOSE i \in places : Rank(i, places) = k]]

Valid(providers) ==
    Kept(providers, {i \in DOMAIN providers : ~is_expired(providers[i])})

Waiting(m) == {c \in Caller : call[c].step = "waiting" /\ call[c].manifest = m}

\* discover_providers: valid cached providers are the answer; otherwise the
\* DHT is queried.
DiscoverCached(c, m) ==
    /\ call[c].step \notin {"query", "waiting"}
    /\ call' = [call EXCEPT ![c] =
                  IF Valid(remote_providers[m]) # <<>> THEN [Idle EXCEPT !.step = "found"]
                  ELSE [Idle EXCEPT !.step = "query", !.manifest = m]]
    /\ UNCHANGED <<now, remote_providers, pending_queries, inbox, finder>>

\* query_dht_providers: the channel is registered, then the query started.
QueryRegister(c) ==
    /\ call[c].step = "query"
    /\ pending_queries' = [pending_queries EXCEPT ![call[c].manifest] = @ \union {c}]
    /\ call' = [call EXCEPT ![c].step = "waiting", ![c].left = discovery_timeout]
    /\ UNCHANGED <<now, remote_providers, inbox, finder>>

\* A list arrives: it takes the place of whatever is cached, and is returned.
QueryAnswered(c) ==
    /\ call[c].step = "waiting" /\ inbox[c] # <<>>
    /\ remote_providers' = [remote_providers EXCEPT ![call[c].manifest] = Head(inbox[c])]
    /\ inbox' = [inbox EXCEPT ![c] = <<>>]
    /\ call' = [call EXCEPT ![c] = [Idle EXCEPT !.step = "found"]]
    /\ UNCHANGED <<now, pending_queries, finder>>

Untimed_QueryTimedOut(c) == FALSE /\ c \in Caller /\ UNCHANGED vars

\* The timeout; a list that has arrived wins.  The channel stays registered.
QueryTimedOut(c) ==
    /\ call[c].step = "waiting" /\ inbox[c] = <<>> /\ call[c].left = 0
    /\ call' = [call EXCEPT ![c].step = "timeout"]
    /\ UNCHANGED <<now, remote_providers, pending_queries, inbox, finder>>

\* The provider seen least recently, the first of several, makes room.
Evicted(providers) ==
    LET Older(i, j) == providers[i].last_seen < providers[j].last_seen
        oldest == CHOOSE i \in DOMAIN providers :
                     /\ \A j \in DOMAIN providers : ~Older(j, i)
                     /\ \A j \in 1..(i - 1) : Older(i, j)
    IN  RemoveAt(providers, oldest)

OneMore_Found(providers, p) ==
    LET New == [peer |-> p, announced_at |-> now, last_seen |-> now]
        Known == {i \in DOMAIN providers : providers[i].peer = p}
    IN  IF Known # {}
        THEN [i \in DOMAIN providers |->
                IF i \in Known THEN [providers[i] EXCEPT !.last_seen = now] ELSE providers[i]]
        ELSE IF Len(providers) > max_providers_per_manifest
        THEN Append(Evicted(providers), New)
        ELSE Append(providers, New)

\* A known provider is only seen again: its announcement keeps its age.
Found(providers, p) ==
    LET New == [peer |-> p, announced_at |-> now, last_seen |-> now]
        Known == {i \in DOMAIN providers : providers[i].peer = p}
    IN  IF Known # {}
        THEN [i \in DOMAIN providers |->
                IF i \in Known THEN [providers[i] EXCEPT !.last_seen = now] ELSE providers[i]]
        ELSE IF Len(providers) >= max_providers_per_manifest
        THEN Append(Evicted(providers), New)
        ELSE Append(providers, New)

\* handle_provider_found: the provider enters the cache, under one lock...
FoundAdd(f, m, p) ==
    /\ finder[f] = None
    /\ remote_providers' = [remote_providers EXCEPT ![m] = Found(@, p)]
    /\ finder' = [finder EXCEPT ![f] = m]
    /\ UNCHANGED <<now, pending_queries, call, inbox>>

OneOf_FoundNotify(f) ==
    /\ finder[f] # None
    /\ LET m == finder[f]
           sender == CHOOSE c \in pending_queries[m] \union {None} : pending_queries[m] # {} => c # None
       IN  /\ pending_queries' = [pending_queries EXCEPT ![m] = {}]
           /\ call' = [c \in Caller |->
                 IF c \in Waiting(m) THEN [call[c] EXCEPT !.told = TRUE] ELSE call[c]]
           /\ inbox' = [c \in Caller |->
                 IF c \in Waiting(m) /\ c = sender
                 THEN Append(inbox[c], remote_providers[m]) ELSE inbox[c]]
    /\ finder' = [finder EXCEPT ![f] = None]
    /\ UNCHANGED <<now, remote_providers>>

\* ...and under another every registered channel gets the list, expired
\* providers included; the channels of calls that have ended are closed.
FoundNotify(f) ==
    /\ finder[f] # None
    /\ LET m == finder[f]
       IN  /\ pending_queries' = [pending_queries EXCEPT ![m] = {}]
           /\ call' = [c \in Caller |->
                 IF c \in Waiting(m) THEN [call[c] EXCEPT !.told = TRUE] ELSE call[c]]
           /\ inbox' = [c \in Caller |->
                 IF c \in Waiting(m) \intersect pending_queries[m]
                 THEN Append(inbox[c], remote_providers[m]) ELSE inbox[c]]
    /\ finder' = [finder EXCEPT ![f] = None]
    /\ UNCHANGED <<now, remote_providers>>

\* cleanup_expired_providers, also the background task.
Cleanup ==
    /\ remote_providers' = [m \in Manifest |-> Valid(remote_providers[m])]
    /\ UNCHANGED <<now, pending_queries, call, inbox, finder>>

Tick ==
    /\ now' = IF now < MaxTime THEN now + 1 ELSE now
    /\ call' = [c \in Caller |->
          IF call[c].left > 0 THEN [call[c] EXCEPT !.left = @ - 1] ELSE call[c]]
    /\ UNCHANGED <<remote_providers, pending_queries, inbox, finder>>

CallStep(c) == QueryRegister(c) \/ QueryAnswered(c) \/ QueryTimedOut(c)

Next ==
    \/ \E c \in Caller : CallStep(c) \/ \E m \in Manifest : DiscoverCached(c, m)
    \/ \E f \in Finder : FoundNotify(f) \/ \E m \in Manifest, p \in Peer : FoundAdd(f, m, p)
    \/ Cleanup
    \/ Tick

Spec == Init /\ [][Next]_vars

\* Time passes, and a call whose channel or timer is ready is resumed.
FairSpec == Spec /\ WF_vars(Tick) /\ \A c \in Caller : WF_vars(CallStep(c))
----------------------------------------------------------------------------------
CallType ==
    [step : {"idle", "query", "waiting", "found", "timeout"}, manifest : Manifest \union {None},
     left : 0..discovery_timeout, told : BOOLEAN]

\* Types; the list of a manifest names a provider once and never outgrows
\* max_providers_per_manifest, though calls put back lists that are out of date
\* (query_dht_providers against handle_provider_found and the clean-up).
TypeOK ==
    /\ now \in 0..MaxTime
    /\ pending_queries \in [Manifest -> SUBSET Caller]
    /\ call \in [Caller -> CallType]
    /\ inbox \in [Caller -> Seq(Seq(ProviderInfo))]
    /\ finder \in [Finder -> Manifest \union {None}]
    /\ remote_providers \in [Manifest -> Seq(ProviderInfo)]
    /\ \A m \in Manifest :
          /\ Len(remote_providers[m]) =< max_providers_per_manifest
          /\ \A i, j \in DOMAIN remote_providers[m] :
                remote_providers[m][i].peer = remote_providers[m][j].peer => i = j

\* discover_providers only reports a timeout if no provider of its manifest was
\* reported while it waited, however many other calls wait for the manifest, have
\* given up on it, or were answered (query_dht_providers and the notification
\* in handle_provider_found).
TimeoutOnlyUnfound ==
    \A c \in Caller : call[c].step = "timeout" => ~call[c].told

\* A call that queries the DHT returns, even if nothing is ever reported: its
\* swarm is borrowed until then (the timeout of query_dht_providers).
DiscoverEnds ==
    \A c \in Caller : call[c].step \in {"query", "waiting"}
                          ~> call[c].step \notin {"query", "waiting"}
==================================================================================
