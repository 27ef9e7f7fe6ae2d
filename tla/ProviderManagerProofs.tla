-------------------------- MODULE ProviderManagerProofs --------------------------
(***************************************************************************)
(* No report of a provider is missed by a waiting call of                  *)
(* discover_providers, for any number of callers, finders and manifests.   *)
(* A call's channel is registered exactly as long as nothing has been sent *)
(* to it; so a report either finds the channel or comes after another.     *)
(*                                                                         *)
(* The cache stays within its limit although lists travel through channels *)
(* and are put back when they are out of date: CacheInv holds of both.     *)
(***************************************************************************)
EXTENDS ProviderManager, FiniteSetTheorems, TLAPS

Shape ==
    /\ call \in [Caller -> CallType]
    /\ finder \in [Finder -> Manifest \union {None}]
    /\ pending_queries \in [Manifest -> SUBSET Caller]
    /\ inbox = [c \in Caller |-> inbox[c]]

\* A waiting call is registered or has been sent a list, not both.
Connected(c) ==
    IF call[c].step = "waiting"
    THEN /\ c \in pending_queries[call[c].manifest] <=> inbox[c] = <<>>
         /\ call[c].told => inbox[c] # <<>>
    ELSE /\ inbox[c] = <<>>
         /\ ~call[c].told

Asking(c) == call[c].step \in {"query", "waiting"} => call[c].manifest \in Manifest

IInv == Shape /\ \A c \in Caller : Connected(c) /\ Asking(c)

\* What a call sees of another call's step: nothing.
LEMMA Untouched ==
    ASSUME IInv, NEW c \in Caller,
           call'[c] = call[c], inbox'[c] = inbox[c],
           Asking(c) /\ call[c].step = "waiting" =>
              (c \in pending_queries'[call[c].manifest]
                  <=> c \in pending_queries[call[c].manifest])
    PROVE  Connected(c)' /\ Asking(c)'
BY DEF IInv, Connected, Asking

LEMMA CallUpdate ==
    ASSUME NEW f \in [Caller -> CallType], NEW c \in Caller, NEW r \in CallType
    PROVE  /\ [f EXCEPT ![c] = r] \in [Caller -> CallType]
           /\ [f EXCEPT ![c] = r][c] = r
           /\ \A d \in Caller \ {c} : [f EXCEPT ![c] = r][d] = f[d]
OBVIOUS

\* A call that starts or ends is an idle one in another step.
LEMMA Restarted ==
    ASSUME NEW step \in {"found", "query"}, NEW m \in Manifest
    PROVE  \A r \in {[Idle EXCEPT !.step = step], [Idle EXCEPT !.step = step, !.manifest = m]} :
              r \in CallType /\ r.step = step /\ r.told = FALSE
<1>1. Idle \in CallType /\ Idle.told = FALSE
  BY ProviderAssumption DEF Idle, CallType
<1> QED BY <1>1 DEF CallType

\* A call whose step or flag changes is still a call.
LEMMA CallChange ==
    ASSUME NEW x \in CallType
    PROVE  /\ LET r == [x EXCEPT !.step = "timeout"]
              IN  r \in CallType /\ r.step = "timeout" /\ r.told = x.told
           /\ [x EXCEPT !.told = TRUE] \in CallType
BY DEF CallType

LEMMA Begun ==
    ASSUME NEW x \in CallType
    PROVE  LET r == [x EXCEPT !.step = "waiting", !.left = discovery_timeout]
           IN  r \in CallType /\ r.step = "waiting" /\ r.told = x.told /\ r.manifest = x.manifest
<1> DEFINE r == [x EXCEPT !.step = "waiting", !.left = discovery_timeout]
<1>1. r \in CallType
  <2>1. discovery_timeout \in 0..discovery_timeout
    BY ProviderAssumption
  <2>2. [x EXCEPT !.step = "waiting"] \in CallType
    BY DEF CallType
  <2>3. [[x EXCEPT !.step = "waiting"] EXCEPT !.left = discovery_timeout] \in CallType
    BY <2>1, <2>2, Zenon DEF CallType
  <2> QED BY <2>3
<1>2. r.step = "waiting" /\ r.manifest = x.manifest
  BY DEF CallType
<1>3. r.told = x.told
  BY Zenon DEF CallType
<1> QED BY <1>1, <1>2, <1>3

LEMMA InitIInv == Init => IInv
<1> SUFFICES ASSUME Init PROVE IInv
  OBVIOUS
<1> USE ProviderAssumption DEF Init, Idle
<1>1. Shape
  BY DEF Shape, CallType
<1>2. ASSUME NEW c \in Caller PROVE Connected(c) /\ Asking(c)
  BY DEF Connected, Asking
<1> QED BY <1>1, <1>2 DEF IInv

LEMMA DiscoverKeeps ==
    ASSUME IInv, NEW c \in Caller, NEW m \in Manifest, DiscoverCached(c, m)
    PROVE  IInv'
<1> USE ProviderAssumption DEF IInv, DiscoverCached
<1>1. /\ call' \in [Caller -> CallType]
      /\ call'[c].step \in {"found", "query"} /\ ~call'[c].told
      /\ call'[c].step = "query" => call'[c].manifest = m
      /\ \A d \in Caller \ {c} : call'[d] = call[d]
  <2> DEFINE found == [Idle EXCEPT !.step = "found"]
             query == [Idle EXCEPT !.step = "query", !.manifest = m]
  <2>1. /\ found \in CallType /\ found.step = "found" /\ found.told = FALSE
        /\ query \in CallType /\ query.step = "query" /\ query.told = FALSE
    BY Restarted, Zenon
  <2>2. query.manifest = m
    BY DEF Idle
  <2>3. call' = [call EXCEPT ![c] = found] \/ call' = [call EXCEPT ![c] = query]
    BY Zenon
  <2> HIDE DEF found, query, DiscoverCached
  <2> QED BY <2>1, <2>2, <2>3, CallUpdate DEF Shape
<1>2. Shape'
  BY <1>1 DEF Shape
<1>3. ASSUME NEW d \in Caller PROVE Connected(d)' /\ Asking(d)'
  <2>1. CASE d = c
    BY <2>1, <1>1 DEF Connected, Asking
  <2>2. CASE d # c
    BY <2>2, <1>1, Untouched
  <2> QED BY <2>1, <2>2
<1> QED BY <1>2, <1>3, Zenon

LEMMA RegisterKeeps ==
    ASSUME IInv, NEW c \in Caller, QueryRegister(c)
    PROVE  IInv'
<1> USE ProviderAssumption DEF IInv, QueryRegister
<1>1. /\ call' \in [Caller -> CallType]
      /\ call'[c].step = "waiting" /\ call'[c].told = call[c].told
      /\ call'[c].manifest = call[c].manifest /\ call[c].manifest \in Manifest
      /\ \A d \in Caller \ {c} : call'[d] = call[d]
  <2> DEFINE r == [call[c] EXCEPT !.step = "waiting", !.left = discovery_timeout]
  <2>1. call[c] \in CallType
    BY Zenon DEF Shape
  <2>2. /\ r \in CallType /\ r.step = "waiting"
        /\ r.told = call[c].told /\ r.manifest = call[c].manifest
    BY <2>1, Begun, Zenon
  <2>3. call' = [call EXCEPT ![c] = r]
    BY Zenon DEF Shape
  <2>4. call[c].manifest \in Manifest
    BY DEF Asking
  <2> HIDE DEF r, QueryRegister
  <2> QED BY <2>2, <2>3, <2>4, CallUpdate DEF Shape
<1>2. Shape'
  BY <1>1 DEF Shape
<1>3. \A m \in Manifest : \A d \in Caller \ {c} :
         d \in pending_queries'[m] <=> d \in pending_queries[m]
  BY <1>1 DEF Shape
<1>4. c \in pending_queries'[call[c].manifest]
  BY <1>1 DEF Shape
<1>5. ASSUME NEW d \in Caller PROVE Connected(d)' /\ Asking(d)'
  <2>1. CASE d = c
    BY <2>1, <1>1, <1>4 DEF Connected, Asking
  <2>2. CASE d # c
    BY <2>2, <1>1, <1>3, Untouched, Zenon DEF Asking
  <2> QED BY <2>1, <2>2
<1> QED BY <1>2, <1>5

LEMMA AnsweredKeeps ==
    ASSUME IInv, NEW c \in Caller, QueryAnswered(c)
    PROVE  IInv'
<1> USE ProviderAssumption DEF IInv, QueryAnswered
<1>1. /\ call' \in [Caller -> CallType]
      /\ call'[c].step = "found" /\ ~call'[c].told
      /\ \A d \in Caller \ {c} : call'[d] = call[d]
  <2> DEFINE found == [Idle EXCEPT !.step = "found"]
  <2>1. found \in CallType /\ found.step = "found" /\ found.told = FALSE
    <3>1. call[c].manifest \in Manifest
      BY DEF Asking
    <3> QED BY <3>1, Restarted, Zenon
  <2>2. call' = [call EXCEPT ![c] = found]
    OBVIOUS
  <2> HIDE DEF found, QueryAnswered
  <2> QED BY <2>1, <2>2, CallUpdate DEF Shape
<1>2. /\ inbox' = [d \in Caller |-> inbox'[d]]
      /\ inbox'[c] = <<>>
      /\ \A d \in Caller \ {c} : inbox'[d] = inbox[d]
  BY Zenon DEF Shape
<1>3. Shape'
  BY <1>1, <1>2 DEF Shape
<1>4. ASSUME NEW d \in Caller PROVE Connected(d)' /\ Asking(d)'
  <2>1. CASE d = c
    BY <2>1, <1>1, <1>2 DEF Connected, Asking
  <2>2. CASE d # c
    BY <2>2, <1>1, <1>2, Untouched
  <2> QED BY <2>1, <2>2
<1> QED BY <1>3, <1>4, Zenon

LEMMA TimedOutKeeps ==
    ASSUME IInv, NEW c \in Caller, QueryTimedOut(c)
    PROVE  IInv'
<1>1. /\ call' \in [Caller -> CallType]
      /\ call'[c].step = "timeout" /\ call'[c].told = call[c].told
      /\ \A d \in Caller \ {c} : call'[d] = call[d]
  <2> DEFINE r == [call[c] EXCEPT !.step = "timeout"]
  <2>1. call \in [Caller -> CallType] /\ call' = [call EXCEPT ![c] = r]
    BY Zenon DEF IInv, Shape, QueryTimedOut
  <2>2. r \in CallType /\ r.step = "timeout" /\ r.told = call[c].told
    BY <2>1, CallChange
  <2> HIDE DEF r
  <2> QED BY <2>1, <2>2, CallUpdate, Zenon
<1> USE ProviderAssumption DEF IInv, QueryTimedOut
<1>2. Shape'
  BY <1>1 DEF Shape
<1>3. ASSUME NEW d \in Caller PROVE Connected(d)' /\ Asking(d)'
  <2>1. CASE d = c
    BY <2>1, <1>1 DEF Connected, Asking
  <2>2. CASE d # c
    BY <2>2, <1>1, Untouched
  <2> QED BY <2>1, <2>2
<1> QED BY <1>2, <1>3

LEMMA NotifyKeeps ==
    ASSUME IInv, NEW f \in Finder, FoundNotify(f)
    PROVE  IInv'
<1>0. call' \in [Caller -> CallType]
  <2>1. call \in [Caller -> CallType]
    BY Zenon DEF IInv, Shape
  <2>2. \E W : call' = [c \in Caller |-> IF c \in W THEN [call[c] EXCEPT !.told = TRUE] ELSE call[c]]
    BY Zenon DEF FoundNotify
  <2>3. \A c \in Caller : call[c] \in CallType /\ [call[c] EXCEPT !.told = TRUE] \in CallType
    BY <2>1, CallChange
  <2> QED BY <2>2, <2>3
<1> USE ProviderAssumption DEF IInv, FoundNotify
<1> DEFINE m == finder[f]
<1>1. m \in Manifest
  BY DEF Shape
<1>2. Shape'
  <2>2. finder' \in [Finder -> Manifest \union {None}]
    BY DEF Shape
  <2>3. pending_queries' \in [Manifest -> SUBSET Caller]
    BY DEF Shape
  <2>4. inbox' = [c \in Caller |-> inbox'[c]]
    OBVIOUS
  <2> QED BY <1>0, <2>2, <2>3, <2>4 DEF Shape
<1>3. ASSUME NEW c \in Caller PROVE Connected(c)' /\ Asking(c)'
  <2>1. CASE c \notin Waiting(m)
    <3>1. call'[c] = call[c] /\ inbox'[c] = inbox[c]
      BY <2>1
    <3>2. Asking(c) /\ call[c].step = "waiting" =>
             pending_queries'[call[c].manifest] = pending_queries[call[c].manifest]
      BY <2>1 DEF Waiting, Asking, Shape
    <3> QED BY <3>1, <3>2, Untouched, Zenon
  <2>2. CASE c \in Waiting(m)
    <3>1. /\ call'[c].step = "waiting" /\ call'[c].manifest = m
          /\ call[c].step = "waiting" /\ call[c].manifest = m
      BY <2>2 DEF Waiting, Shape, CallType
    <3>2. pending_queries'[m] = {}
      BY <1>1 DEF Shape
    <3>3. inbox'[c] # <<>>
      <4>1. CASE c \in pending_queries[m]
        <5>1. inbox[c] = <<>>
          BY <4>1, <3>1 DEF Connected
        <5>2. inbox'[c] = Append(<<>>, remote_providers[m])
          BY <2>2, <4>1, <5>1
        <5>3. Len(Append(<<>>, remote_providers[m])) = 1
          OBVIOUS
        <5>4. Append(<<>>, remote_providers[m]) # <<>>
          BY <5>3
        <5> HIDE DEF FoundNotify
        <5> QED BY <5>2, <5>4, Zenon
      <4>2. CASE c \notin pending_queries[m]
        BY <4>2, <2>2, <3>1 DEF Connected
      <4> QED BY <4>1, <4>2
    <3> QED BY <1>1, <3>1, <3>2, <3>3 DEF Connected, Asking
  <2> QED BY <2>1, <2>2
<1> QED BY <1>2, <1>3

LEMMA TickKeeps ==
    ASSUME IInv, Tick
    PROVE  IInv'
<1> USE ProviderAssumption DEF IInv, Tick
<1>1. Shape'
  <2>1. ASSUME NEW c \in Caller PROVE call'[c] \in CallType
    <3>1. call[c] \in CallType
      BY DEF Shape
    <3>2. call[c].left > 0 => [call[c] EXCEPT !.left = @ - 1] \in CallType
      BY <3>1 DEF CallType
    <3> QED BY <3>1, <3>2
  <2> QED BY <2>1 DEF Shape
<1>2. ASSUME NEW c \in Caller PROVE Connected(c)' /\ Asking(c)'
  <2>1. /\ call'[c].step = call[c].step /\ call'[c].manifest = call[c].manifest
        /\ call'[c].told = call[c].told
    BY DEF Shape, CallType
  <2> QED BY <2>1 DEF Connected, Asking
<1> QED BY <1>1, <1>2

\* Calls stay connected to the reports of providers: the channel of a waiting
\* call is registered, or a list is in it (query_dht_providers, handle_provider_found).
THEOREM CallsConnected == Spec => []IInv
<1>1. IInv /\ [Next]_vars => IInv'
  <2> SUFFICES ASSUME IInv, [Next]_vars PROVE IInv'
    OBVIOUS
  <2>1. ASSUME NEW c \in Caller, CallStep(c) PROVE IInv'
    BY <2>1, RegisterKeeps, AnsweredKeeps, TimedOutKeeps, Zenon DEF CallStep
  <2>2. ASSUME NEW c \in Caller, NEW m \in Manifest, DiscoverCached(c, m) PROVE IInv'
    BY <2>2, DiscoverKeeps
  <2>3. ASSUME NEW f \in Finder, FoundNotify(f) PROVE IInv'
    BY <2>3, NotifyKeeps
  <2>4. ASSUME NEW f \in Finder, NEW m \in Manifest, NEW p \in Peer, FoundAdd(f, m, p)
        PROVE  IInv'
    BY <2>4 DEF FoundAdd, IInv, Shape, Connected, Asking
  <2>5. CASE Cleanup
    BY <2>5 DEF Cleanup, IInv, Shape, Connected, Asking
  <2>6. CASE Tick
    BY <2>6, TickKeeps
  <2>7. CASE UNCHANGED vars
    BY <2>7 DEF vars, IInv, Shape, Connected, Asking
  <2> QED BY <2>1, <2>2, <2>3, <2>4, <2>5, <2>6, <2>7, Zenon DEF Next
<1> QED BY InitIInv, <1>1, PTL DEF Spec

\* discover_providers reports a timeout only if no provider of its manifest was
\* reported while it waited (query_dht_providers), for any callers and finders.
THEOREM NoReportMissed == Spec => []TimeoutOnlyUnfound
<1>1. IInv => TimeoutOnlyUnfound
  BY DEF IInv, Connected, TimeoutOnlyUnfound
<1> QED BY <1>1, CallsConnected, PTL

----------------------------------------------------------------------------------
(* The cache *)

\* The ranks of a finite set of numbers are 1, 2, and so on, each taken once.
LEMMA RankOnto ==
    ASSUME NEW I \in SUBSET Nat, IsFiniteSet(I)
    PROVE  /\ Cardinality(I) \in Nat
           /\ \A k \in 1..Cardinality(I) : \E i \in I : Rank(i, I) = k
           /\ \A i \in I : {j \in I : j <= i} # {} /\ Rank(i, I) >= 1
<1> DEFINE Upto(i) == {j \in I : j <= i}
           n == Cardinality(I)
           rank == [i \in I |-> Rank(i, I)]
<1>1. n \in Nat
  BY FS_CardinalityType
<1>2. ASSUME NEW i \in I
      PROVE  /\ IsFiniteSet(Upto(i)) /\ i \in Upto(i)
             /\ Cardinality(Upto(i)) \in 1..n
  <2>1. Upto(i) \in SUBSET I /\ i \in Upto(i)
    OBVIOUS
  <2>2. IsFiniteSet(Upto(i)) /\ Cardinality(Upto(i)) <= n
    BY <2>1, FS_Subset
  <2>3. Cardinality(Upto(i)) \in Nat /\ Cardinality(Upto(i)) # 0
    BY <2>1, <2>2, FS_CardinalityType, FS_EmptySet, Zenon
  <2> QED BY <2>1, <2>2, <2>3, <1>1
<1>3. ASSUME NEW i \in I, NEW j \in I, i < j
      PROVE  Rank(i, I) # Rank(j, I)
  <2>1. Upto(i) \in SUBSET Upto(j)
    <3>1. \A x \in I : x \in Nat
      OBVIOUS
    <3>2. \A x \in I : x <= i => x <= j
      BY <1>3, <3>1
    <3> QED BY <3>2, Zenon
  <2>2. j \in Upto(j) /\ j \notin Upto(i)
    BY <1>3
  <2>3. IsFiniteSet(Upto(j))
    BY <1>2
  <2>4. Upto(j) # Upto(i)
    BY <2>2
  <2>5. Cardinality(Upto(j)) # Cardinality(Upto(i))
    BY <2>1, <2>3, <2>4, FS_Subset
  <2> QED BY <2>5 DEF Rank
<1>4. \A i, j \in I : Rank(i, I) = Rank(j, I) => i = j
  BY <1>3
<1>5. \A i \in I : Rank(i, I) \in 1..n
  BY <1>2 DEF Rank
<1>6. rank \in Injection(I, 1..n)
  BY <1>4, <1>5 DEF Injection, IsInjective
<1>7. IsFiniteSet(1..n) /\ Cardinality(1..n) = n
  BY <1>1, FS_Interval
<1>8. rank \in Surjection(I, 1..n)
  BY <1>6, <1>7, FS_Injection, Zenon
<1>9. \A k \in 1..n : \E i \in I : Rank(i, I) = k
  BY <1>8, Zenon DEF Surjection
<1> QED BY <1>1, <1>2, <1>5, <1>9

\* A nonempty finite set of numbers has a least one.
LEMMA Least ==
    ASSUME NEW I \in SUBSET Nat, IsFiniteSet(I), I # {}
    PROVE  \E i \in I : \A j \in I : i <= j
<1>1. 1 \in 1..Cardinality(I)
  BY RankOnto, FS_EmptySet
<1>2. PICK i \in I : Rank(i, I) = 1
  BY <1>1, RankOnto
<1> DEFINE U == {j \in I : j <= i}
<1>3. IsFiniteSet(U) /\ Cardinality(U) = 1
  BY <1>2, FS_Subset DEF Rank
<1>4. PICK x : U = {x}
  BY <1>3, FS_Singleton
<1>5. i \in U
  OBVIOUS
<1>6. \A j \in I : j <= i => j = i
  BY <1>4, <1>5
<1> QED BY <1>6

\* A filtered list holds entries of the list, none of them twice.
LEMMA KeptPlaces ==
    ASSUME NEW S, NEW list \in Seq(S), NEW places \in SUBSET DOMAIN list
    PROVE  /\ Kept(list, places) \in Seq(S)
           /\ Len(Kept(list, places)) <= Len(list)
           /\ \E at \in [DOMAIN Kept(list, places) -> DOMAIN list] :
                 /\ \A k \in DOMAIN Kept(list, places) : Kept(list, places)[k] = list[at[k]]
                 /\ \A k, l \in DOMAIN Kept(list, places) : at[k] = at[l] => k = l
<1> DEFINE n == Cardinality(places)
           at == [k \in 1..n |-> CHOOSE i \in places : Rank(i, places) = k]
<1>1. DOMAIN list = 1..Len(list) /\ Len(list) \in Nat
  OBVIOUS
<1>2. IsFiniteSet(1..Len(list)) /\ Cardinality(1..Len(list)) = Len(list)
  <2>1. \A l \in Nat : IsFiniteSet(1..l) /\ Cardinality(1..l) = l
    BY FS_Interval
  <2> QED BY <1>1, <2>1
<1>3. IsFiniteSet(places) /\ n <= Len(list)
  BY <1>1, <1>2, FS_Subset
<1>4. places \in SUBSET Nat
  BY <1>1
<1>5. n \in Nat /\ \A k \in 1..n : \E i \in places : Rank(i, places) = k
  BY <1>3, <1>4, RankOnto, Zenon
<1>6. \A k \in 1..n : at[k] \in places /\ Rank(at[k], places) = k
  BY <1>5
<1>7. Kept(list, places) = [k \in 1..n |-> list[at[k]]]
  BY DEF Kept
<1> HIDE DEF n, at
<1>8. \A k \in 1..n : list[at[k]] \in S
  BY <1>1, <1>6
<1>9. Kept(list, places) \in Seq(S) /\ Len(Kept(list, places)) = n
  BY <1>5, <1>7, <1>8
<1>10. DOMAIN Kept(list, places) = 1..n
  BY <1>7
<1>11. at \in [1..n -> DOMAIN list]
  BY <1>6 DEF at
<1>12. \A k, l \in 1..n : at[k] = at[l] => k = l
  BY <1>6
<1>13. \A k \in 1..n : Kept(list, places)[k] = list[at[k]]
  BY <1>7
<1> QED BY <1>3, <1>9, <1>10, <1>11, <1>12, <1>13

Distinct(list) == \A i, j \in DOMAIN list : list[i].peer = list[j].peer => i = j

\* The lists a manifest may have: within the limit, no provider twice.
Lists == {list \in Seq(ProviderInfo) :
             Len(list) <= max_providers_per_manifest /\ Distinct(list)}

\* Lists in a channel are put back into the cache later, so they count too.
CacheInv ==
    /\ now \in 0..MaxTime
    /\ remote_providers \in [Manifest -> Lists]
    /\ inbox \in [Caller -> Seq(Lists)]

\* Filtering out what has expired leaves such a list.
LEMMA ValidIsList == ASSUME NEW list \in Lists PROVE Valid(list) \in Lists
<1> DEFINE places == {i \in DOMAIN list : ~is_expired(list[i])}
           valid == Kept(list, places)
<1>1. list \in Seq(ProviderInfo) /\ Len(list) <= max_providers_per_manifest /\ Distinct(list)
  BY DEF Lists
<1>2. places \in SUBSET DOMAIN list
  OBVIOUS
<1> HIDE DEF places
<1>3. /\ valid \in Seq(ProviderInfo) /\ Len(valid) <= Len(list)
      /\ \E at \in [DOMAIN valid -> DOMAIN list] :
            /\ \A k \in DOMAIN valid : valid[k] = list[at[k]]
            /\ \A k, l \in DOMAIN valid : at[k] = at[l] => k = l
  BY <1>1, <1>2, KeptPlaces
<1> HIDE DEF valid
<1>4. Distinct(valid)
  <2>1. PICK at \in [DOMAIN valid -> DOMAIN list] :
           /\ \A k \in DOMAIN valid : valid[k] = list[at[k]]
           /\ \A k, l \in DOMAIN valid : at[k] = at[l] => k = l
    BY <1>3
  <2> SUFFICES ASSUME NEW k \in DOMAIN valid, NEW l \in DOMAIN valid,
                      valid[k].peer = valid[l].peer
               PROVE  k = l
    BY DEF Distinct
  <2>2. at[k] \in DOMAIN list /\ at[l] \in DOMAIN list /\ list[at[k]].peer = list[at[l]].peer
    BY <2>1
  <2>3. at[k] = at[l]
    BY <1>1, <2>2 DEF Distinct
  <2> QED BY <2>1, <2>3
<1>5. Len(valid) <= max_providers_per_manifest
  BY <1>1, <1>3, ProviderAssumption
<1>6. valid \in Lists
  BY <1>3, <1>4, <1>5, Zenon DEF Lists
<1> QED BY <1>6 DEF Valid, valid, places

LEMMA Joined ==
    ASSUME NEW S, NEW s \in Seq(S), NEW t \in Seq(S)
    PROVE  /\ s \o t \in Seq(S) /\ Len(s \o t) = Len(s) + Len(t)
           /\ \A i \in 1..(Len(s) + Len(t)) :
                 (s \o t)[i] = IF i <= Len(s) THEN s[i] ELSE t[i - Len(s)]
OBVIOUS

\* The entries of the list without the one at o.
LEMMA RemovedAt ==
    ASSUME NEW S, NEW list \in Seq(S), NEW o \in Nat, 1 <= o, o <= Len(list)
    PROVE  /\ RemoveAt(list, o) \in Seq(S)
           /\ Len(RemoveAt(list, o)) = Len(list) - 1
           /\ \A i \in 1..(Len(list) - 1) :
                 RemoveAt(list, o)[i] = IF i < o THEN list[i] ELSE list[i + 1]
<1> DEFINE before == SubSeq(list, 1, o - 1)
           after == SubSeq(list, o + 1, Len(list))
<1>1. /\ before \in Seq(S) /\ Len(before) = o - 1
      /\ \A i \in 1..(o - 1) : before[i] = list[i]
  OBVIOUS
<1>2. /\ after \in Seq(S) /\ Len(after) = Len(list) - o
      /\ \A i \in 1..(Len(list) - o) : after[i] = list[i + o]
  OBVIOUS
<1>3. RemoveAt(list, o) = before \o after
  BY Zenon DEF RemoveAt
<1> HIDE DEF before, after
<1>4. /\ before \o after \in Seq(S) /\ Len(before \o after) = Len(list) - 1
      /\ \A i \in 1..(Len(list) - 1) :
            (before \o after)[i] = IF i < o THEN before[i] ELSE after[i - (o - 1)]
  <2>1. /\ before \o after \in Seq(S) /\ Len(before \o after) = Len(before) + Len(after)
        /\ \A i \in 1..(Len(before) + Len(after)) :
              (before \o after)[i] = IF i <= Len(before) THEN before[i] ELSE after[i - Len(before)]
    BY <1>1, <1>2, Joined, Zenon
  <2>2. Len(before) + Len(after) = Len(list) - 1
    BY <1>1, <1>2
  <2>3. \A i \in 1..(Len(list) - 1) : i <= o - 1 <=> i < o
    OBVIOUS
  <2> QED BY <1>1, <2>1, <2>2, <2>3, Zenon
<1>5. ASSUME NEW i \in 1..(Len(list) - 1)
      PROVE  (before \o after)[i] = IF i < o THEN list[i] ELSE list[i + 1]
  <2>1. CASE i < o
    BY <1>1, <1>4, <2>1
  <2>2. CASE ~(i < o)
    <3>1. i - (o - 1) \in 1..(Len(list) - o) /\ (i - (o - 1)) + o = i + 1
      BY <2>2
    <3> QED BY <1>2, <1>4, <2>2, <3>1
  <2> QED BY <2>1, <2>2, Zenon
<1> QED BY <1>3, <1>4, <1>5, Zenon

\* The list without one of its entries.
LEMMA Removed ==
    ASSUME NEW list \in Seq(ProviderInfo), Distinct(list), NEW o \in DOMAIN list
    PROVE  LET rest == RemoveAt(list, o)
           IN  /\ rest \in Seq(ProviderInfo) /\ Len(rest) = Len(list) - 1 /\ Distinct(rest)
               /\ \A i \in DOMAIN rest : \E j \in DOMAIN list : rest[i] = list[j]
<1> DEFINE rest == RemoveAt(list, o)
           place(i) == IF i < o THEN i ELSE i + 1
<1>0. o \in Nat /\ 1 <= o /\ o <= Len(list) /\ Len(list) \in Nat
  OBVIOUS
<1>1. rest \in Seq(ProviderInfo) /\ Len(rest) = Len(list) - 1
  BY <1>0, RemovedAt, Zenon
<1>2. \A i \in 1..(Len(list) - 1) : rest[i] = list[place(i)]
  BY <1>0, RemovedAt, Zenon
<1>3. DOMAIN rest = 1..(Len(list) - 1) /\ DOMAIN list = 1..Len(list)
  BY <1>1
<1>4. \A i \in DOMAIN rest : place(i) \in DOMAIN list
  BY <1>0, <1>3
<1>5. \A i, j \in DOMAIN rest : place(i) = place(j) => i = j
  BY <1>0, <1>3
<1> HIDE DEF rest, place
<1>6. Distinct(rest)
  BY <1>2, <1>3, <1>4, <1>5 DEF Distinct
<1>7. \A i \in DOMAIN rest : \E j \in DOMAIN list : rest[i] = list[j]
  BY <1>2, <1>3, <1>4
<1> QED BY <1>1, <1>6, <1>7, Zenon DEF rest

\* A full list has a provider that was seen least recently, the first of several.
LEMMA OldestExists ==
    ASSUME NEW list \in Seq(ProviderInfo), list # <<>>
    PROVE  \E i \in DOMAIN list :
              /\ \A j \in DOMAIN list : ~(list[j].last_seen < list[i].last_seen)
              /\ \A j \in 1..(i - 1) : list[i].last_seen < list[j].last_seen
<1> DEFINE seen == {list[i].last_seen : i \in DOMAIN list}
<1>1. /\ DOMAIN list = 1..Len(list) /\ Len(list) \in Nat /\ Len(list) > 0
      /\ \A i \in DOMAIN list : list[i].last_seen \in 0..MaxTime
  <2>1. DOMAIN list = 1..Len(list) /\ Len(list) \in Nat
    OBVIOUS
  <2>2. Len(list) > 0
    BY <2>1
  <2>3. \A i \in DOMAIN list : list[i] \in ProviderInfo
    OBVIOUS
  <2>4. \A i \in DOMAIN list : list[i].last_seen \in 0..MaxTime
    BY <2>3 DEF ProviderInfo
  <2> QED BY <2>1, <2>2, <2>4
<1>2. seen \in SUBSET Nat /\ seen # {} /\ \A x \in seen : x <= MaxTime
  BY <1>1, ProviderAssumption
<1>3. IsFiniteSet(seen)
  <2>1. MaxTime \in Nat
    BY ProviderAssumption
  <2> HIDE DEF seen
  <2> QED BY <1>2, <2>1, FS_BoundedSetOfNaturals, Zenon
<1>4. PICK least \in seen : \A x \in seen : least <= x
  BY <1>2, <1>3, Least, Zenon
<1> DEFINE where == {i \in DOMAIN list : list[i].last_seen = least}
<1>5. where \in SUBSET Nat /\ where # {} /\ \A i \in where : i <= Len(list)
  BY <1>1, <1>4
<1>6. IsFiniteSet(where)
  BY <1>1, <1>5, FS_BoundedSetOfNaturals, Zenon
<1>7. PICK first \in where : \A i \in where : first <= i
  BY <1>5, <1>6, Least
<1>8. first \in DOMAIN list /\ list[first].last_seen = least
  BY <1>7
<1>9. \A j \in DOMAIN list : least <= list[j].last_seen
  BY <1>4
<1>10. ASSUME NEW j \in 1..(first - 1) PROVE list[first].last_seen < list[j].last_seen
  <2>1. j \in DOMAIN list /\ j \notin where
    BY <1>1, <1>7, <1>8
  <2> QED BY <1>1, <1>8, <1>9, <2>1
<1>11. \A j \in DOMAIN list : ~(list[j].last_seen < list[first].last_seen)
  BY <1>1, <1>8, <1>9
<1> QED BY <1>8, <1>10, <1>11

\* What is left when the oldest provider has made room.
LEMMA EvictedIsList ==
    ASSUME NEW list \in Lists, list # <<>>
    PROVE  /\ Evicted(list) \in Seq(ProviderInfo) /\ Len(Evicted(list)) = Len(list) - 1
           /\ Distinct(Evicted(list))
           /\ \A i \in DOMAIN Evicted(list) : \E j \in DOMAIN list : Evicted(list)[i] = list[j]
<1> DEFINE Oldest(i) ==
              /\ \A j \in DOMAIN list : ~(list[j].last_seen < list[i].last_seen)
              /\ \A j \in 1..(i - 1) : list[i].last_seen < list[j].last_seen
           o == CHOOSE i \in DOMAIN list : Oldest(i)
<1>1. list \in Seq(ProviderInfo) /\ Distinct(list)
  BY DEF Lists
<1>2. \E i \in DOMAIN list : Oldest(i)
  BY <1>1, OldestExists
<1>3. Evicted(list) = RemoveAt(list, o)
  BY DEF Evicted
<1> HIDE DEF Oldest
<1>4. o \in DOMAIN list
  BY <1>2
<1> HIDE DEF o
<1> QED BY <1>1, <1>3, <1>4, Removed

\* A new provider at the end of a list that does not name it.
LEMMA Appended ==
    ASSUME NEW list \in Seq(ProviderInfo), Distinct(list), NEW new \in ProviderInfo,
           Len(list) < max_providers_per_manifest,
           \A i \in DOMAIN list : list[i].peer # new.peer
    PROVE  Append(list, new) \in Lists
<1> DEFINE more == Append(list, new)
<1>1. /\ more \in Seq(ProviderInfo) /\ Len(more) = Len(list) + 1
      /\ \A i \in DOMAIN list : more[i] = list[i]
      /\ more[Len(list) + 1] = new
      /\ DOMAIN more = DOMAIN list \union {Len(list) + 1}
  OBVIOUS
<1> HIDE DEF more
<1>2. Distinct(more)
  BY <1>1 DEF Distinct
<1>3. Len(more) <= max_providers_per_manifest
  BY <1>1, ProviderAssumption
<1> QED BY <1>1, <1>2, <1>3, Zenon DEF Lists, more

\* A reported provider leaves the list within its limit, each provider once.
LEMMA FoundIsList ==
    ASSUME now \in 0..MaxTime, NEW list \in Lists, NEW p \in Peer
    PROVE  Found(list, p) \in Lists
<1> DEFINE new == [peer |-> p, announced_at |-> now, last_seen |-> now]
           known == {i \in DOMAIN list : list[i].peer = p}
           seen == [i \in DOMAIN list |->
                      IF i \in known THEN [list[i] EXCEPT !.last_seen = now] ELSE list[i]]
<1>1. list \in Seq(ProviderInfo) /\ Len(list) <= max_providers_per_manifest /\ Distinct(list)
  BY DEF Lists
<1>2. new \in ProviderInfo /\ new.peer = p
  BY DEF ProviderInfo
<1>3. CASE known # {}
  <2>1. Found(list, p) = seen
    BY <1>3 DEF Found
  <2>2. ASSUME NEW i \in DOMAIN list PROVE seen[i] \in ProviderInfo /\ seen[i].peer = list[i].peer
    <3>1. list[i] \in ProviderInfo
      BY <1>1
    <3> QED BY <3>1 DEF ProviderInfo
  <2>3. DOMAIN seen = 1..Len(list) /\ DOMAIN list = 1..Len(list) /\ Len(list) \in Nat
    BY <1>1
  <2>4. seen = [i \in 1..Len(list) |-> seen[i]]
    BY <2>3
  <2> HIDE DEF seen
  <2>5. seen \in Seq(ProviderInfo) /\ Len(seen) = Len(list)
    BY <2>2, <2>3, <2>4
  <2>6. Distinct(seen)
    BY <1>1, <2>2, <2>3, Zenon DEF Distinct
  <2> QED BY <1>1, <2>1, <2>5, <2>6 DEF Lists
<1>4. CASE known = {} /\ Len(list) >= max_providers_per_manifest
  <2>1. Found(list, p) = Append(Evicted(list), new)
    BY <1>4 DEF Found
  <2>2. list # <<>>
    BY <1>1, <1>4, ProviderAssumption
  <2>3. /\ Evicted(list) \in Seq(ProviderInfo) /\ Len(Evicted(list)) = Len(list) - 1
        /\ Distinct(Evicted(list))
        /\ \A i \in DOMAIN Evicted(list) : \E j \in DOMAIN list : Evicted(list)[i] = list[j]
    BY <2>2, EvictedIsList, Zenon
  <2>4. \A i \in DOMAIN Evicted(list) : Evicted(list)[i].peer # new.peer
    BY <1>2, <1>4, <2>3
  <2>5. Len(Evicted(list)) < max_providers_per_manifest
    BY <1>1, <2>3, ProviderAssumption
  <2> HIDE DEF new
  <2> QED BY <1>2, <2>1, <2>3, <2>4, <2>5, Appended, Zenon
<1>5. CASE known = {} /\ ~(Len(list) >= max_providers_per_manifest)
  <2>1. Found(list, p) = Append(list, new)
    BY <1>5 DEF Found
  <2>2. Len(list) < max_providers_per_manifest
    BY <1>1, <1>5, ProviderAssumption
  <2>3. \A i \in DOMAIN list : list[i].peer # new.peer
    BY <1>2, <1>5
  <2> HIDE DEF new
  <2> QED BY <1>1, <1>2, <2>1, <2>2, <2>3, Appended
<1> QED BY <1>3, <1>4, <1>5

\* The cache is empty at first.
LEMMA CacheInit == Init => CacheInv
<1> SUFFICES ASSUME Init PROVE CacheInv
  OBVIOUS
<1>1. <<>> \in Lists
  BY ProviderAssumption DEF Lists, Distinct
<1> QED BY <1>1, ProviderAssumption DEF Init, CacheInv

\* Every step keeps the cache, and the lists on their way back into it.
LEMMA CacheStep ==
    ASSUME IInv, CacheInv, [Next]_vars
    PROVE  CacheInv'
<1>1. ASSUME NEW c \in Caller, QueryAnswered(c) PROVE CacheInv'
  <2>1. inbox[c] \in Seq(Lists) /\ inbox[c] # <<>>
    BY <1>1 DEF CacheInv, QueryAnswered
  <2>2. Head(inbox[c]) \in Lists
    BY <2>1
  <2>3. remote_providers' \in [Manifest -> Lists]
    BY <1>1, <2>2 DEF CacheInv, QueryAnswered
  <2>4. inbox' \in [Caller -> Seq(Lists)]
    BY <1>1 DEF CacheInv, QueryAnswered
  <2> QED BY <1>1, <2>3, <2>4, Zenon DEF CacheInv, QueryAnswered
<1>2. ASSUME NEW c \in Caller, QueryRegister(c) \/ QueryTimedOut(c) PROVE CacheInv'
  BY <1>2 DEF CacheInv, QueryRegister, QueryTimedOut
<1>3. ASSUME NEW c \in Caller, NEW m \in Manifest, DiscoverCached(c, m) PROVE CacheInv'
  BY <1>3 DEF CacheInv, DiscoverCached
<1>4. ASSUME NEW f \in Finder, FoundNotify(f) PROVE CacheInv'
  <2>1. finder[f] \in Manifest
    BY <1>4 DEF IInv, Shape, FoundNotify
  <2>2. remote_providers[finder[f]] \in Lists
    BY <2>1 DEF CacheInv
  <2>3. \A c \in Caller : Append(inbox[c], remote_providers[finder[f]]) \in Seq(Lists)
    BY <2>2 DEF CacheInv
  <2>4. inbox' \in [Caller -> Seq(Lists)]
    BY <1>4, <2>3 DEF CacheInv, FoundNotify
  <2> QED BY <1>4, <2>4 DEF CacheInv, FoundNotify
<1>5. ASSUME NEW f \in Finder, NEW m \in Manifest, NEW p \in Peer, FoundAdd(f, m, p)
      PROVE  CacheInv'
  <2>1. Found(remote_providers[m], p) \in Lists
    BY FoundIsList DEF CacheInv
  <2> QED BY <1>5, <2>1 DEF CacheInv, FoundAdd
<1>6. CASE Cleanup
  <2>1. \A m \in Manifest : Valid(remote_providers[m]) \in Lists
    BY ValidIsList DEF CacheInv
  <2> QED BY <1>6, <2>1 DEF CacheInv, Cleanup
<1>7. CASE Tick
  BY <1>7, ProviderAssumption DEF CacheInv, Tick
<1>8. CASE UNCHANGED vars
  BY <1>8 DEF CacheInv, vars
<1> QED BY <1>1, <1>2, <1>3, <1>4, <1>5, <1>6, <1>7, <1>8, Zenon DEF Next, CallStep

\* The providers of a manifest are named once and never exceed
\* max_providers_per_manifest, whatever reports, clean-ups and answered calls
\* that put back an old list do to the cache between them
\* (handle_provider_found, query_dht_providers, cleanup_expired_providers).
THEOREM CacheBounded == Spec => []TypeOK
<1>1. Init => CacheInv
  BY CacheInit
<1>2. IInv /\ CacheInv /\ [Next]_vars => CacheInv'
  BY CacheStep
<1>3. IInv /\ CacheInv => TypeOK
  <2> SUFFICES ASSUME IInv, CacheInv PROVE TypeOK
    OBVIOUS
  <2>1. Lists \in SUBSET Seq(ProviderInfo)
    BY DEF Lists
  <2>2. \A q \in Seq(Lists) : q \in Seq(Seq(ProviderInfo))
    BY <2>1
  <2>3. remote_providers \in [Manifest -> Seq(ProviderInfo)]
    BY <2>1 DEF CacheInv
  <2>4. inbox \in [Caller -> Seq(Seq(ProviderInfo))]
    BY <2>2 DEF CacheInv
  <2>5. ASSUME NEW m \in Manifest
        PROVE  /\ Len(remote_providers[m]) <= max_providers_per_manifest
               /\ Distinct(remote_providers[m])
    BY DEF CacheInv, Lists
  <2> QED BY <2>3, <2>4, <2>5, Zenon DEF IInv, Shape, CacheInv, Distinct, TypeOK
<1> QED BY <1>1, <1>2, <1>3, CallsConnected, PTL DEF Spec

=============================================================================
