----------------------- MODULE ResourceVerifierProofs -----------------------
(***************************************************************************)
(* Theorems about the reservation table, for every host, request mix, hold *)
(* time and set of request ids.                                            *)
(***************************************************************************)
EXTENDS ResourceVerifier, FiniteSetTheorems, TLAPS

-----------------------------------------------------------------------------
(* The arithmetic of Capacity *)

\* Saturating operations stay within the naturals and below the limit.
LEMMA SatMinType ==
    ASSUME NEW a \in Nat, NEW b \in Nat
    PROVE  SatMin(a, b) \in Nat /\ SatMin(a, b) <= a /\ SatMin(a, b) <= b
BY DEF SatMin

\* saturating_sub never goes below zero.
LEMMA SatSubType ==
    ASSUME NEW a \in Nat, NEW b \in Nat
    PROVE  SatSub(a, b) \in Nat
BY DEF SatSub

\* What a host offers after limit, reserve and allocation is a natural.
LEMMA AvailableType ==
    ASSUME NEW sys \in SystemResources, NEW d \in Dim
    PROVE  available(sys, d) \in Nat
<1>1. sys.total[d] \in Nat /\ sys.allocated[d] \in Nat
  BY DEF SystemResources, Amount
<1>2. AllocPercent \in Nat /\ MinFree[d] \in Nat
  BY CapacityAssumption
<1>3. sys.total[d] * AllocPercent \in Nat
  BY <1>1, <1>2
<1>4. (sys.total[d] * AllocPercent) \div 100 \in Nat
  BY <1>3
<1> QED
  BY <1>1, <1>2, <1>4, SatSubType, Zenon DEF available

\* What a request needs saturates at the integer type's limit.
LEMMA TotalNeededType ==
    ASSUME NEW req \in ResourceRequest
    PROVE  total_needed(req) \in Amount
<1> DEFINE n == IF req.replicas = 0 THEN 1 ELSE req.replicas
<1>1. n \in Nat /\ req.size \in [Dim -> Nat]
  BY DEF ResourceRequest, Amount
<1>2. ASSUME NEW d \in Dim
      PROVE  /\ SatMin(MaxValue[d], req.size[d] * n) \in Nat
             /\ SatMin(MaxValue[d], req.size[d] * n) <= MaxValue[d]
  <2>1. req.size[d] * n \in Nat /\ MaxValue[d] \in Nat
    BY <1>1, CapacityAssumption
  <2> QED BY <2>1, SatMinType, Zenon
<1> QED
  BY <1>2 DEF total_needed, Amount

-----------------------------------------------------------------------------
(* Counting the reserved units *)

LEMMA Interval ==
    ASSUME NEW k \in Nat
    PROVE  IsFiniteSet(1..k) /\ Cardinality(1..k) = k
BY FS_Interval

\* A table with finitely many entries holds finitely many units.
LEMMA ReservedType ==
    ASSUME NEW res, IsFiniteSet(DOMAIN res), NEW d \in Dim
    PROVE  /\ IsFiniteSet(ReservedUnits(res, d))
           /\ Reserved(res, d) \in Nat
<1>1. MaxValue[d] \in Nat
  BY CapacityAssumption
<1>2. IsFiniteSet(1..MaxValue[d])
  BY <1>1, Interval, Zenon
<1>3. IsFiniteSet((DOMAIN res) \X (1..MaxValue[d]))
  BY <1>2, FS_Product, Zenon
<1>4. ReservedUnits(res, d) \subseteq (DOMAIN res) \X (1..MaxValue[d])
  BY DEF ReservedUnits
<1>5. IsFiniteSet(ReservedUnits(res, d))
  BY <1>3, <1>4, FS_Subset
<1> QED
  BY <1>5, FS_CardinalityType DEF Reserved

\* Dropping entries frees capacity.
LEMMA ReservedShrinks ==
    ASSUME NEW res, IsFiniteSet(DOMAIN res),
           NEW new, DOMAIN new \subseteq DOMAIN res,
           \A id \in DOMAIN new : new[id].size = res[id].size,
           NEW d \in Dim
    PROVE  Reserved(new, d) <= Reserved(res, d)
<1>1. ReservedUnits(new, d) \subseteq ReservedUnits(res, d)
  BY DEF ReservedUnits
<1> QED
  BY <1>1, ReservedType, FS_Subset DEF Reserved

\* Changing only manifests and deadlines leaves the sum alone.
LEMMA ReservedSame ==
    ASSUME NEW res, NEW new, DOMAIN new = DOMAIN res,
           \A id \in DOMAIN new : new[id].size = res[id].size,
           NEW d \in Dim
    PROVE  Reserved(new, d) = Reserved(res, d)
<1>1. ReservedUnits(new, d) = ReservedUnits(res, d)
  BY DEF ReservedUnits
<1> QED
  BY <1>1 DEF Reserved

\* A new entry adds its size, no more and no less.
LEMMA ReservedInsert ==
    ASSUME NEW res, IsFiniteSet(DOMAIN res),
           NEW id, id \notin DOMAIN res,
           NEW m, NEW needed \in Amount, NEW d \in Dim
    PROVE  Reserved(InsertReservation(res, id, m, needed), d)
              = Reserved(res, d) + needed[d]
<1> DEFINE new == InsertReservation(res, id, m, needed)
           own == {id} \X (1..needed[d])
<1>1. needed[d] \in Nat /\ needed[d] <= MaxValue[d] /\ MaxValue[d] \in Nat
  BY CapacityAssumption DEF Amount
<1>2. /\ DOMAIN new = DOMAIN res \cup {id}
      /\ new[id].size = needed
      /\ \A i \in DOMAIN res : new[i] = res[i]
  BY DEF InsertReservation
<1>3. ReservedUnits(new, d) = ReservedUnits(res, d) \cup own
  <2>1. ASSUME NEW u \in ReservedUnits(new, d)
        PROVE  u \in ReservedUnits(res, d) \cup own
    BY <2>1, <1>1, <1>2 DEF ReservedUnits
  <2>2. ASSUME NEW u \in ReservedUnits(res, d)
        PROVE  u \in ReservedUnits(new, d)
    BY <2>2, <1>2 DEF ReservedUnits
  <2>3. ASSUME NEW u \in own
        PROVE  u \in ReservedUnits(new, d)
    BY <2>3, <1>1, <1>2 DEF ReservedUnits
  <2> QED BY <2>1, <2>2, <2>3
<1>4. ReservedUnits(res, d) \cap own = {}
  BY DEF ReservedUnits
<1>5. IsFiniteSet(own) /\ Cardinality(own) = needed[d]
  <2>1. IsFiniteSet(1..needed[d]) /\ Cardinality(1..needed[d]) = needed[d]
    BY <1>1, Interval, Zenon
  <2>2. IsFiniteSet({id}) /\ Cardinality({id}) = 1
    BY FS_Singleton, Zenon
  <2>3. /\ IsFiniteSet({id} \X (1..needed[d]))
        /\ Cardinality({id} \X (1..needed[d])) = Cardinality({id}) * Cardinality(1..needed[d])
    BY <2>1, <2>2, FS_Product, Zenon
  <2>4. 1 * needed[d] = needed[d]
    BY <1>1
  <2> QED
    BY <2>1, <2>2, <2>3, <2>4, Zenon
<1>6. IsFiniteSet(ReservedUnits(res, d)) /\ Reserved(res, d) \in Nat
  BY ReservedType
<1>7. Cardinality(ReservedUnits(res, d) \cup own)
         = Cardinality(ReservedUnits(res, d)) + Cardinality(own)
             - Cardinality(ReservedUnits(res, d) \cap own)
  BY <1>5, <1>6, FS_Union
<1>8. Cardinality({}) = 0
  BY FS_EmptySet
<1>9. Cardinality(ReservedUnits(new, d)) = Cardinality(ReservedUnits(res, d)) + needed[d]
  <2> HIDE DEF new, own
  <2>1. Cardinality(ReservedUnits(res, d)) \in Nat
    BY <1>6 DEF Reserved
  <2>2. Cardinality(ReservedUnits(new, d)) = Cardinality(ReservedUnits(res, d) \cup own)
    BY <1>3
  <2>3. Cardinality(ReservedUnits(res, d) \cap own) = 0
    BY <1>4, <1>8
  <2>4. Cardinality(own) = needed[d]
    BY <1>5
  <2> QED
    BY <1>1, <1>7, <2>1, <2>2, <2>3, <2>4
<1> QED
  BY <1>9 DEF Reserved
-----------------------------------------------------------------------------
(* What each operation does to the table *)

\* Pruning keeps a table a table and changes no entry it leaves.
LEMMA PruneTable ==
    ASSUME NEW res, IsTable(res), NEW new, new = prune_expired_reservations(res)
    PROVE  /\ IsTable(new)
           /\ DOMAIN new = {i \in DOMAIN res : ~Expired(res, i)}
           /\ \A id \in DOMAIN new : new[id] = res[id]
BY DEF prune_expired_reservations, IsTable

\* Refreshing an entry keeps the table's ids and the entry's size.
LEMMA RefreshTable ==
    ASSUME NEW res, IsTable(res), NEW id \in DOMAIN res, NEW m \in ManifestId,
           NEW new, new = RefreshReservation(res, id, m)
    PROVE  /\ IsTable(new)
           /\ DOMAIN new = DOMAIN res
           /\ \A i \in DOMAIN new : new[i].size = res[i].size
<1>1. PICK S \in SUBSET RequestId : res \in [S -> CapacityReservation]
  BY DEF IsTable
<1>2. Hold \in 0..Hold
  BY CapacityAssumption
<1>3. new \in [S -> CapacityReservation]
  BY <1>1, <1>2 DEF RefreshReservation, CapacityReservation
<1> QED
  BY <1>1, <1>3 DEF RefreshReservation, CapacityReservation, IsTable

\* Inserting adds one id and touches no other entry.
LEMMA InsertTable ==
    ASSUME NEW res, IsTable(res), NEW id \in RequestId, NEW m \in ManifestId,
           NEW needed \in Amount, NEW new, new = InsertReservation(res, id, m, needed)
    PROVE  /\ IsTable(new)
           /\ DOMAIN new = DOMAIN res \cup {id}
           /\ \A i \in DOMAIN res \ {id} : new[i] = res[i]
<1>1. PICK S \in SUBSET RequestId : res \in [S -> CapacityReservation]
  BY DEF IsTable
<1>2. Hold \in 0..Hold
  BY CapacityAssumption
<1>3. new \in [S \cup {id} -> CapacityReservation]
  BY <1>1, <1>2 DEF InsertReservation, CapacityReservation
<1> QED
  BY <1>1, <1>3 DEF InsertReservation, IsTable

\* The clock changes neither ids nor manifests nor sizes.
LEMMA AgeTable ==
    ASSUME NEW res, IsTable(res), NEW new, new = Age(res)
    PROVE  /\ IsTable(new)
           /\ DOMAIN new = DOMAIN res
           /\ \A i \in DOMAIN new : new[i].size = res[i].size /\ new[i].manifest = res[i].manifest
<1>1. PICK S \in SUBSET RequestId : res \in [S -> CapacityReservation]
  BY DEF IsTable
<1>2. \A i \in S : SatSub(res[i].left, 1) \in 0..Hold
  BY <1>1, CapacityAssumption DEF SatSub, CapacityReservation
<1>3. new \in [S -> CapacityReservation]
  BY <1>1, <1>2 DEF Age, CapacityReservation
<1> QED
  BY <1>1, <1>3 DEF Age, CapacityReservation, IsTable

-----------------------------------------------------------------------------
(* Type correctness, for any number of event loops.  The sum over the table *)
(* is a number only while the table is finite, so finiteness is carried     *)
(* along.                                                                   *)

TypeInv == TypeOK /\ IsFiniteSet(DOMAIN reservations)

\* The sum of a finite table is an amount; it saturates.
LEMMA TotalReservedType ==
    ASSUME NEW res, IsFiniteSet(DOMAIN res)
    PROVE  total_reserved_resources(res) \in Amount
<1>1. ASSUME NEW d \in Dim
      PROVE  /\ SatMin(MaxValue[d], Reserved(res, d)) \in Nat
             /\ SatMin(MaxValue[d], Reserved(res, d)) <= MaxValue[d]
  BY ReservedType, SatMinType, CapacityAssumption
<1> QED
  BY <1>1 DEF total_reserved_resources, Amount

\* The fold over the table starts with an amount.
LEMMA ZeroType == Zero \in Amount
BY CapacityAssumption DEF Zero, Amount

\* A new verifier has an empty table and no host.
LEMMA TypeInit == Init => TypeInv
<1> SUFFICES ASSUME Init PROVE TypeInv
  OBVIOUS
<1>1. NoResources \in SystemResources
  BY ZeroType DEF NoResources, Zero, SystemResources
<1>2. DOMAIN reservations = {} /\ reservations \in [{} -> CapacityReservation]
  BY DEF Init
<1>3. IsFiniteSet(DOMAIN reservations)
  BY <1>2, FS_EmptySet
<1>4. IsTable(reservations)
  BY <1>2 DEF IsTable
<1>5. call \in [Caller -> Call]
  BY ZeroType DEF Init, Call
<1> QED
  BY <1>1, <1>3, <1>4, <1>5 DEF Init, TypeInv, TypeOK, Control

\* A new reservation is entered beside the others.
LEMMA NewEntry ==
    ASSUME TypeInv, NEW c \in Caller, ReserveInsert(c), call[c].id \notin DOMAIN reservations
    PROVE  /\ IsTable(reservations')
           /\ DOMAIN reservations' = DOMAIN reservations \cup {call[c].id}
           /\ \A i \in DOMAIN reservations \ {call[c].id} : reservations'[i] = reservations[i]
<1>1. reservations' = InsertReservation(reservations, call[c].id, call[c].manifest, call[c].needed)
  BY DEF ReserveInsert
<1>2. call[c].id \in RequestId /\ call[c].manifest \in ManifestId /\ call[c].needed \in Amount
  BY DEF TypeInv, TypeOK, Call
<1>3. IsTable(reservations)
  BY DEF TypeInv, TypeOK
<1> QED
  BY <1>1, <1>2, <1>3, InsertTable

\* The table a step leaves behind is a finite table again.
LEMMA TableStep ==
    ASSUME TypeInv, [Next]_vars
    PROVE  IsTable(reservations') /\ IsFiniteSet(DOMAIN reservations')
<1> USE DEF TypeInv, TypeOK
<1>1. ASSUME reservations' = prune_expired_reservations(reservations)
      PROVE  IsTable(reservations') /\ IsFiniteSet(DOMAIN reservations')
  <2>1. IsTable(reservations') /\ DOMAIN reservations' \in SUBSET DOMAIN reservations
    BY <1>1, PruneTable
  <2> QED BY <2>1, FS_Subset, Zenon
<1>2. ASSUME NEW c \in Caller, call[c].id \in DOMAIN reservations,
             reservations' = RefreshReservation(reservations, call[c].id, call[c].manifest)
      PROVE  IsTable(reservations') /\ IsFiniteSet(DOMAIN reservations')
  <2>1. call[c].manifest \in ManifestId
    BY DEF Call
  <2> QED BY <1>2, <2>1, RefreshTable
<1>3. ASSUME NEW c \in Caller, ReserveInsert(c)
      PROVE  IsTable(reservations') /\ IsFiniteSet(DOMAIN reservations')
  <2>1. CASE call[c].id \in DOMAIN reservations
    BY <1>2, <1>3, <2>1 DEF ReserveInsert
  <2>2. CASE call[c].id \notin DOMAIN reservations
    <3>1. IsTable(reservations') /\ DOMAIN reservations' = DOMAIN reservations \cup {call[c].id}
      BY <1>3, <2>2, NewEntry, Zenon
    <3> QED BY <3>1, FS_AddElement
  <2> QED BY <2>1, <2>2
<1>4. CASE Tick
  BY <1>4, AgeTable DEF Tick
<1>5. ASSUME NEW c \in Caller, Step(c)
      PROVE  IsTable(reservations') /\ IsFiniteSet(DOMAIN reservations')
  <2>1. CASE \E id \in RequestId, req \in Requests : VerifyPrune(c, id, req)
    BY <2>1, <1>1 DEF VerifyPrune
  <2>2. CASE \E m \in ManifestId : GatePrune(c, m)
    BY <2>2, <1>1 DEF GatePrune
  <2>3. CASE ReservePrune(c)
    BY <2>3, <1>1 DEF ReservePrune
  <2>4. CASE ReserveRefresh(c)
    <3>1. CASE call[c].id \in DOMAIN reservations
      BY <2>4, <3>1, <1>2 DEF ReserveRefresh
    <3>2. CASE call[c].id \notin DOMAIN reservations
      BY <2>4, <3>2 DEF ReserveRefresh
    <3> QED BY <3>1, <3>2
  <2>5. CASE ReserveInsert(c)
    BY <2>5, <1>3
  <2>6. CASE UNCHANGED reservations
    BY <2>6
  <2> QED
    BY <1>5, <2>1, <2>2, <2>3, <2>4, <2>5, <2>6
       DEF Step, Return, LockResources, update_system_resources, VerifySum, TakeSnapshot, VerifyCheck,
           ReserveSum, ReserveCheck, GateRead, Deployed
<1>6. CASE UNCHANGED vars
  BY <1>6 DEF vars
<1> QED
  BY <1>4, <1>5, <1>6 DEF Next

\* A step of any caller keeps the types of the host and of the callers' locals.
LEMMA CallStep ==
    ASSUME TypeInv, [Next]_vars
    PROVE  /\ resources' \in SystemResources
           /\ unread' \subseteq Caller /\ writer' \subseteq unread'
           /\ pc' \in [Caller -> Control]
           /\ call' \in [Caller -> Call]
<1> USE DEF TypeInv, TypeOK
<1>1. CASE Tick \/ UNCHANGED vars
  BY <1>1 DEF Tick, vars
<1>2. ASSUME NEW c \in Caller, LockResources(c) \/ update_system_resources(c)
      PROVE  /\ resources' \in SystemResources
             /\ UNCHANGED <<pc, call>>
             /\ unread' \subseteq Caller /\ writer' \subseteq unread'
  BY <1>2, VerifierAssumption DEF LockResources, update_system_resources
<1>3. ASSUME NEW c \in Caller, NEW id \in RequestId, NEW req \in Requests, VerifyPrune(c, id, req)
      PROVE  /\ pc' \in [Caller -> Control]
             /\ call' \in [Caller -> Call]
             /\ UNCHANGED <<resources, unread, writer>>
  <2>1. total_needed(req) \in Amount
    BY TotalNeededType, VerifierAssumption
  <2>2. ManifestOf[id] \in ManifestId
    BY CapacityAssumption
  <2>3. [id |-> id, manifest |-> ManifestOf[id], needed |-> total_needed(req), snapshot |-> Zero] \in Call
    BY <2>1, <2>2, ZeroType DEF Call
  <2> QED BY <1>3, <2>3 DEF VerifyPrune, Goto, Control
<1>4. ASSUME NEW c \in Caller, NEW m \in ManifestId, GatePrune(c, m)
      PROVE  /\ pc' \in [Caller -> Control]
             /\ call' \in [Caller -> Call]
             /\ UNCHANGED <<resources, unread, writer>>
  BY <1>4 DEF GatePrune, Goto, Control, Call
<1>5. ASSUME NEW c \in Caller, VerifySum(c) \/ ReserveSum(c)
      PROVE  /\ pc' \in [Caller -> Control]
             /\ call' \in [Caller -> Call]
             /\ UNCHANGED <<resources, unread, writer>>
  <2>1. total_reserved_resources(reservations) \in Amount
    BY TotalReservedType
  <2>2. call' \in [Caller -> Call]
    BY <1>5, <2>1 DEF VerifySum, ReserveSum, TakeSnapshot, Call
  <2> QED BY <1>5, <2>2 DEF VerifySum, ReserveSum, TakeSnapshot, Goto, Control
<1>6. ASSUME NEW c \in Caller,
             \/ VerifyCheck(c) \/ ReservePrune(c) \/ ReserveRefresh(c) \/ ReserveCheck(c)
             \/ ReserveInsert(c) \/ GateRead(c) \/ Deployed(c)
      PROVE  /\ pc' \in [Caller -> Control]
             /\ UNCHANGED <<resources, unread, writer, call>>
  BY <1>6 DEF VerifyCheck, ReservePrune, ReserveRefresh, ReserveCheck, ReserveInsert,
              GateRead, Deployed, Goto, Control
<1> QED
  BY <1>1, <1>2, <1>3, <1>4, <1>5, <1>6 DEF Next, Step, Return

\* Every step of any number of loops keeps the types.
LEMMA TypeStep == TypeInv /\ [Next]_vars => TypeInv'
BY TableStep, CallStep DEF TypeInv, TypeOK

\* The verifier's state always has its type: in particular sums of reserved
\* resources, remaining holds and snapshots never leave their integer ranges.
THEOREM TypeCorrect == Spec => []TypeOK
<1>1. Spec => []TypeInv
  BY TypeInit, TypeStep, PTL DEF Spec
<1>2. TypeInv => TypeOK
  BY DEF TypeInv
<1> QED
  BY <1>1, <1>2, PTL

-----------------------------------------------------------------------------
(* Live reservations, for any number of event loops *)

\* No step of any loop removes or resizes a live reservation.
LEMMA KeepStep == TypeInv /\ [Next]_vars => [KeepsLiveReservations]_vars
<1> SUFFICES ASSUME TypeInv, Next PROVE KeepsLiveReservations
  BY DEF vars
<1> USE DEF TypeInv, TypeOK
<1>1. ASSUME reservations' = prune_expired_reservations(reservations)
      PROVE  KeepsLiveReservations
  <2>1. /\ DOMAIN reservations' = {i \in DOMAIN reservations : ~Expired(reservations, i)}
        /\ \A id \in DOMAIN reservations' : reservations'[id] = reservations[id]
    BY <1>1, PruneTable
  <2> QED BY <2>1 DEF KeepsLiveReservations
<1>2. ASSUME NEW c \in Caller, call[c].id \in DOMAIN reservations,
             reservations' = RefreshReservation(reservations, call[c].id, call[c].manifest)
      PROVE  KeepsLiveReservations
  <2>1. call[c].manifest \in ManifestId
    BY DEF Call
  <2> QED BY <1>2, <2>1, RefreshTable DEF KeepsLiveReservations
<1>3. ASSUME NEW c \in Caller, ReserveInsert(c), call[c].id \notin DOMAIN reservations
      PROVE  KeepsLiveReservations
  <2>1. /\ DOMAIN reservations' = DOMAIN reservations \cup {call[c].id}
        /\ \A i \in DOMAIN reservations \ {call[c].id} : reservations'[i] = reservations[i]
    BY <1>3, NewEntry, Zenon
  <2> QED BY <1>3, <2>1 DEF KeepsLiveReservations
<1>4. CASE Tick
  BY <1>4, AgeTable DEF Tick, KeepsLiveReservations
<1>5. ASSUME UNCHANGED reservations
      PROVE  KeepsLiveReservations
  BY <1>5 DEF KeepsLiveReservations
<1>6. ASSUME NEW c \in Caller, Step(c)
      PROVE  KeepsLiveReservations
  <2>1. CASE \E id \in RequestId, req \in Requests : VerifyPrune(c, id, req)
    BY <2>1, <1>1 DEF VerifyPrune
  <2>2. CASE \E m \in ManifestId : GatePrune(c, m)
    BY <2>2, <1>1 DEF GatePrune
  <2>3. CASE ReservePrune(c)
    BY <2>3, <1>1 DEF ReservePrune
  <2>4. CASE ReserveRefresh(c)
    <3>1. CASE call[c].id \in DOMAIN reservations
      BY <2>4, <3>1, <1>2 DEF ReserveRefresh
    <3>2. CASE call[c].id \notin DOMAIN reservations
      BY <2>4, <3>2, <1>5 DEF ReserveRefresh
    <3> QED BY <3>1, <3>2
  <2>5. CASE ReserveInsert(c)
    <3>1. CASE call[c].id \in DOMAIN reservations
      BY <2>5, <3>1, <1>2 DEF ReserveInsert
    <3>2. CASE call[c].id \notin DOMAIN reservations
      BY <2>5, <3>2, <1>3
    <3> QED BY <3>1, <3>2
  <2> QED
    BY <1>5, <1>6, <2>1, <2>2, <2>3, <2>4, <2>5
       DEF Step, Return, LockResources, update_system_resources, VerifySum, TakeSnapshot, VerifyCheck,
           ReserveSum, ReserveCheck, GateRead, Deployed
<1> QED
  BY <1>4, <1>6 DEF Next

\* However many event loops share the table, no step of any of them drops or
\* resizes a reservation before its hold has run out.
THEOREM LiveReservations == Spec => LiveReservationsKept
<1>1. Spec => []TypeInv
  BY TypeInit, TypeStep, PTL DEF Spec
<1> QED
  BY <1>1, KeepStep, PTL DEF Spec, LiveReservationsKept

-----------------------------------------------------------------------------
(* One event loop, as in the machine binary.  WithinCapacity is not         *)
(* inductive: what the loop is about to insert must be known to fit beside  *)
(* what is in the table now, which rests on the snapshot still being the    *)
(* table's sum when it is compared.                                         *)

SerialInv ==
    /\ TypeInv
    /\ WithinCapacity
    /\ DeploymentBacked
    /\ \A c \in unread : resources = NoResources
    /\ \A c \in Caller :
          /\ pc[c] = "reserve_check" =>
                call[c].snapshot = total_reserved_resources(reservations)
          /\ pc[c] = "reserve_insert" =>
                \A d \in Dim :
                    Reserved(reservations, d) + call[c].needed[d] <= available(resources, d)

\* The percentage cap keeps what is on offer below the integer type's limit,
\* so a sum that fits has not saturated.
LEMMA AvailableBound ==
    ASSUME NEW sys \in SystemResources, NEW d \in Dim
    PROVE  available(sys, d) <= MaxValue[d]
<1> DEFINE t == sys.total[d]
<1>1. /\ t \in Nat /\ t <= MaxValue[d] /\ MaxValue[d] \in Nat
      /\ sys.allocated[d] \in Nat /\ MinFree[d] \in Nat /\ AllocPercent \in 0..100
  BY CapacityAssumption DEF SystemResources, Amount
<1> HIDE DEF t
<1>2. t * AllocPercent \in Nat /\ t * AllocPercent <= t * 100
  <2>1. \A a, b, x \in Nat : a <= b => x * a <= x * b
    OBVIOUS
  <2>2. AllocPercent \in Nat /\ AllocPercent <= 100
    BY <1>1
  <2> QED
    BY <1>1, <2>1, <2>2
<1>3. (t * AllocPercent) \div 100 \in Nat /\ (t * AllocPercent) \div 100 <= t
  BY <1>1, <1>2
<1>4. \A a, b \in Nat : SatSub(a, b) \in Nat /\ SatSub(a, b) <= a
  BY DEF SatSub
<1>5. available(sys, d) = SatSub(SatSub((t * AllocPercent) \div 100, MinFree[d]), sys.allocated[d])
  BY DEF available, t
<1> DEFINE q == (t * AllocPercent) \div 100
           inner == SatSub(q, MinFree[d])
<1>6. inner \in Nat /\ inner <= q
  BY <1>1, <1>3, <1>4, Zenon
<1>7. available(sys, d) \in Nat /\ available(sys, d) <= inner
  <2>1. available(sys, d) = SatSub(inner, sys.allocated[d])
    BY <1>5
  <2> HIDE DEF inner
  <2> QED BY <1>1, <1>4, <1>6, <2>1, Zenon
<1>8. q \in Nat /\ q <= t
  BY <1>3
<1> HIDE DEF q, inner
<1> QED
  BY <1>1, <1>6, <1>7, <1>8

\* Before the host is read nothing is available, so no request fits.
LEMMA NothingOnOffer ==
    ASSUME NEW d \in Dim
    PROVE  available(NoResources, d) = 0
<1>1. /\ NoResources.total[d] = 0 /\ NoResources.allocated[d] = 0
      /\ MinFree[d] \in Nat /\ AllocPercent \in Nat
  BY CapacityAssumption DEF NoResources
<1>2. (NoResources.total[d] * AllocPercent) \div 100 = 0
  BY <1>1
<1> QED
  BY <1>1, <1>2 DEF available, SatSub

\* A request that passed the check against an accurate snapshot fits.
LEMMA FitsSound ==
    ASSUME NEW sys \in SystemResources, NEW res, IsFiniteSet(DOMAIN res),
           NEW needed \in Amount, NEW d \in Dim,
           Reserved(res, d) <= available(sys, d),
           Fits(sys, total_reserved_resources(res), needed)
    PROVE  Reserved(res, d) + needed[d] <= available(sys, d)
<1>1. /\ Reserved(res, d) \in Nat /\ available(sys, d) \in Nat
      /\ available(sys, d) <= MaxValue[d] /\ MaxValue[d] \in Nat /\ needed[d] \in Nat
  BY ReservedType, AvailableType, AvailableBound, CapacityAssumption DEF Amount
<1>2. total_reserved_resources(res)[d] = Reserved(res, d)
  BY <1>1 DEF total_reserved_resources, SatMin
<1>3. needed[d] <= SatSub(available(sys, d), Reserved(res, d))
  BY <1>2 DEF Fits
<1> QED
  BY <1>1, <1>3 DEF SatSub

\* A new verifier is idle, so no decision is pending.
LEMMA SerialInit == Init => SerialInv
<1> SUFFICES ASSUME Init PROVE SerialInv
  OBVIOUS
<1>1. TypeInv
  BY TypeInit
<1>2. WithinCapacity
  <2>1. SUFFICES ASSUME NEW d \in Dim PROVE Reserved(reservations, d) <= available(resources, d)
    BY DEF WithinCapacity
  <2>2. ReservedUnits(reservations, d) = {}
    BY DEF Init, ReservedUnits
  <2>3. Reserved(reservations, d) = 0
    BY <2>2, FS_EmptySet DEF Reserved
  <2>4. available(resources, d) = 0
    BY NothingOnOffer DEF Init
  <2> QED BY <2>3, <2>4
<1> QED
  BY <1>1, <1>2 DEF SerialInv, DeploymentBacked, Init

\* The steps that leave the table's sizes, the host and the loop's control
\* state as they are: the clock.
LEMMA TickSerial == SerialInv /\ Tick => SerialInv'
<1> SUFFICES ASSUME SerialInv, Tick PROVE SerialInv'
  OBVIOUS
<1>1. TypeInv'
  BY TypeStep DEF SerialInv, Next
<1>2. /\ DOMAIN reservations' = DOMAIN reservations
      /\ \A i \in DOMAIN reservations' :
            reservations'[i].size = reservations[i].size
              /\ reservations'[i].manifest = reservations[i].manifest
  BY AgeTable DEF SerialInv, TypeInv, TypeOK, Tick
<1>3. \A d \in Dim : Reserved(reservations', d) = Reserved(reservations, d)
  BY <1>2, ReservedSame
<1>4. UNCHANGED <<resources, unread, pc, call>>
  BY DEF Tick
<1>5. total_reserved_resources(reservations') = total_reserved_resources(reservations)
  BY <1>3 DEF total_reserved_resources
<1>6. WithinCapacity'
  BY <1>3, <1>4 DEF SerialInv, WithinCapacity, available
<1>7. DeploymentBacked'
  BY <1>2, <1>4 DEF SerialInv, DeploymentBacked, HasReservationFor
<1>8. (\A d \in Dim : available(resources', d) = available(resources, d))
  BY <1>4
<1> QED
  BY <1>1, <1>3, <1>4, <1>5, <1>6, <1>7, <1>8 DEF SerialInv

\* Steps that only prune: the loop is then neither comparing nor inserting.
LEMMA PruneSerial ==
    ASSUME NEW c, Caller = {c}, SerialInv, Step(c),
           reservations' = prune_expired_reservations(reservations),
           UNCHANGED <<resources, unread>>,
           pc'[c] \notin {"reserve_check", "reserve_insert", "deploying"}
    PROVE  SerialInv'
<1>1. TypeInv'
  BY TypeStep DEF SerialInv, Next
<1>2. WithinCapacity'
  <2> SUFFICES ASSUME NEW d \in Dim
               PROVE  Reserved(reservations', d) <= available(resources', d)
    BY DEF WithinCapacity
  <2>1. /\ DOMAIN reservations' \subseteq DOMAIN reservations
        /\ \A id \in DOMAIN reservations' : reservations'[id].size = reservations[id].size
        /\ IsFiniteSet(DOMAIN reservations) /\ IsFiniteSet(DOMAIN reservations')
    <3>1. IsTable(reservations) /\ IsFiniteSet(DOMAIN reservations)
      BY DEF SerialInv, TypeInv, TypeOK
    <3>2. /\ DOMAIN reservations' = {i \in DOMAIN reservations : ~Expired(reservations, i)}
          /\ \A id \in DOMAIN reservations' : reservations'[id] = reservations[id]
      BY <3>1, PruneTable
    <3> QED BY <1>1, <3>1, <3>2 DEF TypeInv
  <2>2. Reserved(reservations', d) <= Reserved(reservations, d)
    BY <2>1, ReservedShrinks
  <2>3. Reserved(reservations', d) \in Nat /\ Reserved(reservations, d) \in Nat
    BY <2>1, ReservedType, Zenon
  <2>4. available(resources, d) \in Nat /\ Reserved(reservations, d) <= available(resources, d)
    BY AvailableType DEF SerialInv, WithinCapacity, TypeInv, TypeOK
  <2> QED BY <2>2, <2>3, <2>4
<1> QED
  BY <1>1, <1>2 DEF SerialInv, DeploymentBacked

\* Reading the host replaces one that offered nothing: no pending decision rests
\* on it.
LEMMA HostSerial ==
    ASSUME NEW c, Caller = {c}, SerialInv, update_system_resources(c)
    PROVE  SerialInv'
<1>1. TypeInv' /\ TypeInv
  BY TypeStep DEF SerialInv, Next, Step
<1>2. resources = NoResources /\ unread' = {} /\ UNCHANGED <<reservations, pc, call>>
  BY <1>1 DEF SerialInv, update_system_resources, TypeInv, TypeOK
<1>3. ASSUME NEW d \in Dim
      PROVE  available(resources, d) = 0 /\ available(resources', d) \in Nat
  BY <1>1, <1>2, NothingOnOffer, AvailableType DEF TypeInv, TypeOK
<1>4. ASSUME NEW d \in Dim PROVE Reserved(reservations, d) \in Nat
  BY <1>1, ReservedType DEF TypeInv
<1>5. WithinCapacity'
  BY <1>2, <1>3, <1>4 DEF SerialInv, WithinCapacity
<1>6. ASSUME pc'[c] = "reserve_insert", NEW d \in Dim
      PROVE  Reserved(reservations', d) + call'[c].needed[d] <= available(resources', d)
  <2>1. call[c].needed[d] \in Nat
    BY <1>1 DEF TypeInv, TypeOK, Call, Amount
  <2>2. Reserved(reservations, d) + call[c].needed[d] <= 0
    BY <1>2, <1>3, <1>6 DEF SerialInv
  <2> QED BY <1>2, <1>3, <1>4, <2>1, <2>2
<1>7. DeploymentBacked'
  BY <1>2 DEF SerialInv, DeploymentBacked
<1>8. pc'[c] = "reserve_check" => call'[c].snapshot = total_reserved_resources(reservations')
  BY <1>2 DEF SerialInv
<1> QED
  BY <1>1, <1>2, <1>5, <1>6, <1>7, <1>8 DEF SerialInv

\* Refreshing keeps every size; the call is over, or goes on to sum up.
LEMMA RefreshSerial ==
    ASSUME NEW c, Caller = {c}, SerialInv, Step(c),
           reservations' = reservations
             \/ /\ call[c].id \in DOMAIN reservations
                /\ reservations' = RefreshReservation(reservations, call[c].id, call[c].manifest),
           UNCHANGED <<resources, unread>>,
           pc'[c] \notin {"reserve_check", "reserve_insert", "deploying"}
    PROVE  SerialInv'
<1>1. TypeInv' /\ TypeInv
  BY TypeStep DEF SerialInv, Next
<1>2. /\ DOMAIN reservations' = DOMAIN reservations
      /\ \A i \in DOMAIN reservations' : reservations'[i].size = reservations[i].size
  <2>1. call[c].manifest \in ManifestId
    BY <1>1 DEF TypeInv, TypeOK, Call
  <2> QED
    BY <1>1, <2>1, RefreshTable DEF TypeInv, TypeOK
<1>3. \A d \in Dim : Reserved(reservations', d) = Reserved(reservations, d)
  BY <1>2, ReservedSame
<1>4. WithinCapacity'
  BY <1>3 DEF SerialInv, WithinCapacity
<1> QED
  BY <1>1, <1>4 DEF SerialInv, DeploymentBacked

\* The insert of a request that was checked against the exact sum stays within
\* the capacity.
LEMMA InsertSerial ==
    ASSUME NEW c, Caller = {c}, SerialInv, ReserveInsert(c)
    PROVE  SerialInv'
<1>1. TypeInv' /\ TypeInv
  BY TypeStep DEF SerialInv, Next, Step, Return
<1>2. pc[c] = "reserve_insert" /\ pc'[c] = "idle" /\ UNCHANGED <<resources, unread, call>>
  BY <1>1, Zenon DEF ReserveInsert, Goto, TypeInv, TypeOK
<1>3. CASE call[c].id \in DOMAIN reservations
  BY <1>2, <1>3, RefreshSerial, Zenon DEF ReserveInsert, Step, Return
<1>4. CASE call[c].id \notin DOMAIN reservations
  <2>1. WithinCapacity'
    <3> SUFFICES ASSUME NEW d \in Dim
                 PROVE  Reserved(reservations', d) <= available(resources', d)
      BY DEF WithinCapacity
    <3>1. reservations' = InsertReservation(reservations, call[c].id, call[c].manifest, call[c].needed)
      BY <1>4 DEF ReserveInsert
    <3>2. call[c].needed \in Amount /\ IsFiniteSet(DOMAIN reservations)
      BY <1>1 DEF TypeInv, TypeOK, Call
    <3>3. Reserved(reservations', d) = Reserved(reservations, d) + call[c].needed[d]
      BY <1>4, <3>1, <3>2, ReservedInsert
    <3>4. Reserved(reservations, d) + call[c].needed[d] <= available(resources, d)
      BY <1>2 DEF SerialInv
    <3> QED BY <1>2, <3>3, <3>4
  <2> QED
    BY <1>1, <1>2, <2>1 DEF SerialInv, DeploymentBacked
<1> QED
  BY <1>3, <1>4, Zenon

\* Steps that only read.
LEMMA ReadSerial ==
    ASSUME NEW c, Caller = {c}, SerialInv,
           \/ VerifySum(c) \/ VerifyCheck(c) \/ ReserveSum(c) \/ ReserveCheck(c)
           \/ GateRead(c) \/ Deployed(c)
    PROVE  SerialInv'
<1>1. TypeInv' /\ TypeInv
  BY TypeStep DEF SerialInv, Next, Step, Return
<1>2. UNCHANGED <<resources, reservations, unread>>
  BY DEF VerifySum, VerifyCheck, ReserveSum, ReserveCheck, GateRead, Deployed, TakeSnapshot
<1>3. WithinCapacity'
  BY <1>2 DEF SerialInv, WithinCapacity
<1>4. DeploymentBacked'
  BY <1>1, <1>2 DEF DeploymentBacked, VerifySum, VerifyCheck, ReserveSum, ReserveCheck, GateRead,
                    Deployed, Goto, TypeInv, TypeOK
<1>5. ASSUME pc'[c] = "reserve_check"
      PROVE  call'[c].snapshot = total_reserved_resources(reservations')
  <2>1. ReserveSum(c)
    BY <1>1, <1>5 DEF VerifySum, VerifyCheck, ReserveSum, ReserveCheck, GateRead, Deployed,
                      Goto, TypeInv, TypeOK
  <2>2. call'[c].snapshot = total_reserved_resources(reservations)
    BY <1>1, <2>1 DEF ReserveSum, TakeSnapshot, TypeInv, TypeOK, Call
  <2> QED BY <1>2, <2>2
<1>6. ASSUME pc'[c] = "reserve_insert", NEW d \in Dim
      PROVE  Reserved(reservations', d) + call'[c].needed[d] <= available(resources', d)
  <2>1. ReserveCheck(c)
    BY <1>1, <1>6, Zenon DEF VerifySum, VerifyCheck, ReserveSum, ReserveCheck, GateRead, Deployed,
                      Goto, TypeInv, TypeOK
  <2>2. /\ pc[c] = "reserve_check" /\ UNCHANGED call
        /\ Fits(resources, call[c].snapshot, call[c].needed)
    BY <1>1, <1>6, <2>1, Zenon DEF ReserveCheck, Goto, TypeInv, TypeOK
  <2>3. call[c].snapshot = total_reserved_resources(reservations)
    BY <2>2 DEF SerialInv
  <2>4. Reserved(reservations, d) <= available(resources, d)
    BY DEF SerialInv, WithinCapacity
  <2>5. /\ call[c].needed \in Amount /\ IsFiniteSet(DOMAIN reservations)
        /\ resources \in SystemResources
    BY <1>1 DEF TypeInv, TypeOK, Call
  <2>6. Reserved(reservations, d) + call[c].needed[d] <= available(resources, d)
    BY <2>2, <2>3, <2>4, <2>5, FitsSound
  <2> QED BY <1>2, <2>2, <2>6
<1> QED
  BY <1>1, <1>2, <1>3, <1>4, <1>5, <1>6, Zenon DEF SerialInv

\* With one loop every step keeps the serial invariant.
LEMMA SerialStep ==
    ASSUME NEW c, Caller = {c}
    PROVE  SerialInv /\ [Next]_vars => SerialInv'
<1> SUFFICES ASSUME SerialInv, [Next]_vars PROVE SerialInv'
  OBVIOUS
<1>0. pc \in [Caller -> Control]
  BY DEF SerialInv, TypeInv, TypeOK
<1>1. CASE Tick
  BY <1>1, TickSerial, Zenon
<1>2. CASE UNCHANGED vars
  BY <1>2 DEF vars, SerialInv, TypeInv, TypeOK, WithinCapacity, DeploymentBacked
<1>3. CASE update_system_resources(c)
  BY <1>3, HostSerial
<1>4. ASSUME NEW id \in RequestId, NEW req \in Requests, VerifyPrune(c, id, req)
      PROVE  SerialInv'
  BY <1>0, <1>4, PruneSerial, Zenon DEF VerifyPrune, Goto, Step
<1>5. ASSUME NEW m \in ManifestId, GatePrune(c, m)
      PROVE  SerialInv'
  BY <1>0, <1>5, PruneSerial, Zenon DEF GatePrune, Goto, Step
<1>6. CASE ReservePrune(c)
  BY <1>0, <1>6, PruneSerial, Zenon DEF ReservePrune, Goto, Step, Return
<1>7. CASE ReserveRefresh(c)
  BY <1>0, <1>7, RefreshSerial, Zenon DEF ReserveRefresh, Goto, Step, Return
<1>8. CASE ReserveInsert(c)
  BY <1>8, InsertSerial
<1>9. CASE LockResources(c)
  <2>1. TypeInv' /\ UNCHANGED <<resources, reservations, unread, pc, call>>
    BY <1>9, TypeStep DEF SerialInv, Next, Step, LockResources
  <2> QED BY <2>1 DEF SerialInv, WithinCapacity, DeploymentBacked
<1> QED
  BY <1>1, <1>2, <1>3, <1>4, <1>5, <1>6, <1>7, <1>8, <1>9, ReadSerial DEF Next, Step, Return

\* With one event loop the table never promises more than the host offers.
THEOREM NeverOverbooked ==
    ASSUME NEW c, Caller = {c}
    PROVE  Spec => []WithinCapacity
<1>1. Spec => []SerialInv
  BY SerialInit, SerialStep, PTL DEF Spec
<1>2. SerialInv => WithinCapacity
  BY DEF SerialInv
<1> QED
  BY <1>1, <1>2, PTL

\* With one event loop a deployment in progress stays backed by the reservation
\* that admitted it, however long it takes.
THEOREM DeploymentsBacked ==
    ASSUME NEW c, Caller = {c}
    PROVE  Spec => []DeploymentBacked
<1>1. Spec => []SerialInv
  BY SerialInit, SerialStep, PTL DEF Spec
<1>2. SerialInv => DeploymentBacked
  BY DEF SerialInv
<1> QED
  BY <1>1, <1>2, PTL

-----------------------------------------------------------------------------
(* The table of one event loop implements the ledger *)

offeredBar == [d \in Dim |-> available(resources, d)]

heldBar == [id \in DOMAIN reservations |-> reservations[id].size]

\* The ledger's sum is the table's sum.
LEMMA HeldIsReserved ==
    ASSUME NEW res, NEW d \in Dim
    PROVE  Ledger!Held([id \in DOMAIN res |-> res[id].size], d) = Reserved(res, d)
<1> DEFINE h == [id \in DOMAIN res |-> res[id].size]
<1>1. DOMAIN h = DOMAIN res /\ \A id \in DOMAIN res : h[id] = res[id].size
  OBVIOUS
<1> HIDE DEF h
<1>2. {u \in (DOMAIN h) \X (1..MaxValue[d]) : u[2] <= h[u[1]][d]} = ReservedUnits(res, d)
  BY <1>1 DEF ReservedUnits
<1>3. Ledger!Held(h, d) = Reserved(res, d)
  BY <1>2, Zenon DEF Ledger!Held, Reserved, Ledger!Cardinality, Cardinality
<1> QED
  BY <1>3 DEF h

\* An empty table is an empty ledger.
LEMMA LedgerInit == Init => Ledger!Init
<1> SUFFICES ASSUME Init PROVE Ledger!Init
  OBVIOUS
<1>1. offeredBar = [d \in Dim |-> 0]
  BY NothingOnOffer DEF Init, offeredBar
<1>2. heldBar = [x \in {} |-> {}]
  BY DEF Init, heldBar
<1> QED
  BY <1>1, <1>2 DEF Ledger!Init, offeredBar, heldBar

\* Pruning is a release of the ledger, or nothing.
LEMMA LedgerRelease ==
    ASSUME TypeInv, UNCHANGED resources,
           reservations' = prune_expired_reservations(reservations)
    PROVE  Ledger!Next
<1> DEFINE S == {i \in DOMAIN reservations : Expired(reservations, i)}
<1>1. /\ DOMAIN reservations' = {i \in DOMAIN reservations : ~Expired(reservations, i)}
      /\ \A id \in DOMAIN reservations' : reservations'[id] = reservations[id]
  BY PruneTable DEF TypeInv, TypeOK
<1>2. S \in SUBSET RequestId
  BY DEF TypeInv, TypeOK, IsTable
<1>3. heldBar' = [y \in DOMAIN heldBar \ S |-> heldBar[y]]
  BY <1>1 DEF heldBar
<1> HIDE DEF S
<1> QED
  BY <1>2, <1>3 DEF Ledger!Next, Ledger!Release, heldBar

\* Steps that change neither a size nor the host are invisible to the ledger.
LEMMA LedgerStutter ==
    ASSUME UNCHANGED resources,
           DOMAIN reservations' = DOMAIN reservations,
           \A i \in DOMAIN reservations' : reservations'[i].size = reservations[i].size
    PROVE  UNCHANGED <<offeredBar, heldBar>>
BY DEF offeredBar, heldBar

\* Reading the host is the ledger learning its offer.
LEMMA LedgerLearn ==
    ASSUME NEW c, Caller = {c}, SerialInv, update_system_resources(c)
    PROVE  Ledger!Next
<1>1. TypeInv /\ TypeInv'
  BY TypeStep DEF SerialInv, Next, Step
<1>2. resources = NoResources /\ UNCHANGED reservations
  BY DEF SerialInv, TypeInv, TypeOK, update_system_resources
<1>3. ASSUME NEW d \in Dim PROVE Ledger!Held(heldBar, d) = 0
  <2>1. Reserved(reservations, d) \in Nat
    BY <1>1, ReservedType DEF TypeInv
  <2>2. Reserved(reservations, d) <= 0
    BY <1>2, NothingOnOffer DEF SerialInv, WithinCapacity
  <2> QED BY <2>1, <2>2, HeldIsReserved DEF heldBar
<1>4. offeredBar' \in [Dim -> Nat]
  BY <1>1, AvailableType, Zenon DEF offeredBar, TypeInv, TypeOK
<1> QED
  BY <1>2, <1>3, <1>4, Zenon DEF Ledger!Next, Ledger!Learn, offeredBar, heldBar

\* An insert is an atomic grant of the ledger.
LEMMA LedgerGrant ==
    ASSUME NEW c, Caller = {c}, SerialInv, ReserveInsert(c), call[c].id \notin DOMAIN reservations
    PROVE  Ledger!Next
<1> DEFINE x == call[c].id
<1>1. TypeInv /\ TypeInv' /\ SerialInv'
  BY InsertSerial, Zenon DEF SerialInv
<1>2. /\ reservations' = InsertReservation(reservations, x, call[c].manifest, call[c].needed)
      /\ UNCHANGED resources
  BY DEF ReserveInsert
<1>3. x \in RequestId /\ call[c].manifest \in ManifestId /\ call[c].needed \in Amount
  BY <1>1 DEF TypeInv, TypeOK, Call
<1>4. /\ DOMAIN reservations' = DOMAIN reservations \cup {x}
      /\ \A i \in DOMAIN reservations : reservations'[i] = reservations[i]
  <2>1. IsTable(reservations)
    BY <1>1 DEF TypeInv, TypeOK
  <2>2. x \notin DOMAIN reservations
    OBVIOUS
  <2> HIDE DEF x
  <2>3. /\ DOMAIN reservations' = DOMAIN reservations \cup {x}
        /\ \A i \in DOMAIN reservations \ {x} : reservations'[i] = reservations[i]
    BY <1>2, <1>3, <2>1, InsertTable
  <2> QED BY <2>2, <2>3
<1>5. heldBar' \in [DOMAIN heldBar \cup {x} -> [Dim -> Nat]]
  <2>1. \A i \in DOMAIN reservations' : reservations'[i].size \in [Dim -> Nat]
    BY <1>1, Zenon DEF TypeInv, TypeOK, IsTable, CapacityReservation, Amount
  <2> QED BY <1>4, <2>1, Zenon DEF heldBar
<1>6. ASSUME NEW d \in Dim PROVE Ledger!Held(heldBar', d) <= offeredBar[d]
  <2>1. Reserved(reservations', d) <= available(resources, d)
    BY <1>1, <1>2 DEF SerialInv, WithinCapacity
  <2> QED BY <2>1, HeldIsReserved, Zenon DEF heldBar, offeredBar
<1>7. x \notin DOMAIN heldBar /\ \A y \in DOMAIN heldBar : heldBar'[y] = heldBar[y]
  BY <1>4 DEF heldBar
<1> QED
  BY <1>2, <1>3, <1>5, <1>6, <1>7, Zenon DEF Ledger!Next, Ledger!Grant, heldBar, offeredBar

\* With one loop every step of the verifier is a step of the ledger or a stutter.
LEMMA LedgerStep ==
    ASSUME NEW c, Caller = {c}
    PROVE  SerialInv /\ [Next]_vars => [Ledger!Next]_<<offeredBar, heldBar>>
<1> SUFFICES ASSUME SerialInv, [Next]_vars
             PROVE  Ledger!Next \/ UNCHANGED <<offeredBar, heldBar>>
  OBVIOUS
<1>0. TypeInv /\ IsTable(reservations)
  BY DEF SerialInv, TypeInv, TypeOK
<1>1. ASSUME UNCHANGED <<resources, reservations>>
      PROVE  UNCHANGED <<offeredBar, heldBar>>
  BY <1>1 DEF offeredBar, heldBar
<1>2. ASSUME call[c].id \in DOMAIN reservations, UNCHANGED resources,
             reservations' = RefreshReservation(reservations, call[c].id, call[c].manifest)
      PROVE  UNCHANGED <<offeredBar, heldBar>>
  <2>1. call[c].manifest \in ManifestId
    BY <1>0 DEF TypeInv, TypeOK, Call
  <2>2. /\ DOMAIN reservations' = DOMAIN reservations
        /\ \A i \in DOMAIN reservations' : reservations'[i].size = reservations[i].size
    BY <1>0, <1>2, <2>1, RefreshTable
  <2> QED BY <1>2, <2>2, LedgerStutter
<1>3. CASE Tick
  <2>1. /\ DOMAIN reservations' = DOMAIN reservations
        /\ \A i \in DOMAIN reservations' : reservations'[i].size = reservations[i].size
        /\ UNCHANGED resources
    BY <1>0, <1>3, AgeTable DEF Tick
  <2> QED BY <2>1, LedgerStutter
<1>4. CASE update_system_resources(c)
  BY <1>4, LedgerLearn
<1>5. CASE \/ \E id \in RequestId, req \in Requests : VerifyPrune(c, id, req)
           \/ \E m \in ManifestId : GatePrune(c, m)
           \/ ReservePrune(c)
  BY <1>0, <1>5, LedgerRelease, Zenon DEF VerifyPrune, GatePrune, ReservePrune
<1>6. CASE ReserveRefresh(c)
  <2>1. CASE call[c].id \in DOMAIN reservations
    BY <1>2, <1>6, <2>1 DEF ReserveRefresh
  <2>2. CASE call[c].id \notin DOMAIN reservations
    BY <1>1, <1>6, <2>2, Zenon DEF ReserveRefresh
  <2> QED BY <2>1, <2>2
<1>7. CASE ReserveInsert(c)
  <2>1. CASE call[c].id \in DOMAIN reservations
    BY <1>2, <1>7, <2>1 DEF ReserveInsert
  <2>2. CASE call[c].id \notin DOMAIN reservations
    BY <1>7, <2>2, LedgerGrant
  <2> QED BY <2>1, <2>2
<1>8. CASE \/ VerifySum(c) \/ VerifyCheck(c) \/ ReserveSum(c) \/ ReserveCheck(c)
           \/ GateRead(c) \/ Deployed(c) \/ LockResources(c) \/ UNCHANGED vars
  BY <1>1, <1>8 DEF LockResources, VerifySum, VerifyCheck, ReserveSum, ReserveCheck, GateRead, Deployed,
                    TakeSnapshot, vars
<1> QED
  BY <1>3, <1>4, <1>5, <1>6, <1>7, <1>8 DEF Next, Step, Return

\* With one event loop, verify_capacity and reserve_capacity together behave as
\* an atomic ledger, although they take and release a lock eight times.
THEOREM LedgerImplemented ==
    ASSUME NEW c, Caller = {c}
    PROVE  Spec => ImplementsLedger
<1>1. Spec => []SerialInv
  BY SerialInit, SerialStep, PTL DEF Spec
<1>2. SerialInv /\ [Next]_vars
        => [Ledger!Next]_<<[d \in Dim |-> available(resources, d)],
                           [id \in DOMAIN reservations |-> reservations[id].size]>>
  BY LedgerStep DEF offeredBar, heldBar
<1> QED
  BY <1>1, <1>2, LedgerInit, PTL DEF Spec, ImplementsLedger, Ledger!Spec

-----------------------------------------------------------------------------
(* Several event loops.  Between a loop's snapshot and its insert the others *)
(* may insert too.  A loop is due in a dimension when it will insert there   *)
(* unless its request id turns up in the table first: it is past the check,  *)
(* or its snapshot will pass it.  Whoever took the last snapshot saw a table *)
(* that its own request still fitted into; every other due loop can add at   *)
(* most one largest request to that.                                         *)

Due(d) ==
    {c \in Caller :
        /\ call[c].needed[d] > 0
        /\ \/ pc[c] = "reserve_insert"
           \/ /\ pc[c] = "reserve_check"
              /\ Fits(resources, call[c].snapshot, call[c].needed)}

\* r reserved units and k largest requests b stay within what n loops may book.
Room(r, a, n, k, b) == r + k * b <= a + (n - 1) * b

DueFit(d, b) ==
    LET Fit(r, k) == Room(r, available(resources, d), Cardinality(Caller), k, b)
    IN  \/ Fit(Reserved(reservations, d), Cardinality(Due(d)))
        \/ \E c \in Due(d) :
              Fit(Reserved(reservations, d) + call[c].needed[d], Cardinality(Due(d)) - 1)

\* A host that offers nothing holds nothing and is about to hold nothing.
EmptyOffer(d) ==
    available(resources, d) = 0 =>
        /\ Reserved(reservations, d) = 0
        /\ \A c \in Caller : pc[c] = "reserve_insert" => call[c].needed[d] = 0

LargestRequest(d, b) == b \in 0..MaxValue[d] /\ \A req \in Requests : total_needed(req)[d] <= b

RaceInv ==
    /\ TypeInv
    /\ resources = NoResources \/ resources \in HostReadings
    /\ \A d \in Dim : EmptyOffer(d)
    /\ \A d \in Dim, b \in Nat :
          LargestRequest(d, b) =>
              /\ \A c \in Caller : call[c].needed[d] <= b
              /\ DueFit(d, b)

\* What every reading of one machine agrees on: how much it has to give.
SteadyHost ==
    \A x, y \in HostReadings : \A d \in Dim : available(x, d) = available(y, d)

\* What the steps below need of sums and differences.
LEMMA Sums ==
    ASSUME NEW r \in Nat, NEW s \in Nat, NEW x \in Nat
    PROVE  /\ r + x \in Nat /\ r <= r /\ r <= r + x /\ 0 + x = x
           /\ s <= r => s + x <= r + x
           /\ s = r \/ s = r + x => s <= r + x
           /\ s <= r + x /\ x = 0 => s <= r
           /\ s <= r /\ r = 0 => s = 0
           /\ x > 0 <=> x # 0
OBVIOUS

LEMMA Bounded ==
    ASSUME NEW r \in Nat, NEW s \in Nat, NEW x \in Nat, s = r \/ s = r + x
    PROVE  s <= r + x
OBVIOUS

LEMMA OneLess ==
    ASSUME NEW k \in Nat \ {0}
    PROVE  /\ k - 1 \in Nat
           /\ \A n \in Nat : k <= n => k - 1 <= n - 1
OBVIOUS

\* What saturating arithmetic says of a request that passes the comparison.
LEMMA Saturated ==
    ASSUME NEW a \in Nat, NEW y \in Nat, NEW x \in Nat, x <= SatSub(a, y)
    PROVE  x <= a /\ (a = 0 => x = 0) /\ (x > 0 => y + x <= a)
BY DEF SatSub

LEMMA Capped ==
    ASSUME NEW m \in Nat, NEW r \in Nat, NEW a \in Nat, a <= m, NEW x \in Nat, x > 0,
           SatMin(m, r) + x <= a
    PROVE  SatMin(m, r) \in Nat /\ r + x <= a
BY DEF SatMin

\* Multiples of a largest request.
LEMMA Multiples ==
    ASSUME NEW b \in Nat, NEW k \in Nat, NEW n \in Nat
    PROVE  /\ k * b \in Nat
           /\ (k + 1) * b = k * b + b
           /\ k <= n => k * b <= n * b
OBVIOUS

\* Room for more is room for less.
LEMMA RoomLess ==
    ASSUME NEW r \in Nat, NEW s \in Nat, NEW a \in Nat, NEW n \in Nat \ {0},
           NEW k \in Nat, NEW b \in Nat, Room(r, a, n, k, b), s <= r
    PROVE  Room(s, a, n, k, b)
<1>1. k * b \in Nat /\ (n - 1) * b \in Nat
  BY Multiples
<1> QED
  BY <1>1 DEF Room

\* What fits the offer leaves room for one largest request of each loop but one.
LEMMA RoomOnOffer ==
    ASSUME NEW r \in Nat, NEW a \in Nat, NEW n \in Nat \ {0}, NEW k \in Nat, NEW b \in Nat,
           r <= a, k <= n - 1
    PROVE  Room(r, a, n, k, b)
<1>1. k * b \in Nat /\ (n - 1) * b \in Nat /\ k * b <= (n - 1) * b
  BY Multiples
<1> QED
  BY <1>1 DEF Room

\* An empty table and nobody due: there is room.
LEMMA RoomEmpty ==
    ASSUME NEW a \in Nat, NEW n \in Nat \ {0}, NEW b \in Nat
    PROVE  Room(0, a, n, 0, b)
<1>1. 0 \in Nat /\ 0 <= a /\ 0 <= n - 1
  OBVIOUS
<1> QED
  BY <1>1, RoomOnOffer

\* A loop that inserts uses up the room that was kept for it.
LEMMA RoomUsed ==
    ASSUME NEW r \in Nat, NEW x \in Nat, NEW a \in Nat, NEW n \in Nat \ {0},
           NEW k \in Nat \ {0}, NEW b \in Nat, x <= b, Room(r, a, n, k, b)
    PROVE  Room(r + x, a, n, k - 1, b)
<1>1. /\ (k - 1) * b \in Nat /\ (n - 1) * b \in Nat
      /\ ((k - 1) + 1) * b = (k - 1) * b + b
  BY Multiples
<1>2. k * b = (k - 1) * b + b
  BY <1>1
<1> QED
  BY <1>1, <1>2 DEF Room

\* Room for anything bounds what is reserved.
LEMMA RoomBounds ==
    ASSUME NEW r \in Nat, NEW a \in Nat, NEW n \in Nat \ {0}, NEW k \in Nat, NEW b \in Nat,
           Room(r, a, n, k, b)
    PROVE  r <= a + (n - 1) * b
<1>1. k * b \in Nat /\ (n - 1) * b \in Nat
  BY Multiples
<1> QED
  BY <1>1 DEF Room

\* The quantities the invariant compares are numbers.
LEMMA DueTypes ==
    ASSUME IsFiniteSet(Caller), Caller # {}, TypeInv, NEW d \in Dim
    PROVE  /\ Reserved(reservations, d) \in Nat
           /\ available(resources, d) \in Nat
           /\ Cardinality(Caller) \in Nat \ {0}
           /\ IsFiniteSet(Due(d))
           /\ Cardinality(Due(d)) \in Nat
           /\ Cardinality(Due(d)) <= Cardinality(Caller)
           /\ Due(d) # {} => Cardinality(Due(d)) \in Nat \ {0}
           /\ Due(d) \subseteq Caller
           /\ \A c \in Caller : call[c].needed \in Amount /\ call[c].needed[d] \in Nat
<1>1. Due(d) \subseteq Caller
  BY DEF Due
<1>2. Reserved(reservations, d) \in Nat /\ available(resources, d) \in Nat
  BY ReservedType, AvailableType DEF TypeInv, TypeOK
<1>3. /\ IsFiniteSet(Due(d)) /\ Cardinality(Due(d)) \in Nat /\ Cardinality(Caller) \in Nat
      /\ Cardinality(Due(d)) <= Cardinality(Caller)
  BY <1>1, FS_Subset, FS_CardinalityType
<1>4. Cardinality(Caller) # 0 /\ (Due(d) # {} => Cardinality(Due(d)) # 0)
  BY <1>3, FS_EmptySet
<1>5. \A c \in Caller : call[c].needed \in Amount /\ call[c].needed[d] \in Nat
  BY Zenon DEF TypeInv, TypeOK, Call, Amount
<1> QED
  BY <1>1, <1>2, <1>3, <1>4, <1>5, Zenon

\* With the same loops due for the same amounts, a table that grew no larger
\* leaves them the room they had.
LEMMA DueFitKept ==
    ASSUME IsFiniteSet(Caller), Caller # {}, TypeInv, TypeInv', NEW d \in Dim, NEW b \in Nat,
           DueFit(d, b), Due(d)' = Due(d),
           available(resources', d) = available(resources, d),
           Reserved(reservations', d) <= Reserved(reservations, d),
           \A c \in Due(d) : call'[c].needed[d] = call[c].needed[d]
    PROVE  DueFit(d, b)'
<1> DEFINE r == Reserved(reservations, d)
           s == Reserved(reservations', d)
           a == available(resources, d)
           n == Cardinality(Caller)
           k == Cardinality(Due(d))
<1>1. /\ r \in Nat /\ s \in Nat /\ a \in Nat /\ n \in Nat \ {0} /\ k \in Nat /\ s <= r
      /\ Due(d) # {} => k - 1 \in Nat
      /\ \A c \in Due(d) : call[c].needed[d] \in Nat
  <2>1. s \in Nat
    BY ReservedType DEF TypeInv
  <2>2. Due(d) # {} => k - 1 \in Nat
    BY DueTypes, OneLess, Zenon
  <2>3. \A c \in Due(d) : call[c].needed[d] \in Nat
    BY DueTypes, Zenon
  <2> QED BY <2>1, <2>2, <2>3, DueTypes, Zenon
<1>2. CASE Room(r, a, n, k, b)
  <2>1. Room(s, a, n, k, b)
    BY <1>1, <1>2, RoomLess, Zenon
  <2> QED BY <2>1 DEF DueFit
<1>3. ASSUME NEW c \in Due(d), Room(r + call[c].needed[d], a, n, k - 1, b)
      PROVE  DueFit(d, b)'
  <2> DEFINE x == call[c].needed[d]
  <2>1. x \in Nat /\ k - 1 \in Nat
    BY <1>1, Zenon
  <2>2. Room(s + x, a, n, k - 1, b)
    <3> HIDE DEF r, s, a, n, k, x
    <3>1. r + x \in Nat /\ s + x \in Nat /\ s + x <= r + x
      BY <1>1, <2>1, Sums, Zenon
    <3>2. Room(r + x, a, n, k - 1, b)
      BY <1>3, Zenon DEF x
    <3> QED BY <1>1, <2>1, <3>1, <3>2, RoomLess, Zenon
  <2>3. c \in Due(d)' /\ call'[c].needed[d] = x
    OBVIOUS
  <2> QED BY <2>2, <2>3, Zenon DEF DueFit
<1> QED
  BY <1>2, <1>3, Zenon DEF DueFit

\* Whoever is due stays due, and nobody else becomes due, when only one loop
\* moves and its own status does not change.
LEMMA DueKept ==
    ASSUME NEW d \in Dim, NEW c \in Caller, UNCHANGED resources,
           \A x \in Caller \ {c} : pc'[x] = pc[x] /\ call'[x] = call[x],
           (c \in Due(d))' <=> c \in Due(d)
    PROVE  Due(d)' = Due(d)
<1>1. ASSUME NEW x \in Caller \ {c} PROVE (x \in Due(d))' <=> x \in Due(d)
  BY Zenon DEF Due
<1>2. \A x \in Due(d)' : x \in Caller
  BY Zenon DEF Due
<1>3. \A x \in Due(d) : x \in Caller
  BY Zenon DEF Due
<1> QED
  BY <1>1, <1>2, <1>3

\* A new verifier: nothing is reserved and nobody is due.
LEMMA RaceInit ==
    ASSUME IsFiniteSet(Caller), Caller # {}
    PROVE  Init => RaceInv
<1> SUFFICES ASSUME Init PROVE RaceInv
  OBVIOUS
<1>1. TypeInv
  BY TypeInit
<1>2. ASSUME NEW d \in Dim
      PROVE  /\ Reserved(reservations, d) = 0
             /\ \A c \in Caller : call[c].needed[d] = 0 /\ pc[c] = "idle"
  <2>1. ReservedUnits(reservations, d) = {}
    BY DEF Init, ReservedUnits
  <2>2. Reserved(reservations, d) = 0
    BY <2>1, FS_EmptySet DEF Reserved
  <2>3. \A c \in Caller : call[c].needed = Zero
    BY Zenon DEF Init
  <2> QED BY <2>2, <2>3 DEF Init, Zero
<1>3. ASSUME NEW d \in Dim, NEW b \in Nat PROVE DueFit(d, b)
  <2>1. Due(d) = {}
    BY <1>2 DEF Due
  <2>2. Cardinality(Due(d)) = 0
    BY <2>1, FS_EmptySet, Zenon
  <2>3. available(resources, d) \in Nat /\ Cardinality(Caller) \in Nat \ {0}
    BY <1>1, DueTypes
  <2>4. Room(0, available(resources, d), Cardinality(Caller), 0, b)
    BY <2>3, RoomEmpty, Zenon
  <2> QED BY <1>2, <2>2, <2>4, Zenon DEF DueFit
<1>4. ASSUME NEW d \in Dim PROVE EmptyOffer(d)
  BY <1>2 DEF EmptyOffer
<1>5. resources = NoResources
  BY DEF Init
<1>6. ASSUME NEW d \in Dim, NEW b \in Nat PROVE \A c \in Caller : call[c].needed[d] <= b
  <2>1. 0 <= b
    OBVIOUS
  <2> QED BY <1>2, <2>1, Zenon
<1> QED
  BY <1>1, <1>3, <1>4, <1>5, <1>6 DEF RaceInv

\* A loop that is neither before nor past its last comparison, and stays so,
\* changes nothing for the others unless the table grows.
LEMMA QuietRace ==
    ASSUME IsFiniteSet(Caller), Caller # {}, RaceInv, TypeInv', UNCHANGED resources,
           NEW c \in Caller,
           \A x \in Caller \ {c} : pc'[x] = pc[x] /\ call'[x] = call[x],
           pc[c] \notin {"reserve_check", "reserve_insert"},
           pc'[c] \notin {"reserve_check", "reserve_insert"},
           \/ call'[c].needed = call[c].needed
           \/ \E req \in Requests : call'[c].needed = total_needed(req),
           \A d \in Dim : Reserved(reservations', d) <= Reserved(reservations, d)
    PROVE  RaceInv'
<1>1. ASSUME NEW d \in Dim PROVE Due(d)' = Due(d) /\ c \notin Due(d)
  <2>1. c \notin Due(d) /\ ~(c \in Due(d))'
    BY DEF Due
  <2> QED BY <2>1, DueKept, Zenon
<1>2. ASSUME NEW d \in Dim PROVE EmptyOffer(d)'
  <2>1. Reserved(reservations, d) \in Nat /\ Reserved(reservations', d) \in Nat
    BY ReservedType, Zenon DEF RaceInv, TypeInv
  <2>2. EmptyOffer(d)
    BY Zenon DEF RaceInv
  <2>3. Reserved(reservations, d) = 0 => Reserved(reservations', d) = 0
    BY <2>1, Sums, Zenon
  <2>4. \A x \in Caller : pc'[x] = "reserve_insert" =>
                             pc[x] = "reserve_insert" /\ call'[x] = call[x]
    BY Zenon
  <2> QED BY <2>2, <2>3, <2>4, Zenon DEF EmptyOffer
<1>3. ASSUME NEW d \in Dim, NEW b \in Nat, LargestRequest(d, b)
      PROVE  (\A x \in Caller : call'[x].needed[d] <= b) /\ DueFit(d, b)'
  <2>1. DueFit(d, b) /\ \A x \in Caller : call[x].needed[d] <= b
    BY <1>3, Zenon DEF RaceInv
  <2>2. call'[c].needed[d] <= b
    BY <1>3, <2>1, Zenon DEF LargestRequest
  <2>3. \A x \in Due(d) : call'[x].needed[d] = call[x].needed[d]
    BY <1>1, Zenon DEF Due
  <2>4. DueFit(d, b)'
    BY <1>1, <2>1, <2>3, DueFitKept, Zenon DEF RaceInv
  <2> QED BY <2>1, <2>2, <2>4, Zenon
<1>4. resources' = NoResources \/ resources' \in HostReadings
  BY Zenon DEF RaceInv
<1> QED
  BY <1>2, <1>3, <1>4, Zenon DEF RaceInv, LargestRequest

\* A snapshot the request fits beside was exact: it had not saturated.
LEMMA SnapshotFits ==
    ASSUME NEW sys \in SystemResources, NEW res, IsFiniteSet(DOMAIN res),
           NEW needed \in Amount, NEW d \in Dim, needed[d] > 0,
           Fits(sys, total_reserved_resources(res), needed)
    PROVE  Reserved(res, d) + needed[d] <= available(sys, d)
<1>1. /\ Reserved(res, d) \in Nat /\ available(sys, d) \in Nat
      /\ available(sys, d) <= MaxValue[d] /\ MaxValue[d] \in Nat /\ needed[d] \in Nat
  BY ReservedType, AvailableType, AvailableBound, CapacityAssumption, Zenon DEF Amount
<1>2. needed[d] <= SatSub(available(sys, d), SatMin(MaxValue[d], Reserved(res, d)))
  BY Zenon DEF Fits, total_reserved_resources
<1>3. SatMin(MaxValue[d], Reserved(res, d)) \in Nat
  BY <1>1 DEF SatMin
<1>4. SatMin(MaxValue[d], Reserved(res, d)) + needed[d] <= available(sys, d)
  BY <1>1, <1>2, <1>3, Saturated, Zenon
<1> QED
  BY <1>1, <1>4, Capped, Zenon

\* The last snapshot: its loop becomes the one whose request is known to fit,
\* beside a table that the other due loops have yet to add to.
LEMMA SumRace ==
    ASSUME IsFiniteSet(Caller), Caller # {}, RaceInv, TypeInv', NEW c \in Caller, ReserveSum(c)
    PROVE  RaceInv'
<1>1. /\ UNCHANGED <<resources, reservations>>
      /\ pc[c] = "reserve_sum" /\ pc'[c] = "reserve_check"
      /\ \A x \in Caller \ {c} : pc'[x] = pc[x] /\ call'[x] = call[x]
      /\ \A x \in Caller : call'[x].needed = call[x].needed
      /\ call'[c].snapshot = total_reserved_resources(reservations)
  BY DEF RaceInv, TypeInv, TypeOK, Call, ReserveSum, TakeSnapshot, Goto
<1>2. ASSUME NEW d \in Dim PROVE EmptyOffer(d)'
  BY <1>1 DEF RaceInv, EmptyOffer
<1>3. ASSUME NEW d \in Dim, NEW b \in Nat, DueFit(d, b) PROVE DueFit(d, b)'
  <2>1. CASE c \in Due(d)'
    <3> DEFINE r == Reserved(reservations, d)
               x == call[c].needed[d]
               a == available(resources, d)
               n == Cardinality(Caller)
    <3>1. r \in Nat /\ a \in Nat /\ n \in Nat \ {0} /\ x \in Nat /\ call[c].needed \in Amount
      BY DueTypes, Zenon DEF RaceInv
    <3>2. c \notin Due(d)
      BY <1>1 DEF Due
    <3>3. IsFiniteSet(Due(d)') /\ Cardinality(Due(d)') \in Nat \ {0} /\ Cardinality(Due(d)') <= n
      <4>1. Due(d)' \subseteq Caller
        BY DEF Due
      <4>2. /\ IsFiniteSet(Due(d)') /\ Cardinality(Due(d)') \in Nat
            /\ Cardinality(Due(d)') <= n
        BY <4>1, FS_Subset, FS_CardinalityType, Zenon
      <4> QED BY <2>1, <4>2, FS_EmptySet, Zenon
    <3>4. r + x <= a
      <4>1. x > 0 /\ Fits(resources, total_reserved_resources(reservations), call[c].needed)
        BY <1>1, <2>1, Zenon DEF Due
      <4>2. resources \in SystemResources /\ IsFiniteSet(DOMAIN reservations)
        BY DEF RaceInv, TypeInv, TypeOK
      <4> QED BY <3>1, <4>1, <4>2, SnapshotFits, Zenon
    <3>5. Room(r + x, a, n, Cardinality(Due(d)') - 1, b)
      <4> HIDE DEF r, x, a, n
      <4>1. r + x \in Nat /\ Cardinality(Due(d)') - 1 \in Nat /\ Cardinality(Due(d)') - 1 <= n - 1
        BY <3>1, <3>3, Sums, OneLess, Zenon
      <4> QED BY <3>1, <3>4, <4>1, RoomOnOffer, Zenon
    <3> QED BY <1>1, <2>1, <3>5, Zenon DEF DueFit
  <2>2. CASE c \notin Due(d)'
    <3>1. c \notin Due(d)
      BY <1>1 DEF Due
    <3>2. Due(d)' = Due(d)
      BY <1>1, <2>2, <3>1, DueKept, Zenon
    <3>3. Reserved(reservations', d) <= Reserved(reservations, d)
      <4>1. Reserved(reservations, d) \in Nat
        BY DueTypes, Zenon DEF RaceInv
      <4> QED BY <1>1, <4>1, Sums, Zenon
    <3>4. \A x \in Due(d) : call'[x].needed[d] = call[x].needed[d]
      BY <1>1, Zenon DEF Due
    <3> QED BY <1>1, <1>3, <3>2, <3>3, <3>4, DueFitKept, Zenon DEF RaceInv
  <2> QED BY <2>1, <2>2
<1> QED
  BY <1>1, <1>2, <1>3, Zenon DEF RaceInv, LargestRequest

\* The comparison settles what the snapshot had already decided.
LEMMA CheckRace ==
    ASSUME IsFiniteSet(Caller), Caller # {}, RaceInv, TypeInv', NEW c \in Caller, ReserveCheck(c)
    PROVE  RaceInv'
<1> DEFINE fits == Fits(resources, call[c].snapshot, call[c].needed)
<1>1. /\ UNCHANGED <<resources, reservations, call>>
      /\ pc[c] = "reserve_check" /\ pc'[c] = (IF fits THEN "reserve_insert" ELSE "idle")
      /\ \A x \in Caller \ {c} : pc'[x] = pc[x]
  BY Zenon DEF RaceInv, TypeInv, TypeOK, ReserveCheck, Goto
<1>2. ASSUME NEW d \in Dim PROVE EmptyOffer(d)'
  <2>1. ASSUME available(resources, d) = 0, fits PROVE call[c].needed[d] = 0
    <3>1. call[c].needed[d] \in Nat /\ call[c].snapshot[d] \in Nat
      BY Zenon DEF RaceInv, TypeInv, TypeOK, Call, Amount
    <3>2. call[c].needed[d] <= SatSub(0, call[c].snapshot[d])
      BY <2>1, Zenon DEF Fits
    <3>3. 0 \in Nat
      OBVIOUS
    <3> QED BY <3>1, <3>2, <3>3, Saturated, Zenon
  <2>2. EmptyOffer(d)
    BY Zenon DEF RaceInv
  <2> HIDE DEF fits
  <2> QED BY <1>1, <2>1, <2>2, Zenon DEF EmptyOffer
<1>3. ASSUME NEW d \in Dim PROVE Due(d)' = Due(d)
  <2>1. (c \in Due(d))' <=> c \in Due(d)
    BY <1>1, Zenon DEF Due
  <2> QED BY <1>1, <2>1, DueKept, Zenon
<1>4. ASSUME NEW d \in Dim, NEW b \in Nat, DueFit(d, b) PROVE DueFit(d, b)'
  BY <1>1, <1>3, <1>4, Zenon DEF DueFit
<1> QED
  BY <1>1, <1>2, <1>4, Zenon DEF RaceInv, LargestRequest

\* What an insert adds to a dimension: nothing for a known id, else the request.
LEMMA InsertAdds ==
    ASSUME TypeInv, NEW c \in Caller, ReserveInsert(c), NEW d \in Dim
    PROVE  \/ Reserved(reservations', d) = Reserved(reservations, d)
           \/ Reserved(reservations', d) = Reserved(reservations, d) + call[c].needed[d]
<1>1. call[c].manifest \in ManifestId /\ call[c].needed \in Amount
  BY Zenon DEF TypeInv, TypeOK, Call
<1>2. CASE call[c].id \in DOMAIN reservations
  <2>1. reservations' = RefreshReservation(reservations, call[c].id, call[c].manifest)
    BY <1>2, Zenon DEF ReserveInsert
  <2>2. /\ DOMAIN reservations' = DOMAIN reservations
        /\ \A i \in DOMAIN reservations' : reservations'[i].size = reservations[i].size
    <3>1. IsTable(reservations)
      BY Zenon DEF TypeInv, TypeOK
    <3> QED BY <1>1, <1>2, <2>1, <3>1, RefreshTable
  <2> QED BY <2>2, ReservedSame, Zenon
<1>3. CASE call[c].id \notin DOMAIN reservations
  <2>1. reservations' = InsertReservation(reservations, call[c].id, call[c].manifest, call[c].needed)
    BY <1>3, Zenon DEF ReserveInsert
  <2> QED BY <1>1, <1>3, <2>1, ReservedInsert, Zenon DEF TypeInv
<1> QED
  BY <1>2, <1>3

\* An insert on an outdated snapshot uses up the room kept for its loop.
LEMMA InsertRace ==
    ASSUME IsFiniteSet(Caller), Caller # {}, RaceInv, TypeInv', NEW c \in Caller, ReserveInsert(c)
    PROVE  RaceInv'
<1>1. /\ UNCHANGED <<resources, call>>
      /\ pc[c] = "reserve_insert" /\ pc'[c] = "idle"
      /\ \A x \in Caller \ {c} : pc'[x] = pc[x]
  BY Zenon DEF RaceInv, TypeInv, TypeOK, ReserveInsert, Goto
<1>2. ASSUME NEW d \in Dim
      PROVE  /\ Reserved(reservations, d) \in Nat /\ Reserved(reservations', d) \in Nat
             /\ call[c].needed[d] \in Nat
             /\ Reserved(reservations', d) <= Reserved(reservations, d) + call[c].needed[d]
  <2>1. /\ Reserved(reservations, d) \in Nat /\ Reserved(reservations', d) \in Nat
        /\ call[c].needed[d] \in Nat
    BY DueTypes, ReservedType, Zenon DEF RaceInv, TypeInv
  <2>2. \/ Reserved(reservations', d) = Reserved(reservations, d)
        \/ Reserved(reservations', d) = Reserved(reservations, d) + call[c].needed[d]
    BY InsertAdds, Zenon DEF RaceInv
  <2> QED BY <2>1, <2>2, Bounded, Zenon
<1>3. ASSUME NEW d \in Dim PROVE EmptyOffer(d)'
  <2>1. EmptyOffer(d)
    BY Zenon DEF RaceInv
  <2>2. Reserved(reservations, d) = 0 /\ call[c].needed[d] = 0 => Reserved(reservations', d) = 0
    BY <1>2, Sums, Zenon
  <2>3. \A x \in Caller : pc'[x] = "reserve_insert" => pc[x] = "reserve_insert"
    BY <1>1, Zenon
  <2> QED BY <1>1, <2>1, <2>2, <2>3, Zenon DEF EmptyOffer
<1>4. ASSUME NEW d \in Dim, NEW b \in Nat, DueFit(d, b), call[c].needed[d] <= b
      PROVE  DueFit(d, b)'
  <2> DEFINE r == Reserved(reservations, d)
             s == Reserved(reservations', d)
             x == call[c].needed[d]
             a == available(resources, d)
             n == Cardinality(Caller)
             k == Cardinality(Due(d))
  <2>1. /\ r \in Nat /\ s \in Nat /\ x \in Nat /\ a \in Nat /\ n \in Nat \ {0} /\ k \in Nat
        /\ s <= r + x /\ x <= b
    BY <1>2, <1>4, DueTypes, Zenon DEF RaceInv
  <2>2. CASE c \notin Due(d)
    <3>1. x = 0
      <4>1. ~(x > 0)
        BY <1>1, <2>2, Zenon DEF Due
      <4> QED BY <2>1, <4>1
    <3>2. ~(c \in Due(d))'
      BY <1>1, Zenon DEF Due
    <3>3. Due(d)' = Due(d)
      BY <1>1, <2>2, <3>2, DueKept, Zenon
    <3>4. Reserved(reservations', d) <= Reserved(reservations, d)
      BY <2>1, <3>1, Sums, Zenon
    <3> QED BY <1>1, <1>4, <3>3, <3>4, DueFitKept, Zenon DEF RaceInv
  <2>3. CASE c \in Due(d)
    <3>1. Due(d)' = Due(d) \ {c}
      <4>1. ~(c \in Due(d))'
        BY <1>1 DEF Due
      <4>2. ASSUME NEW y \in Caller \ {c} PROVE (y \in Due(d))' <=> y \in Due(d)
        BY <1>1, Zenon DEF Due
      <4>3. (\A y \in Due(d)' : y \in Caller) /\ (\A y \in Due(d) : y \in Caller)
        BY Zenon DEF Due
      <4> QED BY <4>1, <4>2, <4>3, Zenon
    <3>2. Cardinality(Due(d)') = k - 1 /\ k \in Nat \ {0}
      <4>1. IsFiniteSet(Due(d)) /\ k \in Nat \ {0}
        BY <2>3, DueTypes, Zenon DEF RaceInv
      <4>2. Cardinality(Due(d) \ {c}) = Cardinality(Due(d)) - 1
        BY <2>3, <4>1, FS_RemoveElement, Zenon
      <4> QED BY <3>1, <4>1, <4>2, Zenon
    <3>3. CASE Room(r, a, n, k, b)
      <4>1. Room(r + x, a, n, k - 1, b)
        <5> HIDE DEF r, x, a, n, k
        <5> QED BY <2>1, <3>2, <3>3, RoomUsed, Zenon
      <4>2. Room(s, a, n, k - 1, b)
        <5> HIDE DEF r, s, x, a, n, k
        <5>1. r + x \in Nat /\ k - 1 \in Nat
          BY <2>1, <3>2, Sums, OneLess, Zenon
        <5> QED BY <2>1, <4>1, <5>1, RoomLess, Zenon
      <4> QED BY <1>1, <3>2, <4>2, Zenon DEF DueFit
    <3>4. CASE Room(r + x, a, n, k - 1, b)
      <4>1. Room(s, a, n, k - 1, b)
        <5> HIDE DEF r, s, x, a, n, k
        <5>1. r + x \in Nat /\ k - 1 \in Nat
          BY <2>1, <3>2, Sums, OneLess, Zenon
        <5> QED BY <2>1, <3>4, <5>1, RoomLess, Zenon
      <4> QED BY <1>1, <3>2, <4>1, Zenon DEF DueFit
    <3>5. ASSUME NEW y \in Due(d), y # c, Room(r + call[y].needed[d], a, n, k - 1, b)
          PROVE  DueFit(d, b)'
      <4> DEFINE z == call[y].needed[d]
      <4>1. y \in Due(d)' /\ call'[y].needed[d] = z
        BY <1>1, <3>1, <3>5, Zenon
      <4>2. z \in Nat
        BY DueTypes, Zenon DEF RaceInv, Due
      <4>3. Cardinality(Due(d)') # 0
        <5>1. IsFiniteSet(Due(d)')
          BY <3>1, DueTypes, FS_Subset, Zenon DEF RaceInv
        <5> QED BY <4>1, <5>1, FS_EmptySet, Zenon
      <4>4. Room(s + z, a, n, (k - 1) - 1, b)
        <5>0. Room(r + z, a, n, k - 1, b)
          BY <3>5, Zenon
        <5>1. k - 1 \in Nat \ {0}
          <6>1. k - 1 \in Nat /\ k - 1 # 0
            BY <3>2, <4>3, OneLess, Zenon
          <6> QED BY <6>1, Zenon
        <5> HIDE DEF r, s, x, a, n, k, z
        <5>2. Room((r + z) + x, a, n, (k - 1) - 1, b)
          <6>1. r + z \in Nat
            BY <2>1, <4>2, Sums, Zenon
          <6> QED BY <2>1, <5>0, <5>1, <6>1, RoomUsed, Zenon
        <5>3. (r + z) + x \in Nat /\ s + z \in Nat /\ s + z <= (r + z) + x /\ (k - 1) - 1 \in Nat
          <6>1. \A i, j, l, m \in Nat : i <= j + l =>
                   (j + m) + l \in Nat /\ i + m \in Nat /\ i + m <= (j + m) + l
            OBVIOUS
          <6> QED BY <2>1, <4>2, <5>1, <6>1, OneLess, Zenon
        <5> QED BY <2>1, <5>2, <5>3, RoomLess, Zenon
      <4> QED BY <1>1, <3>2, <4>1, <4>4, Zenon DEF DueFit
    <3> QED BY <1>4, <3>3, <3>4, <3>5, Zenon DEF DueFit
  <2> QED BY <2>2, <2>3, Zenon
<1> QED
  BY <1>1, <1>3, <1>4, Zenon DEF RaceInv, LargestRequest

\* Reading the host: the first reading finds a table in which nothing is held,
\* a later one offers what the first did.
LEMMA HostRace ==
    ASSUME IsFiniteSet(Caller), SteadyHost, RaceInv, TypeInv',
           NEW c \in Caller, update_system_resources(c)
    PROVE  RaceInv'
<1>1. resources' \in HostReadings /\ UNCHANGED <<reservations, pc, call>>
  BY DEF update_system_resources
<1>2. ASSUME resources \in HostReadings, NEW d \in Dim
      PROVE  available(resources', d) = available(resources, d)
  BY <1>1, <1>2, Zenon DEF SteadyHost
<1>3. ASSUME NEW d \in Dim, available(resources, d) # 0
      PROVE  resources \in HostReadings
  BY <1>3, NothingOnOffer, Zenon DEF RaceInv
<1>4. ASSUME NEW d \in Dim PROVE EmptyOffer(d)'
  BY <1>1, <1>2, <1>3, Zenon DEF RaceInv, EmptyOffer
<1>5. ASSUME NEW d \in Dim, NEW b \in Nat, DueFit(d, b) PROVE DueFit(d, b)'
  <2>1. CASE available(resources, d) # 0
    <3>1. \A e \in Dim : available(resources', e) = available(resources, e)
      BY <1>2, <1>3, <2>1, Zenon
    <3>2. ASSUME NEW x \in Caller
          PROVE  Fits(resources', call[x].snapshot, call[x].needed)
                   <=> Fits(resources, call[x].snapshot, call[x].needed)
      BY <3>1, Zenon DEF Fits
    <3>3. Due(d)' = Due(d)
      BY <1>1, <3>2, Zenon DEF Due
    <3> QED BY <1>1, <1>5, <3>1, <3>3, Zenon DEF DueFit
  <2>2. CASE available(resources, d) = 0
    <3> DEFINE a == available(resources', d)
               n == Cardinality(Caller)
               k == Cardinality(Due(d)')
    <3>1. /\ Reserved(reservations', d) = 0
          /\ \A x \in Caller : pc[x] = "reserve_insert" => call[x].needed[d] = 0
      BY <1>1, <2>2, Zenon DEF RaceInv, EmptyOffer
    <3>2. a \in Nat /\ n \in Nat \ {0} /\ Caller # {}
      <4>1. a \in Nat
        BY AvailableType, Zenon DEF TypeInv, TypeOK
      <4> QED BY <4>1, DueTypes, Zenon DEF RaceInv
    <3>3. Due(d)' \subseteq Caller
      BY DEF Due
    <3>4. IsFiniteSet(Due(d)') /\ k \in Nat /\ k <= n
      BY <3>3, FS_Subset, FS_CardinalityType, Zenon
    <3>5. CASE Due(d)' = {}
      <4>1. k = 0
        BY <3>5, FS_EmptySet, Zenon
      <4>2. Room(0, a, n, 0, b)
        BY <3>2, RoomEmpty, Zenon
      <4> QED BY <3>1, <4>1, <4>2, Zenon DEF DueFit
    <3>6. ASSUME NEW x \in Due(d)' PROVE DueFit(d, b)'
      <4>1. x \in Caller
        BY <3>3, Zenon
      <4>2. call[x].needed[d] \in Nat /\ call[x].snapshot[d] \in Nat
        BY <4>1, Zenon DEF RaceInv, TypeInv, TypeOK, Call, Amount
      <4>3. call[x].needed[d] > 0 /\ pc[x] # "reserve_insert"
        <5>1. call[x].needed[d] > 0
          BY <1>1, Zenon DEF Due
        <5>2. call[x].needed[d] # 0
          BY <4>2, <5>1, Sums, Zenon
        <5> QED BY <3>1, <4>1, <5>1, <5>2, Zenon
      <4>4. Fits(resources', call[x].snapshot, call[x].needed)
        BY <1>1, <4>3, Zenon DEF Due
      <4>5. call[x].needed[d] <= a
        <5>1. call[x].needed[d] <= SatSub(a, call[x].snapshot[d])
          BY <4>4, Zenon DEF Fits
        <5> QED BY <3>2, <4>2, <5>1, Saturated, Zenon
      <4>6. k - 1 \in Nat /\ k - 1 <= n - 1
        <5>1. k \in Nat \ {0}
          BY <3>4, FS_EmptySet, Zenon
        <5> QED BY <3>2, <3>4, <5>1, OneLess, Zenon
      <4>7. Room(0 + call[x].needed[d], a, n, k - 1, b)
        <5> HIDE DEF a, n, k
        <5>1. Room(call[x].needed[d], a, n, k - 1, b)
          BY <3>2, <4>2, <4>5, <4>6, RoomOnOffer, Zenon
        <5>2. 0 + call[x].needed[d] = call[x].needed[d]
          BY <4>2, Sums, Zenon
        <5> QED BY <5>1, <5>2, Zenon
      <4> QED BY <1>1, <3>1, <4>7 DEF DueFit
    <3> QED BY <3>5, <3>6, Zenon
  <2> QED BY <2>1, <2>2, Zenon
<1> QED
  BY <1>1, <1>4, <1>5, Zenon DEF RaceInv, LargestRequest

\* The clock and the taking of the write lock change no size and move no loop.
LEMMA TickRace ==
    ASSUME RaceInv, TypeInv', Tick \/ UNCHANGED <<resources, reservations, pc, call>>
    PROVE  RaceInv'
<1>1. UNCHANGED <<resources, pc, call>>
  BY DEF Tick
<1>2. ASSUME NEW d \in Dim PROVE Reserved(reservations', d) = Reserved(reservations, d)
  <2>1. CASE Tick
    <3>1. IsTable(reservations) /\ reservations' = Age(reservations)
      BY <2>1, Zenon DEF Tick, RaceInv, TypeInv, TypeOK
    <3>2. /\ DOMAIN reservations' = DOMAIN reservations
          /\ \A i \in DOMAIN reservations' : reservations'[i].size = reservations[i].size
      BY <3>1, AgeTable
    <3> QED BY <3>2, ReservedSame, Zenon
  <2>2. CASE UNCHANGED reservations
    BY <2>2
  <2> QED BY <2>1, <2>2
<1>3. ASSUME NEW d \in Dim PROVE EmptyOffer(d)' <=> EmptyOffer(d)
  BY <1>1, <1>2 DEF EmptyOffer
<1>4. ASSUME NEW d \in Dim, NEW b \in Nat PROVE DueFit(d, b)' <=> DueFit(d, b)
  <2>1. Due(d)' = Due(d)
    BY <1>1, Zenon DEF Due
  <2> QED BY <1>1, <1>2, <2>1 DEF DueFit
<1> QED
  BY <1>1, <1>3, <1>4, Zenon DEF RaceInv, LargestRequest

\* What a step that is quiet in the sense of QuietRace does to the sums.
LEMMA QuietSums ==
    ASSUME TypeInv, NEW c \in Caller,
           \/ reservations' = reservations
           \/ reservations' = prune_expired_reservations(reservations)
           \/ /\ call[c].id \in DOMAIN reservations
              /\ reservations' = RefreshReservation(reservations, call[c].id, call[c].manifest),
           NEW d \in Dim
    PROVE  Reserved(reservations', d) <= Reserved(reservations, d)
<1>1. IsTable(reservations) /\ IsFiniteSet(DOMAIN reservations) /\ call[c].manifest \in ManifestId
  BY Zenon DEF TypeInv, TypeOK, Call
<1>2. Reserved(reservations, d) \in Nat
  BY <1>1, ReservedType, Zenon
<1>3. CASE reservations' = reservations
  BY <1>2, <1>3, Sums, Zenon
<1>4. CASE reservations' = prune_expired_reservations(reservations)
  <2>1. /\ DOMAIN reservations' = {i \in DOMAIN reservations : ~Expired(reservations, i)}
        /\ \A id \in DOMAIN reservations' : reservations'[id] = reservations[id]
    BY <1>1, <1>4, PruneTable
  <2>2. /\ DOMAIN reservations' \subseteq DOMAIN reservations
        /\ \A id \in DOMAIN reservations' : reservations'[id].size = reservations[id].size
    BY <2>1, Zenon
  <2> QED BY <1>1, <2>2, ReservedShrinks, Zenon
<1>5. CASE /\ call[c].id \in DOMAIN reservations
           /\ reservations' = RefreshReservation(reservations, call[c].id, call[c].manifest)
  <2>1. /\ DOMAIN reservations' = DOMAIN reservations
        /\ \A i \in DOMAIN reservations' : reservations'[i].size = reservations[i].size
    BY <1>1, <1>5, RefreshTable
  <2>2. Reserved(reservations', d) = Reserved(reservations, d)
    BY <2>1, ReservedSame, Zenon
  <2> QED BY <1>2, <2>2, Sums, Zenon
<1> QED
  BY <1>3, <1>4, <1>5, Zenon

\* Every step of any number of loops keeps the due loops within their room.
LEMMA RaceStep ==
    ASSUME IsFiniteSet(Caller), Caller # {}, SteadyHost
    PROVE  RaceInv /\ [Next]_vars => RaceInv'
<1> SUFFICES ASSUME RaceInv, [Next]_vars PROVE RaceInv'
  BY Zenon
<1>1. TypeInv /\ TypeInv'
  BY TypeStep DEF RaceInv
<1>2. pc \in [Caller -> Control] /\ call \in [Caller -> Call]
  BY <1>1, Zenon DEF TypeInv, TypeOK
<1>3. ASSUME NEW c \in Caller, Step(c) PROVE RaceInv'
  <2> DEFINE Quiet ==
        /\ UNCHANGED resources
        /\ \A x \in Caller \ {c} : pc'[x] = pc[x] /\ call'[x] = call[x]
        /\ pc[c] \notin {"reserve_check", "reserve_insert"}
        /\ pc'[c] \notin {"reserve_check", "reserve_insert"}
        /\ \/ call'[c].needed = call[c].needed
           \/ \E req \in Requests : call'[c].needed = total_needed(req)
        /\ \/ reservations' = reservations
           \/ reservations' = prune_expired_reservations(reservations)
           \/ /\ call[c].id \in DOMAIN reservations
              /\ reservations' = RefreshReservation(reservations, call[c].id, call[c].manifest)
  <2>1. ASSUME Quiet PROVE RaceInv'
    <3>1. \A d \in Dim : Reserved(reservations', d) <= Reserved(reservations, d)
      BY <1>1, <2>1, QuietSums, Zenon
    <3> QED BY <1>1, <2>1, <3>1, QuietRace, Zenon
  <2>2. CASE update_system_resources(c)
    BY <1>1, <2>2, HostRace, Zenon
  <2>3. ASSUME NEW id \in RequestId, NEW req \in Requests, VerifyPrune(c, id, req) PROVE Quiet
    BY <1>2, <2>3, Zenon DEF VerifyPrune, Goto
  <2>4. ASSUME NEW m \in ManifestId, GatePrune(c, m) PROVE Quiet
    BY <1>2, <2>4, Zenon DEF GatePrune, Goto, Call
  <2>5. CASE VerifySum(c)
    <3>1. Quiet
      BY <1>2, <2>5, Zenon DEF VerifySum, TakeSnapshot, Goto, Call
    <3> QED BY <2>1, <3>1
  <2>6. CASE VerifyCheck(c)
    <3>1. Quiet
      BY <1>2, <2>6, Zenon DEF VerifyCheck, Goto
    <3> QED BY <2>1, <3>1
  <2>7. CASE ReservePrune(c)
    <3>1. Quiet
      BY <1>2, <2>7, Zenon DEF ReservePrune, Goto
    <3> QED BY <2>1, <3>1
  <2>8. CASE ReserveRefresh(c)
    <3>1. Quiet
      BY <1>2, <2>8 DEF ReserveRefresh, Goto
    <3> QED BY <2>1, <3>1
  <2>9. CASE ReserveSum(c)
    BY <1>1, <2>9, SumRace, Zenon
  <2>10. CASE ReserveCheck(c)
    BY <1>1, <2>10, CheckRace, Zenon
  <2>11. CASE ReserveInsert(c)
    BY <1>1, <2>11, InsertRace, Zenon
  <2>12. CASE GateRead(c) \/ Deployed(c)
    <3>1. Quiet
      BY <1>2, <2>12 DEF GateRead, Deployed, Goto
    <3> QED BY <2>1, <3>1
  <2>13. CASE LockResources(c)
    BY <1>1, <2>13, TickRace DEF LockResources
  <2> HIDE DEF Quiet
  <2> QED
    BY <1>3, <2>1, <2>2, <2>3, <2>4, <2>5, <2>6, <2>7, <2>8, <2>9, <2>10, <2>11, <2>12, <2>13
       DEF Step, Return
<1>4. CASE Tick \/ UNCHANGED vars
  BY <1>1, <1>4, TickRace DEF vars
<1> QED
  BY <1>3, <1>4 DEF Next

\* The invariant bounds what is reserved, whoever is due.
LEMMA RaceBounds ==
    ASSUME IsFiniteSet(Caller), Caller # {}, RaceInv
    PROVE  OvershootBounded
<1> SUFFICES ASSUME NEW d \in Dim, NEW b \in 0..MaxValue[d],
                    \A req \in Requests : total_needed(req)[d] <= b
             PROVE  Reserved(reservations, d)
                      <= available(resources, d) + (Cardinality(Caller) - 1) * b
  BY Zenon DEF OvershootBounded
<1> DEFINE r == Reserved(reservations, d)
           a == available(resources, d)
           n == Cardinality(Caller)
           k == Cardinality(Due(d))
<1>1. b \in Nat /\ DueFit(d, b)
  <2>1. b \in Nat
    BY CapacityAssumption
  <2>2. LargestRequest(d, b)
    BY Zenon DEF LargestRequest
  <2> QED BY <2>1, <2>2, Zenon DEF RaceInv
<1>2. /\ r \in Nat /\ a \in Nat /\ n \in Nat \ {0} /\ k \in Nat
      /\ Due(d) # {} => k \in Nat \ {0}
      /\ \A c \in Due(d) : call[c].needed[d] \in Nat
  BY DueTypes, Zenon DEF RaceInv, Due
<1>3. CASE Room(r, a, n, k, b)
  BY <1>1, <1>2, <1>3, RoomBounds, Zenon
<1>4. ASSUME NEW c \in Due(d), Room(r + call[c].needed[d], a, n, k - 1, b)
      PROVE  r <= a + (n - 1) * b
  <2> DEFINE x == call[c].needed[d]
  <2>1. x \in Nat /\ k - 1 \in Nat /\ Room(r + x, a, n, k - 1, b)
    BY <1>2, <1>4, OneLess, Zenon
  <2> HIDE DEF r, a, n, k, x
  <2>2. r + x \in Nat /\ r <= r + x
    BY <1>2, <2>1, Sums, Zenon
  <2>3. Room(r, a, n, k - 1, b)
    BY <1>1, <1>2, <2>1, <2>2, RoomLess, Zenon
  <2> QED BY <1>1, <1>2, <2>1, <2>3, RoomBounds, Zenon
<1> QED
  BY <1>1, <1>3, <1>4, Zenon DEF DueFit

\* However many event loops of one process share the verifier, their races
\* overbook the host by at most one largest request for each loop but one.  The
\* readings of the host must agree on what it has to give: a reading that offers
\* less than an earlier one makes the table too large without any insert.
THEOREM OvershootIsBounded ==
    ASSUME IsFiniteSet(Caller), Caller # {}, SteadyHost
    PROVE  Spec => []OvershootBounded
<1>1. Spec => []RaceInv
  BY RaceInit, RaceStep, PTL DEF Spec
<1>2. RaceInv => OvershootBounded
  BY RaceBounds
<1> QED
  BY <1>1, <1>2, PTL
=============================================================================
