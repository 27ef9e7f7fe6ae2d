------------------------------ MODULE Capacity ------------------------------
(***************************************************************************)
(* The arithmetic of machine/src/resource_verifier.rs: what a host has to  *)
(* give (SystemResources), what a request asks for (ResourceRequest), what *)
(* the reservation table holds, and whether the request fits.              *)
(*                                                                         *)
(* CPU, memory and storage are treated alike by the code, so a quantity is *)
(* a function over Dim.  Machine integers are naturals with the saturation *)
(* limit MaxValue[d] (u32::MAX for CPU, u64::MAX for the others).          *)
(***************************************************************************)
EXTENDS Integers, FiniteSets

CONSTANTS
    Dim,            \* the resource dimensions: cpu, memory, storage
    MaxValue,       \* saturation limit of each dimension's integer type
    AllocPercent,   \* MAX_*_ALLOCATION_PERCENT
    MinFree,        \* 0 for cpu, MIN_FREE_MEMORY_BYTES, MIN_FREE_STORAGE_BYTES
    MaxWorkloads,   \* MAX_WORKLOADS_PER_NODE, 0 meaning no limit
    Hold,           \* RESERVATION_HOLD_SECS in ticks
    RequestId,      \* capacity request ids
    ManifestId,     \* manifest ids
    ManifestOf      \* the manifest id encoded in each request id

ASSUME CapacityAssumption ==
    /\ MaxValue \in [Dim -> Nat]
    /\ MinFree \in [Dim -> Nat]
    /\ AllocPercent \in 0..100
    /\ MaxWorkloads \in Nat
    /\ Hold \in Nat \ {0}
    /\ ManifestOf \in [RequestId -> ManifestId]

SatMin(a, b) == IF a <= b THEN a ELSE b

SatSub(a, b) == IF a <= b THEN 0 ELSE a - b

-----------------------------------------------------------------------------
(* The host and the requests *)

Amount == {a \in [Dim -> Nat] : \A d \in Dim : a[d] <= MaxValue[d]}

SystemResources == [total : Amount, allocated : Amount, running : Nat]

\* ResourceVerifier::new: nothing is known of the host until the first update.
NoResources ==
    [total |-> [d \in Dim |-> 0], allocated |-> [d \in Dim |-> 0], running |-> 0]

available(sys, d) ==
    SatSub(SatSub((sys.total[d] * AllocPercent) \div 100, MinFree[d]),
           sys.allocated[d])

can_accept_more_workloads(sys) ==
    MaxWorkloads = 0 \/ sys.running < MaxWorkloads

ResourceRequest == [size : Amount, replicas : Nat]

\* replicas.max(1), then a saturating multiplication in each dimension.
total_needed(req) ==
    [d \in Dim |->
        SatMin(MaxValue[d], req.size[d] * (IF req.replicas = 0 THEN 1 ELSE req.replicas))]

-----------------------------------------------------------------------------
(* The reservation table: a function from a finite set of request ids.     *)
(* "left" is expires_at - now in ticks; a reservation has expired when it  *)
(* reaches 0 and stays in the table until some call prunes it.             *)

CapacityReservation == [size : Amount, manifest : ManifestId, left : 0..Hold]

IsTable(res) == \E S \in SUBSET RequestId : res \in [S -> CapacityReservation]

Expired(res, id) == res[id].left = 0

Early_prune_expired_reservations(res) ==
    [id \in {i \in DOMAIN res : res[i].left > 1} |-> res[id]]

prune_expired_reservations(res) ==
    [id \in {i \in DOMAIN res : ~Expired(res, i)} |-> res[id]]

\* The reserved units of a dimension, one pair per unit.  Counting them adds
\* up the table without a recursive definition.
ReservedUnits(res, d) ==
    {u \in (DOMAIN res) \X (1..MaxValue[d]) : u[2] <= res[u[1]].size[d]}

Reserved(res, d) == Cardinality(ReservedUnits(res, d))

\* The saturating fold over the table.
total_reserved_resources(res) ==
    [d \in Dim |-> SatMin(MaxValue[d], Reserved(res, d))]

Unreserved_Fits(sys, reserved, needed) ==
    \A d \in Dim : needed[d] <= available(sys, d)

Fits(sys, reserved, needed) ==
    \A d \in Dim : needed[d] <= SatSub(available(sys, d), reserved[d])

Extending_RefreshReservation(res, id, m) ==
    [res EXCEPT ![id].left = @ + Hold, ![id].manifest = m]

RefreshReservation(res, id, m) ==
    [res EXCEPT ![id].left = Hold, ![id].manifest = m]

InsertReservation(res, id, m, needed) ==
    [i \in DOMAIN res \cup {id} |->
        IF i = id THEN [size |-> needed, manifest |-> m, left |-> Hold]
                  ELSE res[i]]

\* One tick of the clock, seen by the table.
Age(res) == [id \in DOMAIN res |-> [res[id] EXCEPT !.left = SatSub(@, 1)]]

HasReservationFor(res, m) == \E id \in DOMAIN res : res[id].manifest = m
=============================================================================
