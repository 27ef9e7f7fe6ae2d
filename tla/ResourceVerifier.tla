-------------------------- MODULE ResourceVerifier --------------------------
(***************************************************************************)
(* The reservation table of a machine process (resource_verifier.rs) as    *)
(* its callers drive it.  A Caller is a libp2p event loop: it answers a    *)
(* capacity request by verify_capacity followed by reserve_capacity        *)
(* (scheduler_message.rs, gossipsub_message.rs) and gates an apply by      *)
(* has_active_reservation_for_manifest (workload_integration.rs).          *)
(*                                                                         *)
(* Each action is one critical section of an RwLock of the verifier; the   *)
(* locks are released between the sections, so other callers and the clock *)
(* may move there.  One section is long: update_system_resources keeps the *)
(* write lock of system_resources over its awaits, so it is two actions    *)
(* and the calls that compare with the host's reading wait for the second. *)
(*                                                                         *)
(* The machine binary runs one event loop, Caller = {c}; the verifier is   *)
(* process-global, so nodes started in one process (as the integration     *)
(* tests do) are several callers of one verifier.                          *)
(***************************************************************************)
EXTENDS Capacity

CONSTANTS
    Caller,         \* event loops sharing the verifier
    Requests,       \* the resource requests that arrive
    HostReadings    \* what /proc, df and the runtime registry may report

ASSUME VerifierAssumption ==
    /\ Requests \subseteq ResourceRequest
    /\ HostReadings \subseteq SystemResources

VARIABLES
    resources,      \* system_resources
    reservations,   \* reservations
    unread,         \* callers whose start_machine has not read the host yet
    writer,         \* the caller, if any, with the write lock of system_resources
    pc,             \* where each caller is
    call            \* arguments and locals of each caller's current call

vars == <<resources, reservations, unread, writer, pc, call>>

Control == {"idle", "verify_sum", "verify_check", "reserve_prune",
            "reserve_refresh", "reserve_sum", "reserve_check",
            "reserve_insert", "gate_read", "deploying"}

Call == [id : RequestId, manifest : ManifestId, needed : Amount, snapshot : Amount]

Zero == [d \in Dim |-> 0]

Init ==
    /\ resources = NoResources
    /\ reservations = [id \in {} |-> {}]
    /\ unread = Caller
    /\ writer = {}
    /\ pc = [c \in Caller |-> "idle"]
    /\ call \in [Caller -> [id : RequestId, manifest : ManifestId,
                          needed : {Zero}, snapshot : {Zero}]]

Goto(c, from, to) == pc[c] = from /\ pc' = [pc EXCEPT ![c] = to]

\* start_machine spawns the event loop first and reads the host afterwards, in a
\* task of its own.  The write lock is held from here until the reading is over.
LockResources(c) ==
    /\ c \in unread /\ writer = {}
    /\ writer' = {c}
    /\ UNCHANGED <<resources, reservations, unread, pc, call>>

\* The mutant asks for get_system_resources while it has the lock itself.
Reentrant_update_system_resources(c) ==
    /\ c \in writer
    /\ writer = {}
    /\ writer' = {}
    /\ unread' = unread \ {c}
    /\ resources' \in HostReadings
    /\ UNCHANGED <<reservations, pc, call>>

\* /proc and df are read and the default engine has listed its workloads, all
\* of it under the lock; now the lock is released.
update_system_resources(c) ==
    /\ c \in writer
    /\ writer' = {}
    /\ unread' = unread \ {c}
    /\ resources' \in HostReadings
    /\ UNCHANGED <<reservations, pc, call>>

-----------------------------------------------------------------------------
(* verify_capacity *)

\* The handler computes the request's totals and verify_capacity prunes.
VerifyPrune(c, id, req) ==
    /\ Goto(c, "idle", "verify_sum")
    /\ call' = [call EXCEPT ![c] = [id |-> id, manifest |-> ManifestOf[id],
                                    needed |-> total_needed(req), snapshot |-> Zero]]
    /\ reservations' = prune_expired_reservations(reservations)
    /\ UNCHANGED <<resources, unread, writer>>

TakeSnapshot(c) ==
    /\ call' = [call EXCEPT ![c].snapshot = total_reserved_resources(reservations)]
    /\ UNCHANGED <<resources, reservations, unread, writer>>

VerifySum(c) == Goto(c, "verify_sum", "verify_check") /\ TakeSnapshot(c)

\* No capacity: the request is dropped without an answer.
VerifyCheck(c) ==
    /\ writer = {}
    /\ Goto(c, "verify_check",
            IF /\ Fits(resources, call[c].snapshot, call[c].needed)
               /\ can_accept_more_workloads(resources)
            THEN "reserve_prune" ELSE "idle")
    /\ UNCHANGED <<resources, reservations, unread, writer, call>>

-----------------------------------------------------------------------------
(* reserve_capacity *)

ReservePrune(c) ==
    /\ Goto(c, "reserve_prune", "reserve_refresh")
    /\ reservations' = prune_expired_reservations(reservations)
    /\ UNCHANGED <<resources, unread, writer, call>>

Resizing_ReserveRefresh(c) ==
    LET known == call[c].id \in DOMAIN reservations
    IN  /\ Goto(c, "reserve_refresh", IF known THEN "idle" ELSE "reserve_sum")
        /\ reservations' = IF known
                           THEN InsertReservation(reservations, call[c].id,
                                                  call[c].manifest, call[c].needed)
                           ELSE reservations
        /\ UNCHANGED <<resources, unread, writer, call>>

\* A known request id is refreshed: the bid is repeated, its size kept.
ReserveRefresh(c) ==
    LET known == call[c].id \in DOMAIN reservations
    IN  /\ Goto(c, "reserve_refresh", IF known THEN "idle" ELSE "reserve_sum")
        /\ reservations' = IF known
                           THEN RefreshReservation(reservations, call[c].id, call[c].manifest)
                           ELSE reservations
        /\ UNCHANGED <<resources, unread, writer, call>>

ReserveSum(c) == Goto(c, "reserve_sum", "reserve_check") /\ TakeSnapshot(c)

\* The comparison waits for the lock of the host's reading, as in verify_capacity.
ReserveCheck(c) ==
    /\ writer = {}
    /\ Goto(c, "reserve_check",
            IF Fits(resources, call[c].snapshot, call[c].needed)
            THEN "reserve_insert" ELSE "idle")
    /\ UNCHANGED <<resources, reservations, unread, writer, call>>

ReserveInsert(c) ==
    /\ Goto(c, "reserve_insert", "idle")
    /\ reservations' =
          IF call[c].id \in DOMAIN reservations
          THEN RefreshReservation(reservations, call[c].id, call[c].manifest)
          ELSE InsertReservation(reservations, call[c].id, call[c].manifest, call[c].needed)
    /\ UNCHANGED <<resources, unread, writer, call>>

-----------------------------------------------------------------------------
(* The apply gate: has_active_reservation_for_manifest, then the deployment, *)
(* which the event loop awaits before it takes up anything else.             *)

GatePrune(c, m) ==
    /\ Goto(c, "idle", "gate_read")
    /\ call' = [call EXCEPT ![c].manifest = m]
    /\ reservations' = prune_expired_reservations(reservations)
    /\ UNCHANGED <<resources, unread, writer>>

Ungated_GateRead(c) ==
    /\ Goto(c, "gate_read", "deploying")
    /\ UNCHANGED <<resources, reservations, unread, writer, call>>

GateRead(c) ==
    /\ Goto(c, "gate_read",
            IF HasReservationFor(reservations, call[c].manifest)
            THEN "deploying" ELSE "idle")
    /\ UNCHANGED <<resources, reservations, unread, writer, call>>

\* The reservation is neither consumed nor released by the deployment.
Deployed(c) ==
    /\ Goto(c, "deploying", "idle")
    /\ UNCHANGED <<resources, reservations, unread, writer, call>>

-----------------------------------------------------------------------------
Tick ==
    /\ reservations' = Age(reservations)
    /\ UNCHANGED <<resources, unread, writer, pc, call>>

Return(c) ==
    \/ VerifySum(c) \/ VerifyCheck(c)
    \/ ReservePrune(c) \/ ReserveRefresh(c) \/ ReserveSum(c)
    \/ ReserveCheck(c) \/ ReserveInsert(c)
    \/ GateRead(c)

Step(c) ==
    \/ LockResources(c) \/ update_system_resources(c)
    \/ \E id \in RequestId, req \in Requests : VerifyPrune(c, id, req)
    \/ \E m \in ManifestId : GatePrune(c, m)
    \/ Return(c)
    \/ Deployed(c)

Next == Tick \/ \E c \in Caller : Step(c)

Spec == Init /\ [][Next]_vars

\* tokio's RwLock queues are fair, and every critical section but the reading of
\* the host is short.  That one ends when the engine's listing does, which has no
\* timeout: an assumption on the engine.  Nothing makes requests arrive.
FairSpec ==
    Spec /\ \A c \in Caller : WF_vars(Return(c)) /\ WF_vars(update_system_resources(c))

-----------------------------------------------------------------------------
(* Properties *)

\* Types: the table maps request ids to reservations of at most the hold time,
\* and every caller is at a lock of the code.
TypeOK ==
    /\ resources \in SystemResources
    /\ IsTable(reservations)
    /\ unread \subseteq Caller /\ writer \subseteq unread
    /\ pc \in [Caller -> Control]
    /\ call \in [Caller -> Call]

\* reserve_capacity never promises more than the host has to give: what the
\* table holds, expired entries included, fits into the available resources.
WithinCapacity ==
    \A d \in Dim : Reserved(reservations, d) <= available(resources, d)

\* While the loop deploys an admitted manifest, however long that takes, the
\* manifest's reservation still counts against the capacity offered to others.
DeploymentBacked ==
    \A c \in Caller :
        pc[c] = "deploying" => HasReservationFor(reservations, call[c].manifest)

KeepsLiveReservations ==
    \A id \in DOMAIN reservations :
        ~Expired(reservations, id) =>
            /\ id \in DOMAIN reservations'
            /\ reservations'[id].size = reservations[id].size

\* No call takes away a reservation whose hold has not run out, or changes how
\* much it holds: a bid stays backed for RESERVATION_HOLD_SECS.
LiveReservationsKept == [][KeepsLiveReservations]_vars

\* One event loop's view of the table is an atomic ledger: a hold is granted
\* only while it fits beside all others, its size never changes, and the host
\* becomes known only while nothing is held.
Ledger == INSTANCE CapacityLedger WITH
    Limit <- MaxValue,
    Holder <- RequestId,
    offered <- [d \in Dim |-> available(resources, d)],
    held <- [id \in DOMAIN reservations |-> reservations[id].size]

ImplementsLedger == Ledger!Spec

\* With several event loops on one verifier the table can be overbooked (a loop
\* inserts on a snapshot that another loop has outdated), but only by one
\* largest request for each loop but the first.
OvershootBounded ==
    \A d \in Dim : \A bound \in 0..MaxValue[d] :
        (\A req \in Requests : total_needed(req)[d] <= bound) =>
            Reserved(reservations, d)
                <= available(resources, d) + (Cardinality(Caller) - 1) * bound

\* Every call comes back, also one that meets the reading of the host: the reading
\* keeps the lock of system_resources while it awaits the registry and the engine
\* (update_allocated_resources), and neither waits for that lock in turn.
CallsReturn ==
    \A c \in Caller :
        pc[c] \notin {"idle", "deploying"} ~> pc[c] \in {"idle", "deploying"}
=============================================================================
