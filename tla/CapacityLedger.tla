--------------------------- MODULE CapacityLedger ---------------------------
(***************************************************************************)
(* What the reservation table promises to the rest of the machine, without *)
(* locks, snapshots or a clock: holds are granted one at a time, each only *)
(* while it fits beside everything held, and are given back later.         *)
(***************************************************************************)
EXTENDS Integers, FiniteSets

CONSTANTS
    Dim,        \* resource dimensions
    Limit,      \* largest quantity of each dimension
    Holder      \* who may hold capacity: capacity request ids

VARIABLES
    offered,    \* capacity on offer in each dimension
    held        \* what each current holder holds

Held(h, d) == Cardinality({u \in (DOMAIN h) \X (1..Limit[d]) : u[2] <= h[u[1]][d]})

Init ==
    /\ offered = [d \in Dim |-> 0]
    /\ held = [x \in {} |-> {}]

\* The host becomes known while nothing is taken from it.
Learn ==
    /\ \A d \in Dim : Held(held, d) = 0
    /\ offered' \in [Dim -> Nat]
    /\ UNCHANGED held

\* A new hold of any size that still fits beside the others.
Grant(x) ==
    /\ x \notin DOMAIN held
    /\ held' \in [DOMAIN held \cup {x} -> [Dim -> Nat]]
    /\ \A y \in DOMAIN held : held'[y] = held[y]
    /\ \A d \in Dim : Held(held', d) <= offered[d]
    /\ UNCHANGED offered

Release(S) ==
    /\ held' = [y \in DOMAIN held \ S |-> held[y]]
    /\ UNCHANGED offered

Next ==
    \/ Learn
    \/ \E x \in Holder : Grant(x)
    \/ \E S \in SUBSET Holder : Release(S)

Spec == Init /\ [][Next]_<<offered, held>>
=============================================================================
