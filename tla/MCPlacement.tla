---------------------------- MODULE MCPlacement ----------------------------
(***************************************************************************)
(* Small instances of Placement: two or four nodes, two runs of            *)
(* apply_file.  CapWindow < Hold < ApplyTimeout, as in the code.           *)
(***************************************************************************)
EXTENDS Placement, TLC

CONSTANTS n1, n2, n3, n4, r1, r2, m1, m2

Two == {r1, r2}
TwoManifests == (r1 :> m1) @@ (r2 :> m2)
TwoOrigins == (r1 :> n1) @@ (r2 :> n2)
SameOrigin == (r1 :> n1) @@ (r2 :> n1)
OneAndTwo == (r1 :> 1) @@ (r2 :> 2)

SlotsEach == [n \in Node |-> 1]
=============================================================================
