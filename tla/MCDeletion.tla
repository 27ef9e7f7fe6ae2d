----------------------------- MODULE MCDeletion -----------------------------
(***************************************************************************)
(* Small instances of Deletion: two nodes, a delete_task call on one of    *)
(* them, and a signed request with force.  With force every recorded owner *)
(* will do, so a second key would add nothing but copies of the states.    *)
(***************************************************************************)
EXTENDS Deletion, TLC

CONSTANTS n1, n2, k1, d1

OneEntry == d1 :> n1

Forced == {[to |-> n1, key |-> k1, force |-> TRUE]}
=============================================================================
