-------------------------------- MODULE MCSession --------------------------------
(***************************************************************************)
(* Two clients and a peer; copies of envelopes live for one unit of time,  *)
(* as long as the window, and the clock goes one further.                  *)
(***************************************************************************)
EXTENDS Session, TLC

CONSTANTS c1, c2, p1, m1

Symmetry == Permutations({c1, c2})
==================================================================================
