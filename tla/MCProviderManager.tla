--------------------------- MODULE MCProviderManager ---------------------------
(***************************************************************************)
(* Instances of ProviderManager.                                           *)
(***************************************************************************)
EXTENDS ProviderManager

CONSTANTS m1, p1, p2, p3, c1, c2, f1
================================================================================
