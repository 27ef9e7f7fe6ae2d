----------------------------- MODULE MCWorkloadAgent -----------------------------
(***************************************************************************)
(* Instances of WorkloadAgent.                                             *)
(***************************************************************************)
EXTENDS WorkloadAgent

CONSTANTS p1, p2, p3

Three == {p1, p2, p3}
AllKinds == {"Deployment", "StatefulSet", "other"}
================================================================================
