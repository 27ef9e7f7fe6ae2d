---------------------------- MODULE MCWorkloadManager ----------------------------
(***************************************************************************)
(* Instances of WorkloadManager.                                           *)
(***************************************************************************)
EXTENDS WorkloadManager

CONSTANTS m1, r1, r2

AllEngines == Engine
==================================================================================
