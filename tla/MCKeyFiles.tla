------------------------------- MODULE MCKeyFiles -------------------------------
(***************************************************************************)
(* Instances of KeyFiles.                                                  *)
(***************************************************************************)
EXTENDS KeyFiles, TLC

CONSTANTS p1, p2

NoneOrBoth == {{}, Kind}

Symmetry == Permutations(Process)
=================================================================================
