------------------------- MODULE MCResourceVerifier -------------------------
(***************************************************************************)
(* Small instances of ResourceVerifier: one or two resource dimensions, a  *)
(* host with three units of each to give, a hold of two ticks.             *)
(***************************************************************************)
EXTENDS ResourceVerifier, TLC

CONSTANTS cpu, memory, r1, r2, r3, m1, m2

Sized(c, m) == [d \in Dim |-> IF d = cpu THEN c ELSE m]

MCMaxValue == Sized(5, 6)
MCMinFree == Sized(0, 1)
MCManifestOf == (r1 :> m1) @@ (r2 :> m1) @@ (r3 :> m2)
MCSameManifest == [id \in RequestId |-> m1]

Ask(c, m, n) == [size |-> Sized(c, m), replicas |-> n]
Host(c, m, run) == [total |-> Sized(4, 5), allocated |-> Sized(c, m), running |-> run]

\* Nothing at all, one unit, two replicas of one unit, more memory than there
\* is, and a product that saturates.
MCRequests == {Ask(0, 0, 1), Ask(1, 1, 0), Ask(1, 1, 2), Ask(1, 2, 2), Ask(3, 3, 4)}
MCTwoRequests == {Ask(1, 1, 0), Ask(1, 1, 2)}

\* An idle host, one with something running, and one at the workload limit.
MCHostReadings == {Host(0, 0, 0), Host(1, 0, 1), Host(0, 1, 2)}
MCOneReading == {Host(0, 0, 0)}

\* Neither the code nor TwoLoops tells request ids, or loops, apart.
Alike == Permutations(RequestId) \union Permutations(Caller)
=============================================================================
