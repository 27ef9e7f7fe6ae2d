--------------------------- MODULE ReplicaAssignment ---------------------------
(***************************************************************************)
(* How a round of the Go scheduler (workplane/internal/machine/            *)
(* scheduler.go) splits the replicas of a task between the nodes that      *)
(* proposed: the sort of the proposals and assignReplicas.                 *)
(*                                                                         *)
(* A proposal is a record with fields node, score and stamp.  Node ids are *)
(* naturals, compared as the code compares its strings.  Scores are        *)
(* naturals: the code's float64 shares (score / sum) * total are           *)
(* represented by the exact fractions score * total over sum, so           *)
(* remainders are compared over the common denominator sum.                *)
(***************************************************************************)
EXTENDS Integers, Sequences, FiniteSets, Functions

NoTieBreak_Before(p, q) ==
    \/ p.score > q.score
    \/ p.score = q.score /\ p.stamp < q.stamp

\* The order of a round's proposals: best score, then oldest, then node id.
Before(p, q) ==
    \/ p.score > q.score
    \/ p.score = q.score /\ p.stamp < q.stamp
    \/ p.score = q.score /\ p.stamp = q.stamp /\ p.node < q.node

\* The place of a proposal in that order; equal ones stay as they are.
Position(props, i) ==
    Cardinality({j \in DOMAIN props :
        \/ Before(props[j], props[i])
        \/ ~Before(props[i], props[j]) /\ j <= i})

\* sort.Slice
Ranked(props) ==
    [k \in DOMAIN props |-> props[CHOOSE i \in DOMAIN props : Position(props, i) = k]]

FirstOf(places) == CHOOSE i \in places : \A j \in places : i <= j

\* upsertProposal: the node's own proposal replaces the first one heard back
\* under its name, or is appended.
Upsert(props, p) ==
    LET own == {i \in DOMAIN props : props[i].node = p.node}
    IN  IF own = {} THEN Append(props, p)
        ELSE [props EXCEPT ![FirstOf(own)] = p]

\* The sum of the values of a function, which are naturals: its units are counted.
Units(f) == UNION {{i} \X (1..f[i]) : i \in DOMAIN f}

SumOf(f) == Cardinality(Units(f))

SumScores(props) == SumOf([i \in DOMAIN props |-> props[i].score])

\* The place of a proposal by largest remainder; sort.SliceStable keeps proposals
\* with equal remainders in their order.
ByRemainder(fraction, i) ==
    Cardinality({j \in DOMAIN fraction :
        fraction[j] > fraction[i] \/ (fraction[j] = fraction[i] /\ j <= i)})

TopTakesRest_Extra(leftover, len, r) == IF r = 1 THEN leftover ELSE 0

\* What the r-th of len proposals gets of the leftover replicas, which are
\* handed out one by one, from the front again after the last.
Extra(leftover, len, r) ==
    Cardinality({k \in 1..leftover : (k - 1) % len = r - 1})

\* The replicas of each proposal: the floor of its share, and the leftovers by
\* largest remainder.
Shares(total, props) ==
    LET sum == SumScores(props)
        base == [i \in DOMAIN props |-> (props[i].score * total) \div sum]
        fraction == [i \in DOMAIN props |-> (props[i].score * total) % sum]
        leftover == total - SumOf(base)
    IN  [i \in DOMAIN props |->
            base[i] + Extra(leftover, Len(props), ByRemainder(fraction, i))]

\* Without a positive score the first proposals get one replica each.
OneEach(total, props) == [i \in DOMAIN props |-> IF i <= total THEN 1 ELSE 0]

\* assignReplicas: the number of replicas each node of nodes is given.
AssignReplicas(total, props, nodes) ==
    LET replicas == IF SumScores(props) = 0 THEN OneEach(total, props)
                    ELSE Shares(total, props)
    IN  [n \in nodes |->
            SumOf([i \in {i \in DOMAIN props : props[i].node = n} |-> replicas[i]])]
================================================================================
