----------------------------- MODULE WorkplaneProofs -----------------------------
(***************************************************************************)
(* The scheduling rounds of the Go workplane, for any machines, links,     *)
(* tasks, scores and clocks.                                               *)
(*                                                                         *)
(* Rounds that decided on the same proposals decided the same.  The        *)
(* argument: a machine makes one proposal for a task, and no proposal      *)
(* reaches a machine twice, so a round's list never has two proposals of a *)
(* machine; the order of proposals is then strict, a proposal's place      *)
(* depends on the set of proposals alone, and so does the sorted list that *)
(* is decided on.  What a round gives is proportional to the scores and    *)
(* adds up: sums are counted unit by unit, and the leftovers of the floors *)
(* are no more than the proposals with a remainder.  The machine with the  *)
(* best proposal ranks itself first, so somebody deploys.                  *)
(***************************************************************************)
EXTENDS DistributedScheduler, FiniteSetTheorems, TLAPS

-----------------------------------------------------------------------------
(* Sums, and the leftovers of a division *)

\* The numbers up to k are k.
LEMMA Interval ==
    ASSUME NEW k \in Nat
    PROVE  IsFiniteSet(1..k) /\ Cardinality(1..k) = k
BY FS_Interval

\* A sum of naturals is a natural.
LEMMA SumType ==
    ASSUME NEW D, IsFiniteSet(D), NEW f \in [D -> Nat]
    PROVE  IsFiniteSet(Units(f)) /\ SumOf(f) \in Nat
<1> DEFINE part == [i \in D |-> {i} \X (1..f[i])]
           P == {{i} \X (1..f[i]) : i \in D}
<1>1. part \in Surjection(D, P)
  BY DEF Surjection
<1>2. IsFiniteSet(P)
  BY <1>1, FS_Surjection, Zenon
<1>3. ASSUME NEW X \in P PROVE IsFiniteSet(X)
  <2>1. PICK i \in D : X = {i} \X (1..f[i])
    BY Zenon
  <2>2. f[i] \in Nat
    OBVIOUS
  <2>3. IsFiniteSet(1..f[i]) /\ IsFiniteSet({i})
    BY <2>2, Interval, FS_Singleton, Zenon
  <2> QED BY <2>1, <2>3, FS_Product, Zenon
<1>4. Units(f) = UNION P
  BY DEF Units
<1> HIDE DEF P
<1>5. IsFiniteSet(Units(f))
  BY <1>2, <1>3, <1>4, FS_UNION, Zenon
<1> QED BY <1>5, FS_CardinalityType, Zenon DEF SumOf

\* Induction over the naturals: were k not reached, the successor would map the
\* numbers reached below k one to one into themselves without zero.
LEMMA Reached ==
    ASSUME NEW S \in SUBSET Nat, 0 \in S, \A k \in S : k + 1 \in S
    PROVE  S = Nat
<1> SUFFICES ASSUME NEW k \in Nat, k \notin S PROVE FALSE
  OBVIOUS
<1> DEFINE A == S \intersect (0..k)
           next == [x \in A |-> x + 1]
<1>1. IsFiniteSet(A)
  <2>1. IsFiniteSet(0..k)
    BY FS_Interval
  <2> QED BY <2>1, FS_Subset
<1>2. 0 \in A
  OBVIOUS
<1>3. next \in [A -> A \ {0}] /\ \A x, y \in A : next[x] = next[y] => x = y
  <2>1. ASSUME NEW x \in A PROVE x + 1 \in A \ {0}
    <3>1. x + 1 \in S /\ x \in 0..k /\ x # k
      OBVIOUS
    <3>2. x + 1 \in 0..k /\ x + 1 # 0
      BY <3>1
    <3> QED BY <3>1, <3>2
  <2>2. \A x, y \in A : x + 1 = y + 1 => x = y
    OBVIOUS
  <2> QED BY <2>1, <2>2
<1> HIDE DEF A, next
<1>4. IsFiniteSet(A \ {0}) /\ Cardinality(A \ {0}) = Cardinality(A) - 1
  BY <1>1, <1>2, FS_RemoveElement
<1>5. Cardinality(A) \in Nat
  BY <1>1, FS_CardinalityType, Zenon
<1>6. Cardinality(A \ {0}) < Cardinality(A)
  BY <1>4, <1>5
<1>7. \E x, y \in A : x # y /\ next[x] = next[y]
  BY <1>1, <1>3, <1>4, <1>6, FS_PigeonHole
<1> QED BY <1>3, <1>7, Zenon

\* The units of a function.
LEMMA UnitIn ==
    ASSUME NEW D, NEW f \in [D -> Nat], NEW i \in D, NEW k \in 1..f[i]
    PROVE  <<i, k>> \in Units(f)
<1>1. <<i, k>> \in {i} \X (1..f[i]) /\ DOMAIN f = D
  OBVIOUS
<1> QED BY <1>1, Zenon DEF Units

\* A unit is a pair of an argument and a number up to the value.
LEMMA UnitForm ==
    ASSUME NEW D, NEW f \in [D -> Nat], NEW u \in Units(f)
    PROVE  u = <<u[1], u[2]>> /\ u[1] \in D /\ u[2] \in 1..f[u[1]]
<1>1. PICK i \in D : u \in {i} \X (1..f[i])
  BY DEF Units
<1> QED BY <1>1

\* The same for a unit that is written as a pair.
LEMMA UnitPair ==
    ASSUME NEW D, NEW f \in [D -> Nat], NEW i, NEW k, <<i, k>> \in Units(f)
    PROVE  i \in D /\ k \in 1..f[i]
<1>1. PICK j \in D : <<i, k>> \in {j} \X (1..f[j])
  BY DEF Units
<1> QED BY <1>1

\* A one-to-one correspondence.
LEMMA SameSize ==
    ASSUME NEW A, NEW B, IsFiniteSet(A), NEW b \in [A -> B],
           \A x, y \in A : b[x] = b[y] => x = y,
           \A z \in B : \E x \in A : b[x] = z
    PROVE  IsFiniteSet(B) /\ Cardinality(B) = Cardinality(A)
<1>1. b \in Injection(A, B)
  BY Zenon DEF Injection, IsInjective
<1>2. b \in Surjection(A, B)
  BY Zenon DEF Surjection
<1> QED BY <1>1, <1>2, FS_Surjection, Zenon

\* The sum of two functions.
LEMMA SumAdd ==
    ASSUME NEW D, IsFiniteSet(D), NEW f \in [D -> Nat], NEW g \in [D -> Nat]
    PROVE  SumOf([i \in D |-> f[i] + g[i]]) = SumOf(f) + SumOf(g)
<1> DEFINE h == [i \in D |-> f[i] + g[i]]
           moved == [u \in Units(g) |-> <<u[1], f[u[1]] + u[2]>>]
           V == {<<u[1], f[u[1]] + u[2]>> : u \in Units(g)}
<1>1. h \in [D -> Nat] /\ \A i \in D : h[i] = f[i] + g[i] /\ f[i] \in Nat /\ g[i] \in Nat
  OBVIOUS
<1>2. IsFiniteSet(Units(f)) /\ IsFiniteSet(Units(g))
  BY SumType, Zenon
<1> HIDE DEF h
<1>3. IsFiniteSet(V) /\ Cardinality(V) = Cardinality(Units(g))
  <2>1. moved \in [Units(g) -> V] /\ \A z \in V : \E x \in Units(g) : moved[x] = z
    OBVIOUS
  <2>2. ASSUME NEW x \in Units(g), NEW y \in Units(g), moved[x] = moved[y] PROVE x = y
    <3>1. /\ x = <<x[1], x[2]>> /\ x[1] \in D /\ x[2] \in 1..g[x[1]]
          /\ y = <<y[1], y[2]>> /\ y[1] \in D /\ y[2] \in 1..g[y[1]]
      BY UnitForm, Zenon
    <3>2. x[1] = y[1] /\ f[x[1]] + x[2] = f[y[1]] + y[2]
      BY <2>2
    <3>3. x[2] = y[2]
      BY <1>1, <3>1, <3>2
    <3> QED BY <3>1, <3>2, <3>3
  <2> HIDE DEF moved, V
  <2> QED BY <1>2, <2>1, <2>2, SameSize, Zenon
<1>4. Units(h) = Units(f) \union V
  <2>1. ASSUME NEW u \in Units(h) PROVE u \in Units(f) \union V
    <3>1. u = <<u[1], u[2]>> /\ u[1] \in D /\ u[2] \in 1..h[u[1]]
      BY <1>1, UnitForm, Zenon
    <3>2. CASE u[2] <= f[u[1]]
      <4>1. u[2] \in 1..f[u[1]]
        BY <1>1, <3>1, <3>2
      <4>2. <<u[1], u[2]>> \in Units(f)
        BY <3>1, <4>1, UnitIn, Zenon
      <4> QED BY <3>1, <4>2, Zenon
    <3>3. CASE u[2] > f[u[1]]
      <4> DEFINE v == <<u[1], u[2] - f[u[1]]>>
      <4>1. u[2] - f[u[1]] \in 1..g[u[1]] /\ f[u[1]] + (u[2] - f[u[1]]) = u[2]
        BY <1>1, <3>1, <3>3
      <4>2. v \in Units(g)
        BY <3>1, <4>1, UnitIn
      <4>3. v[1] = u[1] /\ v[2] = u[2] - f[u[1]]
        OBVIOUS
      <4>4. u = <<v[1], f[v[1]] + v[2]>>
        BY <3>1, <4>1, <4>3, Zenon
      <4> QED BY <4>2, <4>4, Zenon
    <3> QED BY <1>1, <3>1, <3>2, <3>3
  <2>2. ASSUME NEW u \in Units(f) PROVE u \in Units(h)
    <3>1. u = <<u[1], u[2]>> /\ u[1] \in D /\ u[2] \in 1..f[u[1]]
      BY UnitForm, Zenon
    <3>2. u[2] \in 1..h[u[1]]
      BY <1>1, <3>1
    <3>3. <<u[1], u[2]>> \in Units(h)
      BY <1>1, <3>1, <3>2, UnitIn
    <3> QED BY <3>1, <3>3, Zenon
  <2>3. ASSUME NEW u \in Units(g) PROVE <<u[1], f[u[1]] + u[2]>> \in Units(h)
    <3>1. u[1] \in D /\ u[2] \in 1..g[u[1]]
      BY UnitForm, Zenon
    <3>2. f[u[1]] + u[2] \in 1..h[u[1]]
      BY <1>1, <3>1
    <3> QED BY <1>1, <3>1, <3>2, UnitIn
  <2> QED BY <2>1, <2>2, <2>3, Zenon
<1>5. Units(f) \intersect V = {}
  <2>1. ASSUME NEW u \in Units(g), <<u[1], f[u[1]] + u[2]>> \in Units(f) PROVE FALSE
    <3>1. u[1] \in D /\ u[2] \in 1..g[u[1]]
      BY UnitForm, Zenon
    <3>2. f[u[1]] + u[2] \in 1..f[u[1]]
      BY <2>1, UnitPair
    <3> QED BY <1>1, <3>1, <3>2
  <2> QED BY <2>1, Zenon
<1> HIDE DEF V
<1>6. Cardinality(Units(h)) = Cardinality(Units(f)) + Cardinality(V) - Cardinality({})
  BY <1>2, <1>3, <1>4, <1>5, FS_Union
<1>7. Cardinality({}) = 0 /\ Cardinality(Units(f)) \in Nat /\ Cardinality(Units(g)) \in Nat
  BY <1>2, FS_EmptySet, FS_CardinalityType, Zenon
<1>8. Cardinality(Units(h)) = Cardinality(Units(f)) + Cardinality(Units(g))
  BY <1>3, <1>6, <1>7
<1> QED BY <1>8, Zenon DEF SumOf, h

\* A function that is nowhere above another has no greater sum.
LEMMA SumMono ==
    ASSUME NEW D, IsFiniteSet(D), NEW f \in [D -> Nat], NEW g \in [D -> Nat],
           \A i \in D : f[i] <= g[i]
    PROVE  SumOf(f) <= SumOf(g)
<1>1. Units(f) \in SUBSET Units(g)
  <2>1. ASSUME NEW u \in Units(f) PROVE u \in Units(g)
    <3>1. u = <<u[1], u[2]>> /\ u[1] \in D /\ u[2] \in 1..f[u[1]]
      BY UnitForm, Zenon
    <3>2. u[2] \in 1..g[u[1]]
      BY <3>1
    <3>3. <<u[1], u[2]>> \in Units(g)
      BY <3>1, <3>2, UnitIn
    <3> QED BY <3>1, <3>3, Zenon
  <2> QED BY <2>1, Zenon
<1>2. IsFiniteSet(Units(g))
  BY SumType, Zenon
<1> QED BY <1>1, <1>2, FS_Subset, Zenon DEF SumOf

\* A value on a set, and zero elsewhere.
LEMMA SumOn ==
    ASSUME NEW D, IsFiniteSet(D), NEW A \in SUBSET D, NEW c \in Nat
    PROVE  SumOf([i \in D |-> IF i \in A THEN c ELSE 0]) = c * Cardinality(A)
<1> DEFINE f == [i \in D |-> IF i \in A THEN c ELSE 0]
<1>1. f \in [D -> Nat] /\ \A i \in D : f[i] = IF i \in A THEN c ELSE 0
  OBVIOUS
<1> HIDE DEF f
<1>2. Units(f) = A \X (1..c)
  <2>1. ASSUME NEW u \in Units(f) PROVE u \in A \X (1..c)
    <3>1. u = <<u[1], u[2]>> /\ u[1] \in D /\ u[2] \in 1..f[u[1]]
      BY <1>1, UnitForm, Zenon
    <3>2. u[1] \in A
      BY <1>1, <3>1
    <3>3. u[2] \in 1..c
      BY <1>1, <3>1, <3>2
    <3> QED BY <3>1, <3>2, <3>3
  <2>2. ASSUME NEW i \in A, NEW k \in 1..c PROVE <<i, k>> \in Units(f)
    <3>1. i \in D /\ k \in 1..f[i]
      BY <1>1
    <3> QED BY <1>1, <3>1, UnitIn
  <2> QED BY <2>1, <2>2
<1>3. IsFiniteSet(A) /\ Cardinality(A) \in Nat
  BY FS_Subset, FS_CardinalityType
<1>4. IsFiniteSet(1..c) /\ Cardinality(1..c) = c
  BY Interval, Zenon
<1>5. Cardinality(Units(f)) = Cardinality(A) * c
  BY <1>2, <1>3, <1>4, FS_Product
<1>6. Cardinality(A) * c = c * Cardinality(A)
  BY <1>3
<1> QED BY <1>5, <1>6, Zenon DEF SumOf, f

\* The sum of nothing.
LEMMA SumZero ==
    ASSUME NEW D, IsFiniteSet(D)
    PROVE  SumOf([i \in D |-> 0]) = 0
<1>1. Units([i \in D |-> 0]) = {}
  BY DEF Units
<1> QED BY <1>1, FS_EmptySet DEF SumOf

\* A multiple of a function.
LEMMA SumScale ==
    ASSUME NEW D, IsFiniteSet(D), NEW f \in [D -> Nat], NEW c \in Nat
    PROVE  SumOf([i \in D |-> c * f[i]]) = c * SumOf(f)
<1> DEFINE S == {k \in Nat : SumOf([i \in D |-> k * f[i]]) = k * SumOf(f)}
<1>1. SumOf(f) \in Nat /\ \A i \in D : f[i] \in Nat
  BY SumType
<1>2. 0 \in S
  <2>1. [i \in D |-> 0 * f[i]] = [i \in D |-> 0]
    BY <1>1
  <2>2. SumOf([i \in D |-> 0 * f[i]]) = 0
    BY <2>1, SumZero, Zenon
  <2>3. 0 * SumOf(f) = 0
    BY <1>1
  <2> QED BY <2>2, <2>3
<1>3. ASSUME NEW k \in S PROVE k + 1 \in S
  <2> DEFINE g == [i \in D |-> k * f[i]]
  <2>1. k \in Nat /\ SumOf(g) = k * SumOf(f)
    BY Zenon
  <2>2. ASSUME NEW i \in D PROVE k * f[i] \in Nat /\ (k + 1) * f[i] = k * f[i] + f[i]
    <3> DEFINE x == f[i]
    <3>1. x \in Nat
      BY <1>1
    <3> HIDE DEF x
    <3>2. k * x \in Nat /\ (k + 1) * x = k * x + x
      BY <2>1, <3>1
    <3> QED BY <3>2 DEF x
  <2>3. g \in [D -> Nat] /\ \A i \in D : g[i] = k * f[i]
    BY <2>2, Zenon
  <2> HIDE DEF g
  <2>4. [i \in D |-> (k + 1) * f[i]] = [i \in D |-> g[i] + f[i]]
    BY <2>2, <2>3, Zenon
  <2>5. SumOf([i \in D |-> (k + 1) * f[i]]) = SumOf(g) + SumOf(f)
    <3>1. SumOf([i \in D |-> g[i] + f[i]]) = SumOf(g) + SumOf(f)
      BY <2>3, SumAdd, Zenon
    <3> QED BY <2>4, <3>1, Zenon
  <2>6. k * SumOf(f) + SumOf(f) = (k + 1) * SumOf(f) /\ k + 1 \in Nat
    BY <1>1, <2>1
  <2> QED BY <2>1, <2>5, <2>6, Zenon
<1>4. S = Nat
  <2> HIDE DEF S
  <2>1. S \in SUBSET Nat
    BY DEF S
  <2> QED BY <1>2, <1>3, <2>1, Reached, Zenon
<1> QED BY <1>4, Zenon

\* The remainder of a number smaller than the divisor.
LEMMA SmallMod ==
    ASSUME NEW a \in Nat, NEW c \in Nat, a < c PROVE a % c = a
OBVIOUS

\* Division with remainder.
LEMMA Divided ==
    ASSUME NEW a \in Int, NEW c \in Int, c > 0
    PROVE  a = c * (a \div c) + (a % c)
OBVIOUS

\* The same for naturals, with the range of the remainder.
LEMMA Division ==
    ASSUME NEW a \in Nat, NEW c \in Nat, c # 0
    PROVE  /\ a \div c \in Nat /\ a % c \in Nat /\ a % c < c
           /\ a = c * (a \div c) + (a % c)
<1>1. a \div c \in Nat /\ a % c \in Nat /\ a % c < c
  OBVIOUS
<1>2. a = c * (a \div c) + (a % c)
  BY Divided
<1> QED BY <1>1, <1>2, Zenon

\* Multiplication keeps the order.
LEMMA Times ==
    ASSUME NEW a \in Nat, NEW x \in Int, NEW y \in Int, x <= y
    PROVE  a * x <= a * y
OBVIOUS

\* How far a total may be from the sum of the floors.
LEMMA Remain ==
    ASSUME NEW total \in Nat, NEW sum \in Nat, sum # 0,
           NEW floors \in Nat, NEW rests \in Nat, NEW positive \in Nat,
           total * sum = sum * floors + rests, rests <= (sum - 1) * positive
    PROVE  total - floors \in Nat /\ total - floors <= positive
<1> DEFINE d == total - floors
<1>1. d \in Int /\ total = floors + d
  OBVIOUS
<1>2. sum * d = rests
  <2>1. (floors + d) * sum = sum * floors + sum * d
    BY <1>1
  <2> QED BY <1>1, <2>1
<1> HIDE DEF d
<1>3. d >= 0
  <2> SUFFICES ASSUME d <= -1 PROVE FALSE
    BY <1>1
  <2>1. sum * d <= sum * (-1)
    BY <1>1, Times
  <2> QED BY <1>2, <2>1
<1>4. d <= positive
  <2> SUFFICES ASSUME positive + 1 <= d PROVE FALSE
    BY <1>1
  <2>1. sum * (positive + 1) <= sum * d
    BY <1>1, Times
  <2>2. /\ sum * (positive + 1) = sum * positive + sum
        /\ (sum - 1) * positive = sum * positive - positive
        /\ sum * positive \in Int
    OBVIOUS
  <2> QED BY <1>2, <2>1, <2>2
<1> QED BY <1>1, <1>3, <1>4 DEF d

\* The exact shares of a total, over the sum of the scores, as floors and remainders.
Floors(D, s, sum, total, base, rest) ==
    /\ s \in [D -> Nat] /\ base \in [D -> Nat] /\ rest \in [D -> Nat]
    /\ sum \in Nat /\ sum # 0 /\ sum = SumOf(s)
    /\ \A i \in D : s[i] * total = sum * base[i] + rest[i]
    /\ \A i \in D : rest[i] < sum

Fractional(D, rest) == {i \in D : rest[i] > 0}

\* The leftover replicas are no more than the proposals with a remainder.
LEMMA LeftoverBound ==
    ASSUME NEW D, IsFiniteSet(D), NEW total \in Nat,
           NEW s, NEW sum, NEW base, NEW rest, Floors(D, s, sum, total, base, rest)
    PROVE  /\ total - SumOf(base) \in Nat
           /\ total - SumOf(base) <= Cardinality(Fractional(D, rest))
<1> DEFINE A == {i \in D : rest[i] > 0}
           most == [i \in D |-> IF i \in A THEN sum - 1 ELSE 0]
           whole == [i \in D |-> sum * base[i]]
<1>0. /\ s \in [D -> Nat] /\ base \in [D -> Nat] /\ rest \in [D -> Nat]
      /\ sum \in Nat /\ sum # 0 /\ sum = SumOf(s)
      /\ \A i \in D : s[i] * total = sum * base[i] + rest[i]
      /\ \A i \in D : rest[i] < sum
  BY Zenon DEF Floors
<1>1. /\ SumOf(base) \in Nat /\ SumOf(rest) \in Nat
  BY <1>0, SumType, Zenon
<1>2. SumOf([i \in D |-> total * s[i]]) = total * sum
  BY <1>0, SumScale, Zenon
<1>3. SumOf(whole) = sum * SumOf(base)
  <2>1. base \in [D -> Nat] /\ sum \in Nat
    BY <1>0, Zenon
  <2> QED BY <2>1, SumScale, Zenon
<1> USE <1>0
<1>4. whole \in [D -> Nat] /\ \A i \in D : whole[i] = sum * base[i]
  <2>1. ASSUME NEW i \in D PROVE sum * base[i] \in Nat
    <3>1. base[i] \in Nat
      OBVIOUS
    <3> QED BY <3>1
  <2> QED BY <2>1, Zenon
<1>5. [i \in D |-> total * s[i]] = [i \in D |-> whole[i] + rest[i]]
  <2>1. ASSUME NEW i \in D PROVE total * s[i] = whole[i] + rest[i]
    <3>1. s[i] \in Nat /\ s[i] * total = whole[i] + rest[i]
      BY <1>4
    <3> QED BY <3>1
  <2> QED BY <2>1, Zenon
<1> HIDE DEF whole
<1>6. SumOf([i \in D |-> whole[i] + rest[i]]) = SumOf(whole) + SumOf(rest)
  BY <1>4, SumAdd, Zenon
<1>7. total * sum = sum * SumOf(base) + SumOf(rest)
  BY <1>2, <1>3, <1>5, <1>6, Zenon
<1>8. A \in SUBSET D /\ Cardinality(A) \in Nat /\ sum - 1 \in Nat
  <2>1. A \in SUBSET D /\ sum - 1 \in Nat
    OBVIOUS
  <2> HIDE DEF A
  <2> QED BY <2>1, FS_Subset, FS_CardinalityType
<1>9. SumOf(rest) <= (sum - 1) * Cardinality(A)
  <2>1. \A i \in D : rest[i] <= most[i]
    OBVIOUS
  <2>2. most \in [D -> Nat]
    OBVIOUS
  <2>3. SumOf(most) = (sum - 1) * Cardinality(A)
    <3> HIDE DEF A
    <3> QED BY <1>8, SumOn
  <2> HIDE DEF most
  <2>4. SumOf(rest) <= SumOf(most)
    BY <2>1, <2>2, SumMono, Zenon
  <2> QED BY <2>3, <2>4, Zenon
<1> HIDE DEF A
<1>10. total - SumOf(base) \in Nat /\ total - SumOf(base) <= Cardinality(A)
  BY <1>1, <1>7, <1>8, <1>9, Remain, Zenon
<1> QED BY <1>10, Zenon DEF A, Fractional

\* Leftovers that do not go round once: the first places get one each.
LEMMA ExtraIs ==
    ASSUME NEW leftover \in Nat, NEW len \in Nat, leftover <= len, NEW r \in 1..len
    PROVE  Extra(leftover, len, r) = IF r <= leftover THEN 1 ELSE 0
<1>1. ASSUME NEW k \in 1..leftover PROVE (k - 1) % len = k - 1
  BY SmallMod
<1> DEFINE K == {k \in 1..leftover : (k - 1) % len = r - 1}
<1>2. K = {k \in 1..leftover : k - 1 = r - 1}
  BY <1>1, Zenon
<1>3. K = IF r <= leftover THEN {r} ELSE {}
  BY <1>2
<1> HIDE DEF K
<1>4. Cardinality({r}) = 1 /\ Cardinality({}) = 0
  BY FS_Singleton, FS_EmptySet
<1>5. Cardinality(K) = IF r <= leftover THEN 1 ELSE 0
  BY <1>3, <1>4
<1> QED BY <1>5, Zenon DEF Extra, K

-----------------------------------------------------------------------------
(* The order of the remainders *)

\* The proposals that are not after the i-th by remainder.
NoLess(fraction, i) ==
    {j \in DOMAIN fraction : fraction[j] > fraction[i] \/ (fraction[j] = fraction[i] /\ j <= i)}

\* The place by remainder counts the proposals that are not after it.
LEMMA NoLessCounts ==
    ASSUME NEW len \in Nat, NEW fraction \in [1..len -> Nat], NEW i \in 1..len
    PROVE  /\ ByRemainder(fraction, i) = Cardinality(NoLess(fraction, i))
           /\ IsFiniteSet(NoLess(fraction, i))
           /\ NoLess(fraction, i) \in SUBSET (1..len) /\ i \in NoLess(fraction, i)
           /\ ByRemainder(fraction, i) \in 1..len
<1>1. ByRemainder(fraction, i) = Cardinality(NoLess(fraction, i))
  BY Zenon DEF ByRemainder, NoLess
<1>2. NoLess(fraction, i) \in SUBSET (1..len) /\ i \in NoLess(fraction, i)
  <2>1. DOMAIN fraction = 1..len /\ fraction[i] = fraction[i] /\ i <= i
    OBVIOUS
  <2> QED BY <2>1, Zenon DEF NoLess
<1>3. IsFiniteSet(1..len) /\ Cardinality(1..len) = len
  BY Interval, Zenon
<1>4. IsFiniteSet(NoLess(fraction, i)) /\ Cardinality(NoLess(fraction, i)) <= len
  <2>1. NoLess(fraction, i) \in SUBSET (1..len)
    BY <1>2, Zenon
  <2>2. /\ IsFiniteSet(NoLess(fraction, i))
        /\ Cardinality(NoLess(fraction, i)) <= Cardinality(1..len)
    BY <1>3, <2>1, FS_Subset, Zenon
  <2> QED BY <1>3, <2>2, Zenon
<1>5. Cardinality(NoLess(fraction, i)) \in Nat /\ Cardinality(NoLess(fraction, i)) # 0
  BY <1>2, <1>4, FS_CardinalityType, FS_EmptySet, Zenon
<1>6. Cardinality(NoLess(fraction, i)) \in 1..len
  BY <1>4, <1>5
<1> QED BY <1>1, <1>2, <1>4, <1>6, Zenon

\* A larger remainder, or an equal one further in front, comes no later.
LEMMA RemainderOrder ==
    ASSUME NEW len \in Nat, NEW fraction \in [1..len -> Nat], NEW i \in 1..len, NEW j \in 1..len,
           i \in NoLess(fraction, j)
    PROVE  /\ ByRemainder(fraction, i) <= ByRemainder(fraction, j)
           /\ ByRemainder(fraction, i) = ByRemainder(fraction, j) => i = j
<1>1. NoLess(fraction, i) \in SUBSET NoLess(fraction, j)
  <2>1. ASSUME NEW k \in NoLess(fraction, i) PROVE k \in NoLess(fraction, j)
    <3>1. k \in 1..len /\ (fraction[k] > fraction[i] \/ (fraction[k] = fraction[i] /\ k <= i))
      BY DEF NoLess
    <3>2. fraction[i] > fraction[j] \/ (fraction[i] = fraction[j] /\ i <= j)
      BY DEF NoLess
    <3>3. fraction[k] > fraction[j] \/ (fraction[k] = fraction[j] /\ k <= j)
      BY <3>1, <3>2
    <3> QED BY <3>1, <3>3 DEF NoLess
  <2> QED BY <2>1, Zenon
<1>2. IsFiniteSet(NoLess(fraction, j))
  BY NoLessCounts, Zenon
<1>3. /\ Cardinality(NoLess(fraction, i)) <= Cardinality(NoLess(fraction, j))
      /\ Cardinality(NoLess(fraction, i)) = Cardinality(NoLess(fraction, j))
            => NoLess(fraction, i) = NoLess(fraction, j)
  BY <1>1, <1>2, FS_Subset, Zenon
<1>4. ASSUME NoLess(fraction, i) = NoLess(fraction, j) PROVE i = j
  <2>1. j \in NoLess(fraction, i)
    BY <1>4, NoLessCounts, Zenon
  <2>2. fraction[j] > fraction[i] \/ (fraction[j] = fraction[i] /\ j <= i)
    BY <2>1 DEF NoLess
  <2>3. fraction[i] > fraction[j] \/ (fraction[i] = fraction[j] /\ i <= j)
    BY DEF NoLess
  <2> QED BY <2>2, <2>3
<1> QED BY <1>3, <1>4, NoLessCounts, Zenon

\* Of two proposals one is not after the other.
LEMMA RemainderTotal ==
    ASSUME NEW len \in Nat, NEW fraction \in [1..len -> Nat], NEW i \in 1..len, NEW j \in 1..len
    PROVE  i \in NoLess(fraction, j) \/ j \in NoLess(fraction, i)
<1>1. fraction[i] \in Nat /\ fraction[j] \in Nat /\ DOMAIN fraction = 1..len
  OBVIOUS
<1>2. \/ fraction[i] > fraction[j] \/ (fraction[i] = fraction[j] /\ i <= j)
      \/ fraction[j] > fraction[i] \/ (fraction[j] = fraction[i] /\ j <= i)
  BY <1>1
<1> QED BY <1>1, <1>2, Zenon DEF NoLess

\* The places by remainder are the numbers from one to the length of the list,
\* so as many proposals are among the first as there are places.
LEMMA FirstPlaces ==
    ASSUME NEW len \in Nat, NEW fraction \in [1..len -> Nat], NEW k \in Nat, k <= len
    PROVE  Cardinality({i \in 1..len : ByRemainder(fraction, i) <= k}) = k
<1> DEFINE place == [i \in 1..len |-> ByRemainder(fraction, i)]
           A == {i \in 1..len : ByRemainder(fraction, i) <= k}
           first == [i \in A |-> ByRemainder(fraction, i)]
<1>1. \A i \in 1..len : ByRemainder(fraction, i) \in 1..len
  BY NoLessCounts, Zenon
<1>2. ASSUME NEW i \in 1..len, NEW j \in 1..len, ByRemainder(fraction, i) = ByRemainder(fraction, j)
      PROVE  i = j
  BY <1>2, RemainderTotal, RemainderOrder, Zenon
<1>3. IsFiniteSet(1..len)
  BY Interval, Zenon
<1>4. \A m \in 1..len : \E i \in 1..len : ByRemainder(fraction, i) = m
  <2>1. place \in [1..len -> 1..len] /\ \A i \in 1..len : place[i] = ByRemainder(fraction, i)
    BY <1>1, Zenon
  <2> HIDE DEF place
  <2>2. place \in Injection(1..len, 1..len)
    BY <1>2, <2>1, Zenon DEF Injection, IsInjective
  <2>3. place \in Surjection(1..len, 1..len)
    BY <1>3, <2>2, FS_Injection, Zenon
  <2> QED BY <2>1, <2>3, Zenon DEF Surjection
<1>5. first \in [A -> 1..k] /\ \A i \in A : first[i] = ByRemainder(fraction, i)
  <2>1. ASSUME NEW i \in A PROVE ByRemainder(fraction, i) \in 1..k
    <3>1. ByRemainder(fraction, i) \in 1..len /\ ByRemainder(fraction, i) <= k
      BY <1>1, Zenon
    <3> QED BY <3>1
  <2> QED BY <2>1, Zenon
<1>6. A \in SUBSET (1..len)
  BY Zenon
<1>7. ASSUME NEW m \in 1..k PROVE \E i \in A : first[i] = m
  <2>1. m \in 1..len /\ m <= k
    OBVIOUS
  <2>2. PICK i \in 1..len : ByRemainder(fraction, i) = m
    BY <1>4, <2>1, Zenon
  <2> QED BY <1>5, <2>1, <2>2, Zenon
<1>8. \A i, j \in A : first[i] = first[j] => i = j
  BY <1>2, <1>5, <1>6, Zenon
<1> HIDE DEF A, first
<1>9. IsFiniteSet(A)
  BY <1>3, <1>6, FS_Subset, Zenon
<1>10. Cardinality(1..k) = Cardinality(A)
  BY <1>5, <1>7, <1>8, <1>9, SameSize, Zenon
<1> QED BY <1>10, Interval, Zenon DEF A

\* Proposals without a remainder come after all those with one.
LEMMA NoRemainder ==
    ASSUME NEW len \in Nat, NEW fraction \in [1..len -> Nat], NEW i \in 1..len, fraction[i] = 0
    PROVE  ByRemainder(fraction, i) > Cardinality({j \in 1..len : fraction[j] > 0})
<1> DEFINE A == {j \in 1..len : fraction[j] > 0}
<1>1. A \in SUBSET NoLess(fraction, i) /\ i \notin A
  BY DEF NoLess
<1>2. IsFiniteSet(NoLess(fraction, i)) /\ i \in NoLess(fraction, i)
  BY NoLessCounts, Zenon
<1> HIDE DEF A
<1>3. /\ IsFiniteSet(A) /\ Cardinality(A) <= Cardinality(NoLess(fraction, i))
      /\ Cardinality(A) # Cardinality(NoLess(fraction, i))
  BY <1>1, <1>2, FS_Subset, Zenon
<1>4. Cardinality(A) \in Nat /\ Cardinality(NoLess(fraction, i)) \in Nat
  BY <1>2, <1>3, FS_CardinalityType, Zenon
<1>5. Cardinality(NoLess(fraction, i)) > Cardinality(A)
  BY <1>3, <1>4
<1> QED BY <1>5, NoLessCounts, Zenon DEF A

\* A larger product has the larger quotient, or the same and the larger remainder.
LEMMA DivisionOrder ==
    ASSUME NEW c \in Nat, NEW a \in Nat, NEW b \in Nat, a >= b,
           NEW x \in Nat, NEW y \in Nat, NEW u \in Nat, NEW v \in Nat, u < c,
           a = c * x + u, b = c * y + v
    PROVE  x > y \/ (x = y /\ u >= v)
<1>1. CASE x < y
  <2>1. c * (x + 1) <= c * y
    BY <1>1, Times
  <2>2. c * (x + 1) = c * x + c /\ c * x \in Nat /\ c * y \in Nat
    OBVIOUS
  <2> QED BY <2>1, <2>2
<1>2. CASE x = y
  <2>1. c * x = c * y /\ c * x \in Nat
    BY <1>2
  <2> QED BY <1>2, <2>1
<1> QED BY <1>1, <1>2

\* The leftovers go to as many proposals, all with a remainder, and to a proposal
\* behind another only when it has the larger remainder.
GivenTo(len, left, rest, A) ==
    /\ left \in Nat /\ A \in SUBSET (1..len) /\ Cardinality(A) = left
    /\ \A i \in 1..len :
          Extra(left, len, ByRemainder(rest, i)) = IF i \in A THEN 1 ELSE 0
    /\ \A i \in A : rest[i] # 0
    /\ \A i, j \in 1..len : i < j /\ rest[i] >= rest[j] /\ j \in A => i \in A

\* Who gets the leftovers of the floors.
LEMMA LeftoversGoTo ==
    ASSUME NEW len \in Nat, NEW total \in Nat, NEW s, NEW sum, NEW base, NEW rest,
           Floors(1..len, s, sum, total, base, rest), NEW left, left = total - SumOf(base)
    PROVE  GivenTo(len, left, rest, {i \in 1..len : ByRemainder(rest, i) <= left})
<1> DEFINE P == Fractional(1..len, rest)
           A == {i \in 1..len : ByRemainder(rest, i) <= left}
<1>1. IsFiniteSet(1..len) /\ Cardinality(1..len) = len
  BY Interval, Zenon
<1>2. left \in Nat /\ left <= Cardinality(P)
  <2>1. total - SumOf(base) \in Nat /\ total - SumOf(base) <= Cardinality(P)
    BY <1>1, LeftoverBound, Zenon
  <2> QED BY <2>1, Zenon
<1>3. Cardinality(P) \in Nat /\ Cardinality(P) <= len
  <2>1. P \in SUBSET (1..len)
    BY Zenon DEF Fractional
  <2> HIDE DEF P
  <2>2. IsFiniteSet(P) /\ Cardinality(P) <= Cardinality(1..len)
    BY <1>1, <2>1, FS_Subset, Zenon
  <2> QED BY <1>1, <2>2, FS_CardinalityType, Zenon
<1>4. rest \in [1..len -> Nat]
  BY Zenon DEF Floors
<1>5. left <= len
  <2> HIDE DEF P
  <2> QED BY <1>2, <1>3
<1>6. \A i \in 1..len : ByRemainder(rest, i) \in 1..len
  BY <1>4, NoLessCounts, Zenon
<1>7. /\ A \in SUBSET (1..len) /\ Cardinality(A) = left
      /\ \A i \in 1..len : i \in A <=> ByRemainder(rest, i) <= left
  BY <1>2, <1>4, <1>5, FirstPlaces, Zenon
<1> HIDE DEF A
<1>8. \A i \in 1..len : Extra(left, len, ByRemainder(rest, i)) = IF i \in A THEN 1 ELSE 0
  <2> SUFFICES ASSUME NEW i \in 1..len
               PROVE  Extra(left, len, ByRemainder(rest, i)) = IF i \in A THEN 1 ELSE 0
    BY Zenon
  <2>1. Extra(left, len, ByRemainder(rest, i)) = IF ByRemainder(rest, i) <= left THEN 1 ELSE 0
    BY <1>2, <1>5, <1>6, ExtraIs, Zenon
  <2> QED BY <1>7, <2>1, Zenon
<1>9. ASSUME NEW i \in A, rest[i] = 0 PROVE FALSE
  <2>1. i \in 1..len
    BY <1>7, Zenon
  <2>2. ByRemainder(rest, i) > Cardinality(P)
    BY <1>4, <1>9, <2>1, NoRemainder, Zenon DEF Fractional
  <2>3. ByRemainder(rest, i) \in 1..len /\ ByRemainder(rest, i) <= left
    BY <1>6, <1>7, <2>1, Zenon
  <2> HIDE DEF P
  <2> QED BY <1>2, <1>3, <2>2, <2>3
<1>10. ASSUME NEW i \in 1..len, NEW j \in 1..len, i < j, rest[i] >= rest[j], j \in A
       PROVE  i \in A
  <2>1. i \in NoLess(rest, j)
    BY <1>4, <1>10 DEF NoLess
  <2>2. ByRemainder(rest, i) <= ByRemainder(rest, j)
    BY <1>4, <2>1, RemainderOrder, Zenon
  <2>3. /\ ByRemainder(rest, i) \in 1..len /\ ByRemainder(rest, j) \in 1..len
        /\ ByRemainder(rest, j) <= left
    BY <1>6, <1>7, <1>10, Zenon
  <2>4. ByRemainder(rest, i) <= left
    BY <1>2, <2>2, <2>3
  <2> QED BY <1>7, <2>4, Zenon
<1>11. GivenTo(len, left, rest, A)
  BY <1>2, <1>7, <1>8, <1>9, <1>10, Zenon DEF GivenTo
<1> QED BY <1>11, Zenon DEF A

\* Rounding a share down, or up when it has a remainder, moves it by less than one.
LEMMA LessThanOneOff ==
    ASSUME NEW sum \in Nat, NEW b \in Nat, NEW r \in Nat, r < sum, NEW x, NEW exact,
           exact = sum * b + r, x = b \/ (x = b + 1 /\ r # 0)
    PROVE  -sum < sum * x - exact /\ sum * x - exact < sum
<1>1. sum * b \in Int /\ sum * (b + 1) = sum * b + sum
  OBVIOUS
<1>2. sum * x = sum * b \/ (sum * x = sum * b + sum /\ r # 0)
  BY <1>1, Zenon
<1> QED BY <1>1, <1>2

\* Largest remainders: the whole total is handed out, every share is less than
\* one off its exact value, and a larger score never gets a smaller share.
LEMMA Rounded ==
    ASSUME NEW len \in Nat, NEW total \in Nat, NEW s, NEW sum, NEW base, NEW rest,
           Floors(1..len, s, sum, total, base, rest)
    PROVE  LET sh == [i \in 1..len |->
                         base[i] + Extra(total - SumOf(base), len, ByRemainder(rest, i))]
           IN  /\ sh \in [1..len -> Nat] /\ SumOf(sh) = total
               /\ \A i \in 1..len : /\ -sum < sum * sh[i] - s[i] * total
                                    /\ sum * sh[i] - s[i] * total < sum
               /\ \A i, j \in 1..len : i < j /\ s[i] >= s[j] => sh[i] >= sh[j]
<1> DEFINE sh == [i \in 1..len |->
                     base[i] + Extra(total - SumOf(base), len, ByRemainder(rest, i))]
           left == total - SumOf(base)
           A == {i \in 1..len : ByRemainder(rest, i) <= left}
<1>1. GivenTo(len, left, rest, A)
  BY LeftoversGoTo
<1> HIDE DEF A
<1>2. left \in Nat /\ A \in SUBSET (1..len) /\ Cardinality(A) = left
  BY <1>1, Zenon DEF GivenTo
<1> DEFINE e == [i \in 1..len |-> IF i \in A THEN 1 ELSE 0]
<1>3. /\ e \in [1..len -> Nat] /\ \A i \in 1..len : e[i] = IF i \in A THEN 1 ELSE 0
      /\ \A i \in 1..len : e[i] = 0 \/ e[i] = 1
  <2>1. 0 \in Nat /\ 1 \in Nat
    OBVIOUS
  <2> QED BY <2>1, Zenon
<1>4. /\ \A i \in 1..len : s[i] \in Nat /\ base[i] \in Nat /\ rest[i] \in Nat
      /\ base \in [1..len -> Nat] /\ sum \in Nat
  BY Zenon DEF Floors
<1>5. sh = [i \in 1..len |-> base[i] + e[i]]
  <2>1. \A i \in 1..len : Extra(left, len, ByRemainder(rest, i)) = e[i]
    BY <1>1, <1>3, Zenon DEF GivenTo
  <2> HIDE DEF e
  <2> QED BY <2>1, Zenon
<1>6. IsFiniteSet(1..len)
  BY Interval, Zenon
<1>7. SumOf(e) = left
  <2>1. SumOf(e) = 1 * Cardinality(A)
    BY <1>2, <1>6, SumOn, Zenon
  <2>2. 1 * Cardinality(A) = left
    BY <1>2
  <2> QED BY <2>1, <2>2, Zenon
<1> HIDE DEF sh, e
<1>8. sh \in [1..len -> Nat] /\ \A i \in 1..len : sh[i] = base[i] + e[i]
  <2>1. \A i \in 1..len : base[i] + e[i] \in Nat
    BY <1>3, <1>4
  <2> QED BY <1>5, <2>1, Zenon
<1>9. SumOf(sh) = total
  <2>1. SumOf(sh) = SumOf(base) + SumOf(e)
    BY <1>3, <1>4, <1>5, <1>6, SumAdd, Zenon
  <2>2. SumOf(base) \in Nat
    BY <1>4, <1>6, SumType, Zenon
  <2> QED BY <1>7, <2>1, <2>2
<1>10. ASSUME NEW i \in 1..len
       PROVE  /\ -sum < sum * sh[i] - s[i] * total
              /\ sum * sh[i] - s[i] * total < sum
  <2>1. s[i] * total = sum * base[i] + rest[i] /\ rest[i] < sum
    BY Zenon DEF Floors
  <2>2. base[i] + 0 = base[i]
    BY <1>4
  <2>3. sh[i] = base[i] \/ (sh[i] = base[i] + 1 /\ rest[i] # 0)
    BY <1>1, <1>3, <1>8, <2>2, Zenon DEF GivenTo
  <2> QED BY <1>4, <2>1, <2>3, LessThanOneOff, Zenon
<1>11. ASSUME NEW i \in 1..len, NEW j \in 1..len, i < j, s[i] >= s[j]
       PROVE  sh[i] >= sh[j]
  <2>1. s[i] * total >= s[j] * total /\ s[i] * total \in Nat /\ s[j] * total \in Nat
    <3>1. s[i] \in Nat /\ s[j] \in Nat
      BY <1>4, Zenon
    <3>2. total * s[j] <= total * s[i]
      BY <1>11, <3>1, Times
    <3> QED BY <3>1, <3>2
  <2>2. /\ s[i] * total = sum * base[i] + rest[i] /\ rest[i] < sum
        /\ s[j] * total = sum * base[j] + rest[j]
    BY Zenon DEF Floors
  <2>3. base[i] > base[j] \/ (base[i] = base[j] /\ rest[i] >= rest[j])
    BY <1>4, <2>1, <2>2, DivisionOrder, Zenon
  <2>4. base[i] > base[j] \/ (base[i] = base[j] /\ (j \in A => i \in A))
    BY <1>1, <1>11, <2>3, Zenon DEF GivenTo
  <2>5. base[i] > base[j] \/ (base[i] = base[j] /\ e[i] >= e[j])
    BY <1>3, <2>4
  <2>6. /\ sh[i] = base[i] + e[i] /\ base[i] \in Nat /\ (e[i] = 0 \/ e[i] = 1)
        /\ sh[j] = base[j] + e[j] /\ base[j] \in Nat /\ (e[j] = 0 \/ e[j] = 1)
    BY <1>3, <1>4, <1>8, Zenon
  <2> QED BY <2>5, <2>6
<1> QED BY <1>8, <1>9, <1>10, <1>11, Zenon DEF sh

-----------------------------------------------------------------------------
(* The order of proposals *)

\* No machine proposes twice.
Distinct(list) == \A i, j \in DOMAIN list : list[i].node = list[j].node => i = j

\* What a proposal holds.
LEMMA ProposalFields ==
    ASSUME NEW p \in Proposal
    PROVE  /\ p.task \in Task /\ p.node \in Node
           /\ p.node \in Nat /\ p.score \in Nat /\ p.stamp \in Nat
<1>1. PICK t \in Task : p \in [task : {t}, node : Node, score : Scores[t], stamp : Stamps]
  BY Zenon DEF Proposal
<1>2. p.task = t /\ p.node \in Node /\ p.score \in Scores[t] /\ p.stamp \in Stamps
  BY <1>1
<1>3. Scores[t] \subseteq Nat /\ Stamps \subseteq Nat /\ Node \subseteq Nat
  BY SchedulerAssumption
<1> QED BY <1>2, <1>3

\* Of two machines one comes first.
LEMMA BeforeOrders ==
    ASSUME NEW p \in Proposal, NEW q \in Proposal
    PROVE  /\ ~(Before(p, q) /\ Before(q, p))
           /\ p.node # q.node => Before(p, q) \/ Before(q, p)
           /\ ~Before(p, p)
<1>1. /\ p.node \in Nat /\ p.score \in Nat /\ p.stamp \in Nat
      /\ q.node \in Nat /\ q.score \in Nat /\ q.stamp \in Nat
  BY ProposalFields, Zenon
<1> QED BY <1>1 DEF Before

\* It is transitive.
LEMMA BeforeTransitive ==
    ASSUME NEW p \in Proposal, NEW q \in Proposal, NEW r \in Proposal,
           Before(p, q), Before(q, r)
    PROVE  Before(p, r)
<1>1. /\ p.node \in Nat /\ p.score \in Nat /\ p.stamp \in Nat
      /\ q.node \in Nat /\ q.score \in Nat /\ q.stamp \in Nat
      /\ r.node \in Nat /\ r.score \in Nat /\ r.stamp \in Nat
  BY ProposalFields, Zenon
<1> QED BY <1>1 DEF Before

\* The proposals that are not after the i-th.
UpTo(list, i) == {j \in DOMAIN list : j = i \/ Before(list[j], list[i])}

\* The place of a proposal counts the proposals up to it.
LEMMA PositionCounts ==
    ASSUME NEW list \in Seq(Proposal), Distinct(list), NEW i \in DOMAIN list
    PROVE  /\ Position(list, i) = Cardinality(UpTo(list, i))
           /\ IsFiniteSet(UpTo(list, i))
           /\ Position(list, i) \in 1..Len(list)
<1>1. DOMAIN list = 1..Len(list) /\ Len(list) \in Nat /\ \A j \in DOMAIN list : list[j] \in Proposal
  OBVIOUS
<1>2. ASSUME NEW j \in DOMAIN list
      PROVE  (Before(list[j], list[i]) \/ (~Before(list[i], list[j]) /\ j <= i))
             <=> (j = i \/ Before(list[j], list[i]))
  <2>1. CASE j = i
    <3>1. ~Before(list[i], list[i]) /\ i <= i
      BY <1>1, BeforeOrders
    <3> QED BY <2>1, <3>1, Zenon
  <2>2. CASE j # i
    <3>1. list[j].node # list[i].node
      BY <2>2, Zenon DEF Distinct
    <3>2. Before(list[j], list[i]) \/ Before(list[i], list[j])
      BY <1>1, <3>1, BeforeOrders, Zenon
    <3> QED BY <2>2, <3>2, Zenon
  <2> QED BY <2>1, <2>2, Zenon
<1>3. Position(list, i) = Cardinality(UpTo(list, i))
  <2>1. {j \in DOMAIN list : Before(list[j], list[i]) \/ (~Before(list[i], list[j]) /\ j <= i)}
          = UpTo(list, i)
    BY <1>2, Zenon DEF UpTo
  <2> QED BY <2>1, Zenon DEF Position
<1>4. /\ UpTo(list, i) \in SUBSET (1..Len(list)) /\ i \in UpTo(list, i)
  BY <1>1, Zenon DEF UpTo
<1>5. IsFiniteSet(1..Len(list)) /\ Cardinality(1..Len(list)) = Len(list)
  BY <1>1, Interval, Zenon
<1>6. IsFiniteSet(UpTo(list, i)) /\ Cardinality(UpTo(list, i)) <= Len(list)
  BY <1>4, <1>5, FS_Subset, Zenon
<1>7. Cardinality(UpTo(list, i)) \in Nat /\ Cardinality(UpTo(list, i)) # 0
  BY <1>4, <1>6, FS_CardinalityType, FS_EmptySet, Zenon
<1>8. Cardinality(UpTo(list, i)) \in 1..Len(list)
  BY <1>1, <1>6, <1>7
<1> QED BY <1>3, <1>6, <1>8, Zenon

\* A proposal before another has the smaller place.
LEMMA PositionOrder ==
    ASSUME NEW list \in Seq(Proposal), Distinct(list),
           NEW i \in DOMAIN list, NEW j \in DOMAIN list, Before(list[i], list[j])
    PROVE  Position(list, i) < Position(list, j)
<1>1. \A k \in DOMAIN list : list[k] \in Proposal
  OBVIOUS
<1>2. UpTo(list, i) \in SUBSET UpTo(list, j)
  <2>1. ASSUME NEW k \in UpTo(list, i) PROVE k \in UpTo(list, j)
    <3>1. k \in DOMAIN list /\ (k = i \/ Before(list[k], list[i]))
      BY Zenon DEF UpTo
    <3>2. Before(list[k], list[j])
      BY <1>1, <3>1, BeforeTransitive, Zenon
    <3> QED BY <3>1, <3>2, Zenon DEF UpTo
  <2> QED BY <2>1, Zenon
<1>3. j \in UpTo(list, j)
  BY Zenon DEF UpTo
<1>4. j \notin UpTo(list, i)
  <2>1. ~Before(list[j], list[i]) /\ ~Before(list[i], list[i])
    BY <1>1, BeforeOrders, Zenon
  <2> QED BY <2>1, Zenon DEF UpTo
<1>5. UpTo(list, i) # UpTo(list, j)
  BY <1>3, <1>4, Zenon
<1>6. /\ Cardinality(UpTo(list, i)) <= Cardinality(UpTo(list, j))
      /\ Cardinality(UpTo(list, j)) # Cardinality(UpTo(list, i))
  BY <1>2, <1>5, PositionCounts, FS_Subset, Zenon
<1>7. /\ Position(list, i) <= Position(list, j) /\ Position(list, i) # Position(list, j)
      /\ Position(list, i) \in 1..Len(list) /\ Position(list, j) \in 1..Len(list)
  BY <1>6, PositionCounts, Zenon
<1> QED BY <1>7

\* The places are the numbers from one to the length of the list.
LEMMA PositionOnto ==
    ASSUME NEW list \in Seq(Proposal), Distinct(list)
    PROVE  /\ \A i, j \in DOMAIN list : Position(list, i) = Position(list, j) => i = j
           /\ \A k \in DOMAIN list : \E i \in DOMAIN list : Position(list, i) = k
<1>1. DOMAIN list = 1..Len(list) /\ Len(list) \in Nat /\ \A j \in DOMAIN list : list[j] \in Proposal
  OBVIOUS
<1>2. ASSUME NEW i \in DOMAIN list, NEW j \in DOMAIN list, Before(list[i], list[j])
      PROVE  Position(list, i) # Position(list, j)
  <2>1. Position(list, i) < Position(list, j)
    BY <1>2, PositionOrder, Zenon
  <2>2. Position(list, i) \in 1..Len(list) /\ Position(list, j) \in 1..Len(list)
    BY PositionCounts, Zenon
  <2> QED BY <2>1, <2>2
<1>3. ASSUME NEW i \in DOMAIN list, NEW j \in DOMAIN list, Position(list, i) = Position(list, j)
      PROVE  i = j
  <2>1. CASE i # j
    <3>1. list[i].node # list[j].node
      BY <2>1, Zenon DEF Distinct
    <3>2. Before(list[i], list[j]) \/ Before(list[j], list[i])
      BY <1>1, <3>1, BeforeOrders, Zenon
    <3> QED BY <1>2, <1>3, <3>2, Zenon
  <2> QED BY <2>1, Zenon
<1> DEFINE place == [i \in 1..Len(list) |-> Position(list, i)]
<1>4. place \in Injection(1..Len(list), 1..Len(list))
  <2>1. \A i \in 1..Len(list) : place[i] = Position(list, i)
    BY Zenon
  <2>2. place \in [1..Len(list) -> 1..Len(list)]
    BY <1>1, PositionCounts, Zenon
  <2> HIDE DEF place
  <2>3. \A i, j \in 1..Len(list) : place[i] = place[j] => i = j
    BY <1>1, <1>3, <2>1, Zenon
  <2> QED BY <2>2, <2>3, Zenon DEF Injection, IsInjective
<1>5. IsFiniteSet(1..Len(list))
  BY <1>1, Interval, Zenon
<1>6. place \in Surjection(1..Len(list), 1..Len(list))
  BY <1>4, <1>5, FS_Injection, Zenon
<1>7. \A k \in 1..Len(list) : \E i \in 1..Len(list) : place[i] = k
  <2> HIDE DEF place
  <2> QED BY <1>6, Zenon DEF Surjection
<1> QED BY <1>1, <1>3, <1>7, Zenon

\* The sorted list holds at its k-th place the proposal whose place is k.
LEMMA RankedAt ==
    ASSUME NEW list \in Seq(Proposal), Distinct(list), NEW i \in DOMAIN list
    PROVE  /\ Position(list, i) \in DOMAIN Ranked(list)
           /\ Ranked(list)[Position(list, i)] = list[i]
<1>1. DOMAIN list = 1..Len(list) /\ DOMAIN Ranked(list) = DOMAIN list
  BY DEF Ranked
<1>2. Position(list, i) \in DOMAIN list
  BY <1>1, PositionCounts, Zenon
<1>3. (CHOOSE x \in DOMAIN list : Position(list, x) = Position(list, i)) = i
  BY PositionOnto, Zenon
<1> QED BY <1>1, <1>2, <1>3, Zenon DEF Ranked

\* Sorting changes neither the proposals nor their number.
LEMMA RankedKeeps ==
    ASSUME NEW list \in Seq(Proposal), Distinct(list)
    PROVE  /\ Ranked(list) \in Seq(Proposal)
           /\ Len(Ranked(list)) = Len(list)
           /\ Range(Ranked(list)) = Range(list)
           /\ Distinct(Ranked(list))
<1>1. /\ DOMAIN list = 1..Len(list) /\ Len(list) \in Nat
      /\ \A j \in DOMAIN list : list[j] \in Proposal
  OBVIOUS
<1>2. ASSUME NEW k \in DOMAIN list
      PROVE  \E i \in DOMAIN list : Position(list, i) = k /\ Ranked(list)[k] = list[i]
  <2>1. PICK i \in DOMAIN list : Position(list, i) = k
    BY PositionOnto, Zenon
  <2>2. Ranked(list)[Position(list, i)] = list[i]
    BY RankedAt, Zenon
  <2> QED BY <2>1, <2>2, Zenon
<1>3. DOMAIN Ranked(list) = DOMAIN list /\ Ranked(list) = [k \in DOMAIN list |-> Ranked(list)[k]]
  BY DEF Ranked
<1>4. Ranked(list) \in [1..Len(list) -> Proposal]
  BY <1>1, <1>2, <1>3, Zenon
<1>5. Ranked(list) \in Seq(Proposal) /\ Len(Ranked(list)) = Len(list)
  BY <1>1, <1>4
<1>6. Range(Ranked(list)) = Range(list)
  <2>1. ASSUME NEW i \in DOMAIN list PROVE list[i] \in Range(Ranked(list))
    BY RankedAt, Zenon DEF Range
  <2>2. ASSUME NEW k \in DOMAIN list PROVE Ranked(list)[k] \in Range(list)
    BY <1>2, Zenon DEF Range
  <2> QED BY <1>3, <2>1, <2>2, Zenon DEF Range
<1>7. Distinct(Ranked(list))
  <2>1. ASSUME NEW k \in DOMAIN list, NEW l \in DOMAIN list,
               Ranked(list)[k].node = Ranked(list)[l].node
        PROVE  k = l
    <3>1. PICK i \in DOMAIN list : Position(list, i) = k /\ Ranked(list)[k] = list[i]
      BY <1>2, Zenon
    <3>2. PICK j \in DOMAIN list : Position(list, j) = l /\ Ranked(list)[l] = list[j]
      BY <1>2, Zenon
    <3>3. i = j
      BY <2>1, <3>1, <3>2, Zenon DEF Distinct
    <3> QED BY <3>1, <3>2, <3>3, Zenon
  <2> QED BY <1>3, <2>1, Zenon DEF Distinct
<1> QED BY <1>5, <1>6, <1>7, Zenon

\* A place depends on which proposals there are, not on where they stand.
LEMMA PositionOfProposal ==
    ASSUME NEW list \in Seq(Proposal), Distinct(list), NEW i \in DOMAIN list
    PROVE  Position(list, i)
             = Cardinality({p \in Range(list) : p = list[i] \/ Before(p, list[i])})
<1> DEFINE T == {p \in Range(list) : p = list[i] \/ Before(p, list[i])}
           at == [j \in UpTo(list, i) |-> list[j]]
<1>1. \A j \in UpTo(list, i) : j \in DOMAIN list /\ list[j] \in T
  BY Zenon DEF UpTo, Range
<1>2. at \in [UpTo(list, i) -> T]
  BY <1>1, Zenon
<1>3. \A j, k \in DOMAIN list : list[j] = list[k] => j = k
  BY Zenon DEF Distinct
<1>4. \A j, k \in UpTo(list, i) : at[j] = at[k] => j = k
  BY <1>1, <1>3, Zenon
<1>5. \A p \in T : \E j \in UpTo(list, i) : at[j] = p
  <2>1. ASSUME NEW p \in T PROVE \E j \in UpTo(list, i) : list[j] = p
    <3>1. PICK j \in DOMAIN list : list[j] = p
      BY Zenon DEF Range
    <3>2. p = list[i] \/ Before(p, list[i])
      BY Zenon
    <3>3. j \in UpTo(list, i)
      BY <1>3, <3>1, <3>2, Zenon DEF UpTo
    <3> QED BY <3>1, <3>3, Zenon
  <2> QED BY <2>1, Zenon
<1> HIDE DEF T, at
<1>6. at \in Bijection(UpTo(list, i), T)
  BY <1>2, <1>4, <1>5, Zenon DEF Bijection, Injection, IsInjective, Surjection
<1>7. ExistsBijection(UpTo(list, i), T)
  BY <1>6, Zenon DEF ExistsBijection
<1>8. Cardinality(T) = Cardinality(UpTo(list, i))
  BY <1>7, PositionCounts, FS_Bijection, Zenon
<1> QED BY <1>8, PositionCounts, Zenon DEF T

\* Lists of the same proposals are sorted into the same list.
LEMMA RankedSame ==
    ASSUME NEW a \in Seq(Proposal), Distinct(a), NEW b \in Seq(Proposal), Distinct(b),
           Range(a) = Range(b)
    PROVE  Ranked(a) = Ranked(b)
<1>1. ASSUME NEW i \in DOMAIN a, NEW j \in DOMAIN b, a[i] = b[j]
      PROVE  Position(a, i) = Position(b, j)
  <2>1. {p \in Range(a) : p = a[i] \/ Before(p, a[i])}
          = {p \in Range(b) : p = b[j] \/ Before(p, b[j])}
    BY <1>1, Zenon
  <2> QED BY <2>1, PositionOfProposal, Zenon
<1>2. ASSUME NEW k \in DOMAIN Ranked(a)
      PROVE  k \in DOMAIN Ranked(b) /\ Ranked(b)[k] = Ranked(a)[k]
  <2>0. DOMAIN Ranked(a) = DOMAIN a
    BY Zenon DEF Ranked
  <2>1. PICK i \in DOMAIN a : Position(a, i) = k
    BY <2>0, PositionOnto, Zenon
  <2>2. PICK j \in DOMAIN b : b[j] = a[i]
    BY Zenon DEF Range
  <2>3. Position(b, j) = k
    BY <1>1, <2>1, <2>2, Zenon
  <2>4. Ranked(a)[Position(a, i)] = a[i]
    BY RankedAt, Zenon
  <2>5. Position(b, j) \in DOMAIN Ranked(b) /\ Ranked(b)[Position(b, j)] = b[j]
    BY RankedAt, Zenon
  <2> QED BY <2>1, <2>2, <2>3, <2>4, <2>5, Zenon
<1>3. ASSUME NEW k \in DOMAIN Ranked(b)
      PROVE  k \in DOMAIN Ranked(a)
  <2>0. DOMAIN Ranked(b) = DOMAIN b
    BY Zenon DEF Ranked
  <2>1. PICK j \in DOMAIN b : Position(b, j) = k
    BY <2>0, PositionOnto, Zenon
  <2>2. PICK i \in DOMAIN a : a[i] = b[j]
    BY Zenon DEF Range
  <2>3. Position(a, i) = k
    BY <1>1, <2>1, <2>2, Zenon
  <2>4. Position(a, i) \in DOMAIN Ranked(a)
    BY RankedAt, Zenon
  <2> QED BY <2>3, <2>4, Zenon
<1>4. DOMAIN Ranked(a) = DOMAIN Ranked(b)
  BY <1>2, <1>3, Zenon
<1>5. /\ Ranked(a) = [k \in DOMAIN Ranked(a) |-> Ranked(a)[k]]
      /\ Ranked(b) = [k \in DOMAIN Ranked(b) |-> Ranked(b)[k]]
  BY DEF Ranked
<1> QED BY <1>2, <1>4, <1>5, Zenon

-----------------------------------------------------------------------------
(* What a round gives to whom *)

\* The replicas of each proposal, as assignReplicas computes them.
Handed(total, list) ==
    IF SumScores(list) = 0 THEN OneEach(total, list) ELSE Shares(total, list)

\* The list of a round with its scores.
LEMMA ListScores ==
    ASSUME NEW list \in Seq(Proposal)
    PROVE  /\ DOMAIN list = 1..Len(list) /\ Len(list) \in Nat /\ IsFiniteSet(DOMAIN list)
           /\ \A i \in DOMAIN list : list[i] \in Proposal /\ list[i].score \in Nat
           /\ [i \in DOMAIN list |-> list[i].score] \in [DOMAIN list -> Nat]
           /\ SumScores(list) \in Nat
<1>1. DOMAIN list = 1..Len(list) /\ Len(list) \in Nat /\ \A i \in DOMAIN list : list[i] \in Proposal
  OBVIOUS
<1>2. IsFiniteSet(DOMAIN list) /\ \A i \in DOMAIN list : list[i].score \in Nat
  BY <1>1, Interval, ProposalFields, Zenon
<1>3. [i \in DOMAIN list |-> list[i].score] \in [DOMAIN list -> Nat]
  BY <1>2, Zenon
<1>4. SumScores(list) \in Nat
  BY <1>2, <1>3, SumType, Zenon DEF SumScores
<1> QED BY <1>1, <1>2, <1>3, <1>4, Zenon

\* What the replicas r of the proposals of a list are: naturals, in all p of them,
\* less than one off the exact shares, and in the order of the scores.
Fair(list, total, r) ==
    /\ SumScores(list) # 0 =>
          \A i \in DOMAIN list :
             /\ -SumScores(list) < SumScores(list) * r[i] - list[i].score * total
             /\ SumScores(list) * r[i] - list[i].score * total < SumScores(list)
    /\ \A i, j \in DOMAIN list : i < j /\ list[i].score >= list[j].score => r[i] >= r[j]

\* What a round places in all.
InAll(list, total) == IF SumScores(list) > 0 THEN total ELSE Least(total, Len(list))

\* Without scores.
LEMMA OneEachFair ==
    ASSUME NEW total \in Nat, NEW list \in Seq(Proposal), SumScores(list) = 0
    PROVE  /\ OneEach(total, list) \in [DOMAIN list -> Nat]
           /\ SumOf(OneEach(total, list)) = InAll(list, total)
           /\ Fair(list, total, OneEach(total, list))
<1> DEFINE D == DOMAIN list
           A == 1..Least(total, Len(list))
           f == [i \in D |-> IF i \in A THEN 1 ELSE 0]
<1>1. D = 1..Len(list) /\ Len(list) \in Nat /\ IsFiniteSet(D)
  BY ListScores, Zenon
<1>2. Least(total, Len(list)) \in Nat /\ A \in SUBSET D
      /\ \A i \in D : i <= total <=> i \in A
  BY <1>1 DEF Least
<1> HIDE DEF D
<1>3. OneEach(total, list) = f
  BY <1>2, Zenon DEF OneEach, D
<1>4. Cardinality(A) = Least(total, Len(list))
  BY <1>2, Interval, Zenon
<1>5. SumOf(f) = 1 * Cardinality(A)
  <2> HIDE DEF A
  <2> QED BY <1>1, <1>2, SumOn, Zenon
<1>6. SumOf(f) = Least(total, Len(list))
  <2> HIDE DEF A, f
  <2> QED BY <1>2, <1>4, <1>5
<1>7. f \in [D -> Nat] /\ \A i \in D : f[i] = IF i \in A THEN 1 ELSE 0
  <2>1. 0 \in Nat /\ 1 \in Nat
    OBVIOUS
  <2> QED BY <2>1, Zenon
<1>8. InAll(list, total) = Least(total, Len(list))
  BY DEF InAll
<1> HIDE DEF f
<1>9. ASSUME NEW i \in D, NEW j \in D, i < j PROVE f[i] >= f[j]
  BY <1>1, <1>2, <1>7, <1>9
<1>10. Fair(list, total, f)
  BY <1>9, Zenon DEF Fair, D
<1> QED BY <1>3, <1>6, <1>7, <1>8, <1>10, Zenon DEF D

\* With scores: the floors and the leftovers.
LEMMA SharesFair ==
    ASSUME NEW total \in Nat, NEW list \in Seq(Proposal), SumScores(list) # 0
    PROVE  /\ Shares(total, list) \in [DOMAIN list -> Nat]
           /\ SumOf(Shares(total, list)) = InAll(list, total)
           /\ Fair(list, total, Shares(total, list))
<1> DEFINE len == Len(list)
           sum == SumScores(list)
           s == [i \in 1..len |-> list[i].score]
           base == [i \in 1..len |-> (list[i].score * total) \div sum]
           rest == [i \in 1..len |-> (list[i].score * total) % sum]
           sh == [i \in 1..len |->
                     base[i] + Extra(total - SumOf(base), len, ByRemainder(rest, i))]
<1>1. /\ DOMAIN list = 1..len /\ len \in Nat /\ IsFiniteSet(DOMAIN list) /\ sum \in Nat
      /\ \A i \in 1..len : list[i].score \in Nat
      /\ sum # 0
  BY ListScores, Zenon
<1>2. sum = SumOf(s) /\ Shares(total, list) = sh
  BY <1>1, Zenon DEF SumScores, Shares
<1> HIDE DEF len, sum
<1>3. Floors(1..len, s, sum, total, base, rest)
  <2>1. ASSUME NEW i \in 1..len
        PROVE  LET a == list[i].score * total
               IN  a \div sum \in Nat /\ a % sum \in Nat /\ a % sum < sum /\ a = sum * (a \div sum) + (a % sum)
    <3>1. list[i].score * total \in Nat
      <4>1. list[i].score \in Nat
        BY <1>1, Zenon
      <4> QED BY <4>1
    <3> QED BY <1>1, <3>1, Division, Zenon
  <2>2. /\ base \in [1..len -> Nat] /\ rest \in [1..len -> Nat] /\ s \in [1..len -> Nat]
    BY <1>1, <2>1, Zenon
  <2>3. \A i \in 1..len : s[i] * total = sum * base[i] + rest[i] /\ rest[i] < sum
    BY <2>1, Zenon
  <2> HIDE DEF base, rest, s
  <2> QED BY <1>1, <1>2, <2>2, <2>3, Zenon DEF Floors
<1> HIDE DEF base, rest
<1>4. \A i \in 1..len : s[i] = list[i].score
  BY Zenon
<1> HIDE DEF s
<1>5. /\ sh \in [1..len -> Nat] /\ SumOf(sh) = total
      /\ \A i \in 1..len : -sum < sum * sh[i] - s[i] * total /\ sum * sh[i] - s[i] * total < sum
      /\ \A i, j \in 1..len : i < j /\ s[i] >= s[j] => sh[i] >= sh[j]
  BY <1>1, <1>3, Rounded, Zenon
<1>6. InAll(list, total) = total
  <2>1. sum > 0
    BY <1>1
  <2> QED BY <2>1, Zenon DEF InAll, sum
<1> HIDE DEF sh
<1>7. Fair(list, total, sh)
  BY <1>1, <1>4, <1>5, Zenon DEF Fair, sum
<1> QED BY <1>1, <1>2, <1>5, <1>6, <1>7, Zenon

\* In both cases the shares are fair and nothing is left over.
LEMMA HandedFair ==
    ASSUME NEW total \in Nat, NEW list \in Seq(Proposal)
    PROVE  /\ Handed(total, list) \in [DOMAIN list -> Nat]
           /\ SumOf(Handed(total, list)) = InAll(list, total)
           /\ Fair(list, total, Handed(total, list))
BY OneEachFair, SharesFair, Zenon DEF Handed

\* Every machine of a round gets a natural number of replicas.
LEMMA AssignType ==
    ASSUME NEW total \in Nat, NEW list \in Seq(Proposal)
    PROVE  AssignReplicas(total, list, Node) \in [Node -> Nat]
<1> DEFINE D == DOMAIN list
           r == Handed(total, list)
<1>1. IsFiniteSet(D) /\ r \in [D -> Nat]
  BY ListScores, HandedFair, Zenon
<1>2. AssignReplicas(total, list, Node)
        = [n \in Node |-> SumOf([i \in {i \in D : list[i].node = n} |-> r[i]])]
  BY Zenon DEF AssignReplicas, Handed
<1> HIDE DEF D, r
<1>3. ASSUME NEW n \in Node
      PROVE  SumOf([i \in {i \in D : list[i].node = n} |-> r[i]]) \in Nat
  <2>1. IsFiniteSet({i \in D : list[i].node = n})
    BY <1>1, FS_Subset
  <2>2. [i \in {i \in D : list[i].node = n} |-> r[i]] \in [{i \in D : list[i].node = n} -> Nat]
    BY <1>1, Zenon
  <2> QED BY <2>1, <2>2, SumType, Zenon
<1> QED BY <1>2, <1>3, Zenon

\* The sorted list has the scores in descending order.
LEMMA RankedSorted ==
    ASSUME NEW list \in Seq(Proposal), Distinct(list),
           NEW i \in DOMAIN Ranked(list), NEW j \in DOMAIN Ranked(list), i < j
    PROVE  Ranked(list)[i].score >= Ranked(list)[j].score
<1>1. DOMAIN Ranked(list) = DOMAIN list
  BY Zenon DEF Ranked
<1>2. PICK a \in DOMAIN list : Position(list, a) = i
  BY <1>1, PositionOnto, Zenon
<1>3. PICK b \in DOMAIN list : Position(list, b) = j
  BY <1>1, PositionOnto, Zenon
<1>4. Ranked(list)[i] = list[a] /\ Ranked(list)[j] = list[b]
  BY <1>2, <1>3, RankedAt, Zenon
<1>5. list[a].score \in Nat /\ list[b].score \in Nat
  BY ListScores, Zenon
<1>6. ~Before(list[b], list[a])
  <2>1. ASSUME Before(list[b], list[a]) PROVE j < i
    BY <1>2, <1>3, <2>1, PositionOrder, Zenon
  <2>2. i \in Int /\ j \in Int
    BY <1>1
  <2> QED BY <2>1, <2>2
<1>7. ~(list[b].score > list[a].score)
  BY <1>6, Zenon DEF Before
<1> QED BY <1>4, <1>5, <1>7

\* The proposals of a machine, one or none, decide what the machine gets.
LEMMA ReplicasOf ==
    ASSUME NEW total \in Nat, NEW list \in Seq(Proposal), Distinct(list)
    PROVE  /\ \A i \in DOMAIN list :
                 AssignReplicas(total, list, Node)[list[i].node] = Handed(total, list)[i]
           /\ \A m \in Node :
                 (\A i \in DOMAIN list : list[i].node # m) => AssignReplicas(total, list, Node)[m] = 0
<1> DEFINE r == Handed(total, list)
           at(m) == {i \in DOMAIN list : list[i].node = m}
<1>1. r \in [DOMAIN list -> Nat]
  BY HandedFair, Zenon
<1>2. \A m \in Node : AssignReplicas(total, list, Node)[m] = SumOf([i \in at(m) |-> r[i]])
  BY Zenon DEF AssignReplicas, Handed
<1> HIDE DEF r
<1>3. ASSUME NEW i \in DOMAIN list
      PROVE  AssignReplicas(total, list, Node)[list[i].node] = r[i]
  <2>1. at(list[i].node) = {i}
    BY Zenon DEF Distinct
  <2>2. list[i].node \in Node
    BY ListScores, ProposalFields, Zenon
  <2>3. r[i] \in Nat /\ IsFiniteSet({i}) /\ Cardinality({i}) = 1
    BY <1>1, FS_Singleton, Zenon
  <2>4. [x \in {i} |-> r[x]] = [x \in {i} |-> IF x \in {i} THEN r[i] ELSE 0]
    BY Zenon
  <2>5. SumOf([x \in {i} |-> IF x \in {i} THEN r[i] ELSE 0]) = r[i] * Cardinality({i})
    BY <2>3, SumOn, Zenon
  <2>6. r[i] * Cardinality({i}) = r[i]
    BY <2>3
  <2> QED BY <1>2, <2>1, <2>2, <2>4, <2>5, <2>6, Zenon
<1>4. ASSUME NEW m \in Node, \A i \in DOMAIN list : list[i].node # m
      PROVE  AssignReplicas(total, list, Node)[m] = 0
  <2>1. at(m) = {}
    BY <1>4, Zenon
  <2>2. [i \in {} |-> r[i]] = [i \in {} |-> 0]
    BY Zenon
  <2>3. SumOf([i \in {} |-> 0]) = 0
    BY SumZero, FS_EmptySet, Zenon
  <2> QED BY <1>2, <2>1, <2>2, <2>3, Zenon
<1> QED BY <1>3, <1>4, Zenon DEF r

\* All machines together get what the proposals get.
LEMMA GivenInAll ==
    ASSUME NEW total \in Nat, NEW list \in Seq(Proposal), Distinct(list)
    PROVE  /\ AssignReplicas(total, list, Node) \in [Node -> Nat]
           /\ SumOf(AssignReplicas(total, list, Node)) = InAll(list, total)
<1> DEFINE r == Handed(total, list)
           g == AssignReplicas(total, list, Node)
           b == [u \in Units(r) |-> <<list[u[1]].node, u[2]>>]
<1>1. g \in [Node -> Nat]
  BY AssignType, Zenon
<1>2. r \in [DOMAIN list -> Nat] /\ SumOf(r) = InAll(list, total)
  BY HandedFair, Zenon
<1>3. IsFiniteSet(Units(r))
  BY <1>2, ListScores, SumType, Zenon
<1>4. \A i \in DOMAIN list : g[list[i].node] = r[i] /\ list[i].node \in Node
  BY ReplicasOf, ListScores, ProposalFields, Zenon
<1>5. \A m \in Node : g[m] # 0 => \E i \in DOMAIN list : list[i].node = m
  BY ReplicasOf, Zenon
<1> HIDE DEF r, g
<1>6. \A u \in Units(r) : u = <<u[1], u[2]>> /\ u[1] \in DOMAIN list /\ u[2] \in 1..r[u[1]]
  BY <1>2, UnitForm, Zenon
<1>7. b \in [Units(r) -> Units(g)]
  <2>1. ASSUME NEW u \in Units(r) PROVE <<list[u[1]].node, u[2]>> \in Units(g)
    BY <1>1, <1>4, <1>6, UnitIn, Zenon
  <2> QED BY <2>1, Zenon
<1>8. \A u \in Units(r) : b[u] = <<list[u[1]].node, u[2]>>
  BY Zenon
<1> HIDE DEF b
<1>9. ASSUME NEW u \in Units(r), NEW v \in Units(r), b[u] = b[v] PROVE u = v
  <2>1. list[u[1]].node = list[v[1]].node /\ u[2] = v[2]
    BY <1>8, <1>9
  <2>2. u[1] = v[1]
    BY <1>6, <2>1, Zenon DEF Distinct
  <2> QED BY <1>6, <2>1, <2>2, Zenon
<1>10. ASSUME NEW w \in Units(g) PROVE \E u \in Units(r) : b[u] = w
  <2>1. w = <<w[1], w[2]>> /\ w[1] \in Node /\ w[2] \in 1..g[w[1]]
    BY <1>1, UnitForm, Zenon
  <2>2. g[w[1]] # 0
    <3>1. g[w[1]] \in Nat
      BY <1>1, <2>1, Zenon
    <3> QED BY <2>1, <3>1
  <2>3. PICK i \in DOMAIN list : list[i].node = w[1]
    BY <1>5, <2>1, <2>2, Zenon
  <2>4. w[2] \in 1..r[i]
    BY <1>4, <2>1, <2>3, Zenon
  <2>5. <<i, w[2]>> \in Units(r)
    BY <1>2, <2>4, UnitIn, Zenon
  <2>6. b[<<i, w[2]>>] = <<list[i].node, w[2]>>
    BY <1>8, <2>5
  <2> QED BY <2>1, <2>3, <2>5, <2>6, Zenon
<1>11. Cardinality(Units(g)) = Cardinality(Units(r))
  BY <1>3, <1>7, <1>9, <1>10, SameSize, Zenon
<1> QED BY <1>1, <1>2, <1>11, Zenon DEF SumOf, g

-----------------------------------------------------------------------------
(* The rounds *)

\* Every proposal was made, once and for all, by its machine.
Made(p) == p \in own[p.node][p.task]

\* Types, apart from the bound of the channel.
Shape ==
    /\ round \in [Node -> [Task -> {"idle", "collecting", "done"}]]
    /\ own \in [Node -> [Task -> SUBSET Proposal]]
    /\ props \in [Node -> [Task -> Seq(Proposal)]]
    /\ given \in [Node -> [Task -> [Node -> Nat]]]
    /\ net \in [Node -> SUBSET Proposal]
    /\ intake \in [Node -> Seq(Proposal)]
    /\ orders \in [Node -> [Task -> Nat]]
    /\ copies \in [Node -> [Task -> Nat]]

OwnOnce ==
    \A n \in Node, t \in Task :
        /\ own[n][t] = {} <=> round[n][t] = "idle"
        /\ \A p, q \in own[n][t] : p = q
        /\ \A p \in own[n][t] : p.node = n /\ p.task = t

\* What a machine still has to hear, has heard, and a round of it has collected.
Heard(n) == Range(intake[n])

Collected(n, t) == Range(props[n][t])

AllMade ==
    \A n \in Node :
        /\ \A p \in net[n] \union Heard(n) : Made(p)
        /\ \A t \in Task : \A p \in Collected(n, t) : p.task = t /\ Made(p)

Once(list) == \A i, j \in DOMAIN list : list[i] = list[j] => i = j

\* A proposal reaches a machine once, and is collected once.
ArrivesOnce ==
    \A n \in Node :
        /\ net[n] \intersect Heard(n) = {}
        /\ Once(intake[n])
        /\ \A t \in Task :
              /\ Distinct(props[n][t])
              /\ round[n][t] # "done" =>
                    Collected(n, t) \intersect (net[n] \union Heard(n)) = {}

\* A finished round decided on a sorted list, which is not empty.
Decided ==
    \A n \in Node, t \in Task : round[n][t] = "done" =>
        /\ given[n][t] = AssignReplicas(Total(t), props[n][t], Node)
        /\ Range(props[n][t]) # {}
        /\ \E list \in Seq(Proposal) :
              /\ Distinct(list) /\ props[n][t] = Ranked(list)
              /\ Range(list) = Range(props[n][t])

Buffered == \A n \in Node : Len(intake[n]) <= MaxBufferedProps

IInv == Shape /\ OwnOnce /\ AllMade /\ ArrivesOnce /\ Decided /\ Buffered

\* An assignment to one round leaves the others alone.
LEMMA Update ==
    ASSUME NEW S, NEW f \in [Node -> [Task -> S]], NEW n \in Node, NEW t \in Task, NEW v \in S,
           NEW g, g = [f EXCEPT ![n][t] = v]
    PROVE  /\ g \in [Node -> [Task -> S]] /\ g[n][t] = v
           /\ \A m \in Node, u \in Task : m # n \/ u # t => g[m][u] = f[m][u]
OBVIOUS

\* A channel or list with one more element.
LEMMA AppendForm ==
    ASSUME NEW S, NEW list \in Seq(S), NEW x \in S
    PROVE  /\ Append(list, x) \in Seq(S)
           /\ Len(Append(list, x)) = Len(list) + 1
           /\ Range(Append(list, x)) = Range(list) \union {x}
           /\ Once(list) /\ x \notin Range(list) => Once(Append(list, x))
<1> DEFINE new == Append(list, x)
<1>1. /\ new \in Seq(S) /\ Len(new) = Len(list) + 1
      /\ DOMAIN list = 1..Len(list) /\ DOMAIN new = 1..(Len(list) + 1) /\ Len(list) \in Nat
      /\ \A i \in 1..Len(list) : new[i] = list[i]
      /\ new[Len(list) + 1] = x
  OBVIOUS
<1> HIDE DEF new
<1>2. /\ \A i \in DOMAIN new : i \in DOMAIN list \/ i = Len(list) + 1
      /\ \A i \in DOMAIN list : i \in DOMAIN new /\ i # Len(list) + 1
      /\ Len(list) + 1 \in DOMAIN new
  BY <1>1
<1>3. Range(new) = Range(list) \union {x}
  BY <1>1, <1>2 DEF Range
<1>4. ASSUME Once(list), x \notin Range(list) PROVE Once(new)
  BY <1>1, <1>2, <1>4 DEF Once, Range
<1> QED BY <1>1, <1>3, <1>4, Zenon DEF new

\* A channel without its head.
LEMMA TailForm ==
    ASSUME NEW S, NEW list \in Seq(S), list # <<>>
    PROVE  /\ Tail(list) \in Seq(S) /\ Head(list) \in S
           /\ Len(Tail(list)) <= Len(list)
           /\ Range(list) = Range(Tail(list)) \union {Head(list)}
           /\ Once(list) => Once(Tail(list)) /\ Head(list) \notin Range(Tail(list))
<1> DEFINE new == Tail(list)
           h == Head(list)
<1>1. /\ new \in Seq(S) /\ Len(new) = Len(list) - 1 /\ h \in S
      /\ DOMAIN list = 1..Len(list) /\ DOMAIN new = 1..(Len(list) - 1)
      /\ Len(list) \in Nat /\ Len(list) # 0
      /\ \A i \in 1..(Len(list) - 1) : new[i] = list[i + 1]
      /\ h = list[1]
  OBVIOUS
<1> HIDE DEF new, h
<1>2. /\ \A i \in DOMAIN new : i + 1 \in DOMAIN list /\ i + 1 # 1 /\ new[i] = list[i + 1]
      /\ \A i, j \in DOMAIN new : i + 1 = j + 1 => i = j
      /\ \A i \in DOMAIN list : i = 1 \/ (i - 1 \in DOMAIN new /\ list[i] = new[i - 1])
      /\ 1 \in DOMAIN list /\ Len(new) <= Len(list)
  <2>1. ASSUME NEW i \in DOMAIN list, i # 1 PROVE i - 1 \in DOMAIN new /\ list[i] = new[i - 1]
    <3>1. i - 1 \in 1..(Len(list) - 1) /\ (i - 1) + 1 = i
      BY <1>1, <2>1
    <3> QED BY <1>1, <3>1
  <2>2. ASSUME NEW i \in DOMAIN new PROVE i + 1 \in DOMAIN list /\ i + 1 # 1 /\ new[i] = list[i + 1]
    BY <1>1
  <2>3. /\ \A i, j \in DOMAIN new : i + 1 = j + 1 => i = j
        /\ 1 \in DOMAIN list /\ Len(new) <= Len(list)
    BY <1>1
  <2> QED BY <2>1, <2>2, <2>3, Zenon
<1>3. Range(list) = Range(new) \union {h}
  <2>1. ASSUME NEW i \in DOMAIN list PROVE list[i] \in Range(new) \union {h}
    BY <1>1, <1>2, Zenon DEF Range
  <2>2. ASSUME NEW i \in DOMAIN new PROVE new[i] \in Range(list)
    BY <1>2, Zenon DEF Range
  <2>3. h \in Range(list)
    BY <1>1, <1>2, Zenon DEF Range
  <2> QED BY <2>1, <2>2, <2>3, Zenon DEF Range
<1>4. ASSUME Once(list) PROVE Once(new) /\ h \notin Range(new)
  <2>1. \A i, j \in DOMAIN list : list[i] = list[j] => i = j
    BY <1>4, Zenon DEF Once
  <2>2. ASSUME NEW i \in DOMAIN new PROVE new[i] # h
    BY <1>1, <1>2, <2>1
  <2>3. ASSUME NEW i \in DOMAIN new, NEW j \in DOMAIN new, new[i] = new[j] PROVE i = j
    BY <1>2, <2>1, <2>3
  <2> QED BY <2>2, <2>3, Zenon DEF Once, Range
<1> QED BY <1>1, <1>2, <1>3, <1>4, Zenon DEF new, h

\* Everything on its way, in a channel or collected is a proposal.
LEMMA HeldProposals ==
    ASSUME Shape, NEW n \in Node
    PROVE  /\ net[n] \subseteq Proposal /\ Heard(n) \subseteq Proposal
           /\ \A t \in Task : Collected(n, t) \subseteq Proposal
<1>1. net[n] \subseteq Proposal /\ intake[n] \in Seq(Proposal)
      /\ \A t \in Task : props[n][t] \in Seq(Proposal)
  BY Zenon DEF Shape
<1>2. ASSUME NEW list \in Seq(Proposal) PROVE Range(list) \subseteq Proposal
  BY DEF Range
<1> QED BY <1>1, <1>2, Zenon DEF Heard, Collected

\* The invariant holds before the first round.
LEMMA InitInv == Init => IInv
<1> SUFFICES ASSUME Init PROVE IInv
  OBVIOUS
<1>1. <<>> \in Seq(Proposal) /\ Len(<<>>) = 0 /\ DOMAIN <<>> = {}
  OBVIOUS
<1>2. Shape
  BY <1>1 DEF Init, Shape, Nobody
<1>3. \A n \in Node, t \in Task :
         round[n][t] = "idle" /\ own[n][t] = {} /\ props[n][t] = <<>>
  BY DEF Init
<1>4. \A n \in Node : net[n] = {} /\ intake[n] = <<>>
  BY DEF Init
<1>5. Range(<<>>) = {} /\ Distinct(<<>>) /\ Once(<<>>)
  BY <1>1, Zenon DEF Range, Distinct, Once
<1>6. OwnOnce
  BY <1>3, Zenon DEF OwnOnce
<1>7. AllMade /\ ArrivesOnce
  BY <1>3, <1>4, <1>5, Zenon DEF AllMade, ArrivesOnce, Heard, Collected
<1>8. Decided
  BY <1>3 DEF Decided
<1>9. Buffered
  BY <1>1, <1>4, SchedulerAssumption DEF Buffered
<1> QED BY <1>2, <1>6, <1>7, <1>8, <1>9, Zenon DEF IInv

\* A step that leaves a round alone, or only moves it away from idle.
LEMMA DecidedKept ==
    ASSUME Decided, UNCHANGED given,
           \A n \in Node, t \in Task : round'[n][t] = "done" =>
               round[n][t] = "done" /\ props'[n][t] = props[n][t]
    PROVE  Decided'
<1>1. ASSUME NEW n \in Node, NEW t \in Task, round'[n][t] = "done"
      PROVE  /\ given'[n][t] = AssignReplicas(Total(t), props'[n][t], Node)
             /\ Range(props'[n][t]) # {}
             /\ \E list \in Seq(Proposal) :
                   /\ Distinct(list) /\ props'[n][t] = Ranked(list)
                   /\ Range(list) = Range(props'[n][t])
  <2>1. round[n][t] = "done" /\ props'[n][t] = props[n][t] /\ given'[n][t] = given[n][t]
    BY <1>1, Zenon
  <2> QED BY <2>1, Zenon DEF Decided
<1> QED BY <1>1, Zenon DEF Decided

\* A proposal that is broadcast is new: its machine had made none for the task.
LEMMA StartKeeps ==
    ASSUME IInv, NEW n \in Node, NEW t \in Task, NEW score \in Scores[t], NEW stamp \in Stamps,
           StartRound(n, t, score, stamp)
    PROVE  IInv'
<1> DEFINE p == [task |-> t, node |-> n, score |-> score, stamp |-> stamp]
<1>1. p \in Proposal /\ p.task = t /\ p.node = n
  BY DEF Proposal
<1> HIDE DEF p
<1>2. /\ round[n][t] = "idle"
      /\ round' = [round EXCEPT ![n][t] = "collecting"]
      /\ own' = [own EXCEPT ![n][t] = {p}]
      /\ net' = [m \in Node |-> net[m] \union {q \in {p} : <<n, m>> \in Link}]
      /\ UNCHANGED <<props, given, intake, orders, copies>>
  BY Zenon DEF StartRound, p
<1>3. /\ Shape /\ OwnOnce /\ AllMade /\ ArrivesOnce /\ Decided /\ Buffered
  BY Zenon DEF IInv
<1>4. /\ round' \in [Node -> [Task -> {"idle", "collecting", "done"}]]
      /\ round'[n][t] = "collecting"
      /\ \A m \in Node, u \in Task : m # n \/ u # t => round'[m][u] = round[m][u]
  <2>1. "collecting" \in {"idle", "collecting", "done"}
    OBVIOUS
  <2>2. round \in [Node -> [Task -> {"idle", "collecting", "done"}]]
    BY <1>3, Zenon DEF Shape
  <2> QED BY <1>2, <2>1, <2>2, Update
<1>5. /\ own' \in [Node -> [Task -> SUBSET Proposal]]
      /\ own'[n][t] = {p}
      /\ \A m \in Node, u \in Task : m # n \/ u # t => own'[m][u] = own[m][u]
  <2>1. {p} \in SUBSET Proposal
    BY <1>1, Zenon
  <2>2. own \in [Node -> [Task -> SUBSET Proposal]]
    BY <1>3, Zenon DEF Shape
  <2> QED BY <1>2, <2>1, <2>2, Update
<1>6. /\ net' \in [Node -> SUBSET Proposal]
      /\ \A m \in Node : net[m] \subseteq net'[m] /\ net'[m] \subseteq net[m] \union {p}
  <2>1. net \in [Node -> SUBSET Proposal]
    BY <1>3, Zenon DEF Shape
  <2> QED BY <1>1, <1>2, <2>1
<1>7. Shape'
  BY <1>2, <1>3, <1>4, <1>5, <1>6, Zenon DEF Shape
<1>8. own[n][t] = {}
  BY <1>2, <1>3, Zenon DEF OwnOnce
<1>9. OwnOnce'
  <2>1. ASSUME NEW m \in Node, NEW u \in Task
        PROVE  /\ own'[m][u] = {} <=> round'[m][u] = "idle"
               /\ \A q, r \in own'[m][u] : q = r
               /\ \A q \in own'[m][u] : q.node = m /\ q.task = u
    <3>1. CASE m = n /\ u = t
      BY <1>1, <1>4, <1>5, <3>1
    <3>2. CASE m # n \/ u # t
      <4>1. own'[m][u] = own[m][u] /\ round'[m][u] = round[m][u]
        BY <1>4, <1>5, <3>2, Zenon
      <4>2. /\ own[m][u] = {} <=> round[m][u] = "idle"
            /\ \A q, r \in own[m][u] : q = r
            /\ \A q \in own[m][u] : q.node = m /\ q.task = u
        BY <1>3, Zenon DEF OwnOnce
      <4> QED BY <4>1, <4>2
    <3> QED BY <3>1, <3>2, Zenon
  <2> QED BY <2>1, Zenon DEF OwnOnce
<1>10. \A q \in Proposal : Made(q) => q # p /\ Made(q)'
  <2>1. ASSUME NEW q \in Proposal, Made(q) PROVE q # p /\ Made(q)'
    <3>1. q.node \in Node /\ q.task \in Task
      BY ProposalFields, Zenon
    <3>2. q.node # n \/ q.task # t
      BY <1>8, <2>1, Zenon DEF Made
    <3> QED BY <1>1, <1>5, <2>1, <3>1, <3>2, Zenon DEF Made
  <2> QED BY <2>1, Zenon
<1>11. Made(p)'
  BY <1>1, <1>5, Zenon DEF Made
<1>12. \A m \in Node : /\ net[m] \subseteq Proposal /\ Heard(m) \subseteq Proposal
                       /\ \A u \in Task : Collected(m, u) \subseteq Proposal
  BY <1>3, HeldProposals, Zenon
<1>13. \A m \in Node : Heard(m)' = Heard(m) /\ \A u \in Task : Collected(m, u)' = Collected(m, u)
  BY <1>2, Zenon DEF Heard, Collected
<1>14. AllMade'
  <2>1. ASSUME NEW m \in Node, NEW q \in net'[m] \union Heard(m) PROVE Made(q)'
    <3>1. q = p \/ q \in net[m] \union Heard(m)
      BY <1>6, Zenon
    <3>2. ASSUME q \in net[m] \union Heard(m) PROVE q \in Proposal /\ Made(q)
      BY <1>3, <1>12, <3>2, Zenon DEF AllMade
    <3> QED BY <1>10, <1>11, <3>1, <3>2, Zenon
  <2>2. ASSUME NEW m \in Node, NEW u \in Task, NEW q \in Collected(m, u)
        PROVE  q.task = u /\ Made(q)'
    BY <1>3, <1>10, <1>12, Zenon DEF AllMade
  <2> QED BY <1>13, <2>1, <2>2, Zenon DEF AllMade
<1>15. ArrivesOnce'
  <2>1. ASSUME NEW m \in Node PROVE p \notin Heard(m) /\ \A u \in Task : p \notin Collected(m, u)
    BY <1>3, <1>10, <1>12, Zenon DEF AllMade
  <2>2. ASSUME NEW m \in Node PROVE net'[m] \intersect Heard(m) = {}
    BY <1>3, <1>6, <2>1, Zenon DEF ArrivesOnce
  <2>3. ASSUME NEW m \in Node, NEW u \in Task, round'[m][u] # "done"
        PROVE  Collected(m, u) \intersect (net'[m] \union Heard(m)) = {}
    <3>1. round[m][u] # "done"
      BY <1>2, <1>4, <2>3
    <3>2. Collected(m, u) \intersect (net[m] \union Heard(m)) = {}
      BY <1>3, <3>1, Zenon DEF ArrivesOnce
    <3> QED BY <1>6, <2>1, <3>2, Zenon
  <2>4. UNCHANGED <<intake, props>>
    BY <1>2, Zenon
  <2> QED BY <1>3, <1>13, <2>2, <2>3, <2>4, Zenon DEF ArrivesOnce
<1>16. Decided'
  <2>1. \A m \in Node, u \in Task : round'[m][u] = "done" => round[m][u] = "done"
    BY <1>4
  <2> QED BY <1>2, <1>3, <2>1, DecidedKept, Zenon
<1>17. Buffered'
  BY <1>2, <1>3, Zenon DEF Buffered
<1> QED BY <1>7, <1>9, <1>14, <1>15, <1>16, <1>17, Zenon DEF IInv

\* A step that leaves the rounds and their proposals alone.
LEMMA OwnKept == ASSUME OwnOnce, UNCHANGED <<round, own>> PROVE OwnOnce'
<1>1. ASSUME NEW n \in Node, NEW t \in Task
      PROVE  /\ own'[n][t] = {} <=> round'[n][t] = "idle"
             /\ \A p, q \in own'[n][t] : p = q
             /\ \A p \in own'[n][t] : p.node = n /\ p.task = t
  <2>1. /\ own[n][t] = {} <=> round[n][t] = "idle"
        /\ \A p, q \in own[n][t] : p = q
        /\ \A p \in own[n][t] : p.node = n /\ p.task = t
    BY Zenon DEF OwnOnce
  <2> QED BY <2>1
<1> QED BY <1>1, Zenon DEF OwnOnce

\* A step by which proposals move on, to the channel or away.
LEMMA LessOnTheWay ==
    ASSUME AllMade, ArrivesOnce, UNCHANGED <<round, own, props>>,
           \A m \in Node : /\ net'[m] \union Heard(m)' \subseteq net[m] \union Heard(m)
                           /\ net'[m] \intersect Heard(m)' = {}
                           /\ Once(intake'[m])
    PROVE  AllMade' /\ ArrivesOnce'
<1>1. \A m \in Node, t \in Task : Collected(m, t)' = Collected(m, t)
  BY Zenon DEF Collected
<1>2. AllMade'
  <2>1. ASSUME NEW m \in Node, NEW q \in net'[m] \union Heard(m)' PROVE Made(q)'
    BY Zenon DEF AllMade, Made
  <2>2. ASSUME NEW m \in Node, NEW t \in Task, NEW q \in Collected(m, t)'
        PROVE  q.task = t /\ Made(q)'
    <3>1. q \in Collected(m, t)
      BY <1>1, Zenon
    <3> QED BY <3>1, Zenon DEF AllMade, Made
  <2> QED BY <1>1, <2>1, <2>2, Zenon DEF AllMade
<1>3. ArrivesOnce'
  <2>1. ASSUME NEW m \in Node, NEW t \in Task, round'[m][t] # "done"
        PROVE  Collected(m, t) \intersect (net'[m] \union Heard(m)') = {}
    <3>1. Collected(m, t) \intersect (net[m] \union Heard(m)) = {}
      BY <2>1, Zenon DEF ArrivesOnce
    <3> QED BY <3>1, Zenon
  <2>2. \A m \in Node, t \in Task : Distinct(props'[m][t])
    BY Zenon DEF ArrivesOnce
  <2> QED BY <1>1, <2>1, <2>2, Zenon DEF ArrivesOnce
<1> QED BY <1>2, <1>3, Zenon

\* A list with one more machine.
LEMMA DistinctAppend ==
    ASSUME NEW list \in Seq(Proposal), Distinct(list), NEW p \in Proposal,
           \A q \in Range(list) : q.node # p.node
    PROVE  Distinct(Append(list, p))
<1> DEFINE new == Append(list, p)
<1>1. /\ DOMAIN list = 1..Len(list) /\ DOMAIN new = 1..(Len(list) + 1) /\ Len(list) \in Nat
      /\ \A i \in 1..Len(list) : new[i] = list[i]
      /\ new[Len(list) + 1] = p
  OBVIOUS
<1> HIDE DEF new
<1>2. \A i \in DOMAIN new : i = Len(list) + 1 \/ (i \in DOMAIN list /\ new[i] = list[i])
  BY <1>1
<1>3. \A i \in DOMAIN list : list[i].node # p.node
  BY Zenon DEF Range
<1>4. ASSUME NEW i \in DOMAIN new, NEW j \in DOMAIN new, new[i].node = new[j].node
      PROVE  i = j
  <2>1. CASE i \in DOMAIN list /\ j \in DOMAIN list
    BY <1>2, <1>4, <2>1, <1>1 DEF Distinct
  <2>2. CASE i \notin DOMAIN list \/ j \notin DOMAIN list
    BY <1>1, <1>2, <1>3, <1>4, <2>2, Zenon
  <2> QED BY <2>1, <2>2, Zenon
<1> QED BY <1>4, Zenon DEF Distinct, new

\* The listener moves a proposal into the channel.
LEMMA ReceiveKeeps ==
    ASSUME IInv, NEW n \in Node, NEW p \in Proposal, Receive(n, p)
    PROVE  IInv'
<1>1. /\ p \in net[n] /\ Len(intake[n]) < MaxBufferedProps
      /\ net' = [net EXCEPT ![n] = @ \ {p}]
      /\ intake' = [intake EXCEPT ![n] = Append(@, p)]
      /\ UNCHANGED <<round, own, props, given, orders, copies>>
  BY Zenon DEF Receive
<1>2. /\ Shape /\ OwnOnce /\ AllMade /\ ArrivesOnce /\ Decided /\ Buffered
      /\ net \in [Node -> SUBSET Proposal] /\ intake \in [Node -> Seq(Proposal)]
  BY Zenon DEF IInv, Shape
<1> DEFINE longer == Append(intake[n], p)
<1>3. /\ longer \in Seq(Proposal) /\ Len(longer) = Len(intake[n]) + 1
      /\ Range(longer) = Heard(n) \union {p}
      /\ Once(intake[n]) /\ p \notin Heard(n) => Once(longer)
  <2>1. intake[n] \in Seq(Proposal)
    BY <1>2, Zenon
  <2> QED BY <2>1, AppendForm DEF Heard
<1> HIDE DEF longer
<1>4. /\ intake' \in [Node -> Seq(Proposal)] /\ intake'[n] = longer
      /\ \A m \in Node \ {n} : intake'[m] = intake[m]
  BY <1>1, <1>2, <1>3 DEF longer
<1>5. /\ net' \in [Node -> SUBSET Proposal] /\ net'[n] = net[n] \ {p}
      /\ \A m \in Node \ {n} : net'[m] = net[m]
  BY <1>1, <1>2
<1>6. Shape' /\ OwnOnce' /\ Decided'
  <2>1. Shape'
    <3>1. /\ round' = round /\ own' = own /\ props' = props /\ given' = given
          /\ orders' = orders /\ copies' = copies
      BY <1>1, Zenon
    <3>2. /\ intake' \in [Node -> Seq(Proposal)] /\ net' \in [Node -> SUBSET Proposal]
      BY <1>4, <1>5, Zenon
    <3> QED BY <1>2, <3>1, <3>2, Zenon DEF Shape
  <2>2. OwnOnce'
    BY <1>1, <1>2, OwnKept, Zenon
  <2>3. Decided'
    BY <1>1, <1>2, DecidedKept, Zenon
  <2> QED BY <2>1, <2>2, <2>3, Zenon
<1>7. \A m \in Node : /\ net'[m] \union Heard(m)' \subseteq net[m] \union Heard(m)
                      /\ net'[m] \intersect Heard(m)' = {}
                      /\ Once(intake'[m])
  <2>1. p \notin Heard(n) /\ Once(intake[n]) /\ net[n] \intersect Heard(n) = {}
    BY <1>1, <1>2, Zenon DEF ArrivesOnce
  <2>2. Heard(n)' = Heard(n) \union {p}
    BY <1>3, <1>4, Zenon DEF Heard
  <2>3. ASSUME NEW m \in Node, m # n
        PROVE  net'[m] = net[m] /\ Heard(m)' = Heard(m) /\ intake'[m] = intake[m]
    BY <1>4, <1>5, <2>3, Zenon DEF Heard
  <2>4. \A m \in Node : net[m] \intersect Heard(m) = {} /\ Once(intake[m])
    BY <1>2, Zenon DEF ArrivesOnce
  <2>5. ASSUME NEW m \in Node, m = n
        PROVE  /\ net'[m] \union Heard(m)' \subseteq net[m] \union Heard(m)
               /\ net'[m] \intersect Heard(m)' = {}
               /\ Once(intake'[m])
    BY <1>1, <1>3, <1>4, <1>5, <2>1, <2>2, <2>5, Zenon
  <2> QED BY <2>3, <2>4, <2>5, Zenon
<1>8. AllMade' /\ ArrivesOnce'
  BY <1>1, <1>2, <1>7, LessOnTheWay, Zenon
<1>9. Buffered'
  <2>1. ASSUME NEW m \in Node PROVE Len(intake'[m]) <= MaxBufferedProps
    <3>1. CASE m = n
      <4>1. Len(intake[n]) \in Nat /\ MaxBufferedProps \in Nat
        BY <1>2, SchedulerAssumption
      <4> QED BY <1>1, <1>3, <1>4, <3>1, <4>1
    <3>2. CASE m # n
      BY <1>2, <1>4, <3>2, Zenon DEF Buffered
    <3> QED BY <3>1, <3>2, Zenon
  <2> QED BY <2>1, Zenon DEF Buffered
<1> QED BY <1>6, <1>8, <1>9, Zenon DEF IInv

\* A collected proposal is new to the round, so its machine is new too.
LEMMA CollectKeeps ==
    ASSUME IInv, NEW n \in Node, NEW t \in Task, Collect(n, t)
    PROVE  IInv'
<1> DEFINE h == Head(intake[n])
           rest == Tail(intake[n])
           longer == Append(props[n][t], h)
<1>1. /\ round[n][t] = "collecting" /\ intake[n] # <<>>
      /\ intake' = [intake EXCEPT ![n] = rest]
      /\ props' = IF h.task = t THEN [props EXCEPT ![n][t] = longer] ELSE props
      /\ UNCHANGED <<round, own, given, net, orders, copies>>
  BY Zenon DEF Collect
<1>2. /\ Shape /\ OwnOnce /\ AllMade /\ ArrivesOnce /\ Decided /\ Buffered
      /\ props \in [Node -> [Task -> Seq(Proposal)]] /\ intake \in [Node -> Seq(Proposal)]
  BY Zenon DEF IInv, Shape
<1>3. /\ rest \in Seq(Proposal) /\ h \in Proposal /\ Len(rest) <= Len(intake[n])
      /\ Heard(n) = Range(rest) \union {h}
      /\ Once(intake[n]) => Once(rest) /\ h \notin Range(rest)
  BY <1>1, <1>2, TailForm, Zenon DEF Heard
<1>4. /\ longer \in Seq(Proposal)
      /\ Range(longer) = Collected(n, t) \union {h}
  <2>1. props[n][t] \in Seq(Proposal)
    BY <1>2, Zenon
  <2> QED BY <1>3, <2>1, AppendForm DEF Collected
<1> HIDE DEF rest, longer, h
<1>5. /\ intake' \in [Node -> Seq(Proposal)] /\ intake'[n] = rest
      /\ \A m \in Node \ {n} : intake'[m] = intake[m]
  BY <1>1, <1>2, <1>3
<1>6. /\ props' \in [Node -> [Task -> Seq(Proposal)]]
      /\ props'[n][t] = IF h.task = t THEN longer ELSE props[n][t]
      /\ \A m \in Node, u \in Task : m # n \/ u # t => props'[m][u] = props[m][u]
  <2>1. CASE h.task = t
    <3>1. props' = [props EXCEPT ![n][t] = longer]
      BY <1>1, <2>1, Zenon
    <3>2. /\ props' \in [Node -> [Task -> Seq(Proposal)]] /\ props'[n][t] = longer
          /\ \A m \in Node, u \in Task : m # n \/ u # t => props'[m][u] = props[m][u]
      BY <1>2, <1>4, <3>1, Update
    <3> QED BY <2>1, <3>2, Zenon
  <2>2. CASE h.task # t
    BY <1>1, <1>2, <2>2, Zenon
  <2> QED BY <2>1, <2>2, Zenon
<1>7. Shape' /\ OwnOnce'
  <2>1. Shape'
    <3>1. /\ round' = round /\ own' = own /\ given' = given /\ net' = net
          /\ orders' = orders /\ copies' = copies
      BY <1>1, Zenon
    <3>2. intake' \in [Node -> Seq(Proposal)] /\ props' \in [Node -> [Task -> Seq(Proposal)]]
      BY <1>5, <1>6, Zenon
    <3> QED BY <1>2, <3>1, <3>2, Zenon DEF Shape
  <2>2. OwnOnce'
    BY <1>1, <1>2, OwnKept, Zenon
  <2> QED BY <2>1, <2>2, Zenon
<1>8. Decided'
  <2>1. \A m \in Node, u \in Task : round'[m][u] = "done" =>
           round[m][u] = "done" /\ props'[m][u] = props[m][u]
    <3>1. \A m \in Node, u \in Task : round[m][u] = "done" => m # n \/ u # t
      BY <1>1
    <3> QED BY <1>1, <1>6, <3>1, Zenon
  <2> QED BY <1>1, <1>2, <2>1, DecidedKept, Zenon
<1>9. Buffered'
  <2>1. ASSUME NEW m \in Node PROVE Len(intake'[m]) <= MaxBufferedProps
    <3>1. CASE m = n
      <4>1. /\ Len(intake[n]) \in Nat /\ Len(rest) \in Nat /\ MaxBufferedProps \in Nat
            /\ Len(intake[n]) <= MaxBufferedProps
        BY <1>2, <1>3, SchedulerAssumption DEF Buffered
      <4> QED BY <1>3, <1>5, <3>1, <4>1
    <3>2. CASE m # n
      BY <1>2, <1>5, <3>2, Zenon DEF Buffered
    <3> QED BY <3>1, <3>2, Zenon
  <2> QED BY <2>1, Zenon DEF Buffered
<1>10. h \in Heard(n) /\ Made(h) /\ h \notin net[n] /\ h \notin Collected(n, t)
  <2>1. h \in Heard(n)
    BY <1>3, Zenon
  <2>2. Made(h) /\ h \notin net[n]
    BY <1>2, <2>1, Zenon DEF AllMade, ArrivesOnce
  <2>3. round[n][t] # "done"
    BY <1>1
  <2> QED BY <1>2, <2>1, <2>2, <2>3, Zenon DEF ArrivesOnce
<1>11. \A m \in Node : Heard(m)' \subseteq Heard(m) /\ Once(intake'[m]) /\ h \notin Heard(n)'
  <2>1. Heard(n)' = Range(rest) /\ \A m \in Node \ {n} : Heard(m)' = Heard(m)
    BY <1>5, Zenon DEF Heard
  <2>2. \A m \in Node : Once(intake[m])
    BY <1>2, Zenon DEF ArrivesOnce
  <2> QED BY <1>3, <1>5, <2>1, <2>2, Zenon
<1>12. \A m \in Node, u \in Task :
          Collected(m, u)' = Collected(m, u) \/ (m = n /\ u = t /\ h.task = t
                                                 /\ Collected(m, u)' = Collected(m, u) \union {h})
  BY <1>4, <1>6, Zenon DEF Collected
<1>13. AllMade'
  <2>1. ASSUME NEW m \in Node, NEW q \in net'[m] \union Heard(m)' PROVE Made(q)'
    BY <1>1, <1>2, <1>11, Zenon DEF AllMade, Made
  <2>2. ASSUME NEW m \in Node, NEW u \in Task, NEW q \in Collected(m, u)'
        PROVE  q.task = u /\ Made(q)'
    <3>1. q \in Collected(m, u) \/ (q = h /\ h.task = u)
      BY <1>12
    <3>2. q.task = u /\ Made(q)
      BY <1>2, <1>10, <3>1, Zenon DEF AllMade
    <3> QED BY <1>1, <3>2, Zenon DEF Made
  <2> QED BY <2>1, <2>2, Zenon DEF AllMade
<1>14. \A m \in Node, u \in Task : Distinct(props'[m][u])
  <2>1. ASSUME h.task = t PROVE Distinct(longer)
    <3>1. ASSUME NEW q \in Collected(n, t) PROVE q.node # h.node
      <4>1. q.task = t /\ Made(q) /\ q # h
        BY <1>2, <1>10, Zenon DEF AllMade
      <4>2. h.node \in Node
        BY <1>3, ProposalFields, Zenon
      <4>3. \A a, b \in own[h.node][t] : a = b
        BY <1>2, <4>2, Zenon DEF OwnOnce
      <4>4. q \in own[q.node][t] /\ h \in own[h.node][t]
        BY <1>10, <2>1, <4>1, Zenon DEF Made
      <4> QED BY <4>1, <4>3, <4>4, Zenon
    <3>2. Distinct(props[n][t]) /\ props[n][t] \in Seq(Proposal)
      BY <1>2, Zenon DEF ArrivesOnce
    <3> QED BY <1>3, <3>1, <3>2, DistinctAppend, Zenon DEF longer, Collected
  <2>2. \A m \in Node, u \in Task : Distinct(props[m][u])
    BY <1>2, Zenon DEF ArrivesOnce
  <2> QED BY <1>6, <2>1, <2>2, Zenon
<1>15. ArrivesOnce'
  <2>1. ASSUME NEW m \in Node PROVE net'[m] \intersect Heard(m)' = {}
    BY <1>1, <1>2, <1>11, Zenon DEF ArrivesOnce
  <2>2. ASSUME NEW m \in Node, NEW u \in Task, round'[m][u] # "done"
        PROVE  Collected(m, u)' \intersect (net'[m] \union Heard(m)') = {}
    <3>1. Collected(m, u) \intersect (net[m] \union Heard(m)) = {}
      BY <1>1, <1>2, <2>2, Zenon DEF ArrivesOnce
    <3>2. net'[m] = net[m] /\ Heard(m)' \subseteq Heard(m)
      BY <1>1, <1>11, Zenon
    <3>3. CASE Collected(m, u)' = Collected(m, u)
      BY <3>1, <3>2, <3>3, Zenon
    <3>4. CASE m = n /\ Collected(m, u)' = Collected(m, u) \union {h}
      <4>1. h \notin net[n] /\ h \notin Heard(n)'
        BY <1>10, <1>11, Zenon
      <4> QED BY <3>1, <3>2, <3>4, <4>1
    <3> QED BY <1>12, <3>3, <3>4, Zenon
  <2> QED BY <1>11, <1>14, <2>1, <2>2, Zenon DEF ArrivesOnce
<1> QED BY <1>7, <1>8, <1>9, <1>13, <1>15, Zenon DEF IInv

\* A round's own proposal, which may have come back to it, is there once.
LEMMA UpsertOwn ==
    ASSUME NEW list \in Seq(Proposal), Distinct(list), NEW p \in Proposal,
           \A q \in Range(list) : q.node = p.node => q = p
    PROVE  /\ Upsert(list, p) \in Seq(Proposal) /\ Distinct(Upsert(list, p))
           /\ Range(Upsert(list, p)) = Range(list) \union {p}
<1> DEFINE mine == {i \in DOMAIN list : list[i].node = p.node}
<1>1. \A i \in DOMAIN list : list[i].node = p.node => list[i] = p
  BY Zenon DEF Range
<1>2. CASE mine = {}
  <2>1. Upsert(list, p) = Append(list, p)
    BY <1>2, Zenon DEF Upsert
  <2>2. \A q \in Range(list) : q.node # p.node
    BY <1>2, Zenon DEF Range
  <2>3. Append(list, p) \in Seq(Proposal) /\ Range(Append(list, p)) = Range(list) \union {p}
    BY AppendForm
  <2> QED BY <2>1, <2>2, <2>3, DistinctAppend, Zenon
<1>3. CASE mine # {}
  <2>1. PICK i \in DOMAIN list : list[i].node = p.node
    BY <1>3, Zenon
  <2>2. mine = {i}
    BY <2>1, Zenon DEF Distinct
  <2>3. i \in Nat
    OBVIOUS
  <2>4. FirstOf({i}) = i
    BY <2>3 DEF FirstOf
  <2>5. Upsert(list, p) = [list EXCEPT ![i] = p]
    BY <1>3, <2>2, <2>4, Zenon DEF Upsert
  <2>6. list[i] = p
    BY <1>1, <2>1, Zenon
  <2>7. [list EXCEPT ![i] = p] = list
    BY <2>6
  <2>8. p \in Range(list)
    BY <2>6, Zenon DEF Range
  <2> QED BY <2>5, <2>7, <2>8, Zenon
<1> QED BY <1>2, <1>3, Zenon

\* A task asks for a natural number of replicas.
LEMMA TotalType == ASSUME NEW t \in Task PROVE Total(t) \in Nat
BY SchedulerAssumption DEF Total

\* The end of a window: the list is sorted, and decides.
LEMMA CloseKeeps ==
    ASSUME IInv, NEW n \in Node, NEW t \in Task, CloseWindow(n, t)
    PROVE  IInv'
<1> DEFINE p == CHOOSE q \in own[n][t] : TRUE
           up == Upsert(props[n][t], p)
           new == Ranked(up)
           assign == AssignReplicas(Total(t), new, Node)
<1>1. /\ Shape /\ OwnOnce /\ AllMade /\ ArrivesOnce /\ Decided /\ Buffered
      /\ round \in [Node -> [Task -> {"idle", "collecting", "done"}]]
      /\ own \in [Node -> [Task -> SUBSET Proposal]]
      /\ props \in [Node -> [Task -> Seq(Proposal)]]
      /\ given \in [Node -> [Task -> [Node -> Nat]]]
      /\ orders \in [Node -> [Task -> Nat]] /\ copies \in [Node -> [Task -> Nat]]
  BY Zenon DEF IInv, Shape
<1>2. /\ round[n][t] = "collecting"
      /\ round' = [round EXCEPT ![n][t] = "done"]
      /\ props' = [props EXCEPT ![n][t] = new]
      /\ own' = own /\ net' = net /\ intake' = intake
  BY Zenon DEF CloseWindow, EndWindow, Decisive
<1>3. p \in own[n][t] /\ p \in Proposal /\ p.node = n /\ p.task = t
  <2>1. round[n][t] # "idle"
    BY <1>2
  <2>2. own[n][t] # {}
    BY <1>1, <2>1, Zenon DEF OwnOnce
  <2>3. p \in own[n][t]
    BY <2>2
  <2> HIDE DEF p
  <2>4. p \in Proposal
    BY <1>1, <2>3, Zenon
  <2>5. p.node = n /\ p.task = t
    BY <1>1, <2>3, Zenon DEF OwnOnce
  <2> QED BY <2>3, <2>4, <2>5, Zenon
<1> HIDE DEF p
<1>4. /\ up \in Seq(Proposal) /\ Distinct(up)
      /\ Range(up) = Collected(n, t) \union {p}
  <2>1. props[n][t] \in Seq(Proposal) /\ Distinct(props[n][t])
    BY <1>1 DEF ArrivesOnce
  <2>2. ASSUME NEW q \in Range(props[n][t]), q.node = p.node PROVE q = p
    <3>1. q \in own[n][t]
      <4>1. q \in own[q.node][q.task] /\ q.task = t
        BY <1>1, Zenon DEF AllMade, Collected, Made
      <4>2. q.node = n
        BY <1>3, <2>2
      <4> QED BY <4>1, <4>2
    <3>2. \A a, b \in own[n][t] : a = b
      BY <1>1, Zenon DEF OwnOnce
    <3> QED BY <1>3, <3>1, <3>2, Zenon
  <2> QED BY <1>3, <2>1, <2>2, UpsertOwn, Zenon DEF Collected
<1> HIDE DEF up
<1>5. new \in Seq(Proposal) /\ Distinct(new) /\ Range(new) = Range(up)
  BY <1>4, RankedKeeps, Zenon
<1> HIDE DEF new
<1>6. /\ props' \in [Node -> [Task -> Seq(Proposal)]] /\ props'[n][t] = new
      /\ \A m \in Node, u \in Task : m # n \/ u # t => props'[m][u] = props[m][u]
  BY <1>1, <1>2, <1>5, Update
<1>7. /\ round' \in [Node -> [Task -> {"idle", "collecting", "done"}]]
      /\ round'[n][t] = "done"
      /\ \A m \in Node, u \in Task : m # n \/ u # t => round'[m][u] = round[m][u]
  <2>1. "done" \in {"idle", "collecting", "done"}
    OBVIOUS
  <2> QED BY <1>1, <1>2, <2>1, Update
<1>8. /\ given' = [given EXCEPT ![n][t] = assign]
      /\ copies' = [copies EXCEPT ![n][t] = copies[n][t] + assign[n]]
      /\ orders' = [m \in Node |->
            IF m = n THEN orders[m]
            ELSE [orders[m] EXCEPT ![t] = orders[m][t] + assign[m]]]
  BY <1>6 DEF CloseWindow
<1>9. assign \in [Node -> Nat]
  BY <1>5, TotalType, AssignType, Zenon
<1> HIDE DEF assign
<1>10. /\ given' \in [Node -> [Task -> [Node -> Nat]]] /\ given'[n][t] = assign
       /\ \A m \in Node, u \in Task : m # n \/ u # t => given'[m][u] = given[m][u]
  <2> DEFINE Split == [Node -> Nat]
  <2>1. given \in [Node -> [Task -> Split]] /\ assign \in Split
    BY <1>1, <1>9, Zenon
  <2> HIDE DEF Split
  <2>2. /\ given' \in [Node -> [Task -> Split]] /\ given'[n][t] = assign
        /\ \A m \in Node, u \in Task : m # n \/ u # t => given'[m][u] = given[m][u]
    BY <1>8, <2>1, Update
  <2> QED BY <2>2, Zenon DEF Split
<1>11. copies' \in [Node -> [Task -> Nat]]
  <2>1. copies[n][t] + assign[n] \in Nat
    BY <1>1, <1>9
  <2> QED BY <1>1, <1>8, <2>1, Update
<1>12. orders' \in [Node -> [Task -> Nat]]
  <2>1. ASSUME NEW m \in Node PROVE orders'[m] \in [Task -> Nat]
    <3>1. orders[m] \in [Task -> Nat] /\ orders[m][t] + assign[m] \in Nat
      BY <1>1, <1>9
    <3> QED BY <1>8, <3>1
  <2>2. DOMAIN orders' = Node /\ orders' = [m \in Node |-> orders'[m]]
    BY <1>8, Zenon
  <2> QED BY <2>1, <2>2, Zenon
<1>13. Shape'
  BY <1>1, <1>2, <1>6, <1>7, <1>10, <1>11, <1>12, Zenon DEF Shape
<1>14. OwnOnce'
  <2>1. ASSUME NEW m \in Node, NEW u \in Task
        PROVE  /\ own'[m][u] = {} <=> round'[m][u] = "idle"
               /\ \A q, r \in own'[m][u] : q = r
               /\ \A q \in own'[m][u] : q.node = m /\ q.task = u
    <3>1. (round'[m][u] = "idle") <=> (round[m][u] = "idle")
      BY <1>2, <1>7
    <3>2. /\ own[m][u] = {} <=> round[m][u] = "idle"
          /\ \A q, r \in own[m][u] : q = r
          /\ \A q \in own[m][u] : q.node = m /\ q.task = u
      BY <1>1, Zenon DEF OwnOnce
    <3>3. own'[m][u] = own[m][u]
      BY <1>2, Zenon
    <3> QED BY <3>1, <3>2, <3>3
  <2> QED BY <2>1, Zenon DEF OwnOnce
<1>15. /\ \A m \in Node : net'[m] = net[m] /\ Heard(m)' = Heard(m)
       /\ Collected(n, t)' = Collected(n, t) \union {p}
       /\ \A m \in Node, u \in Task : m # n \/ u # t => Collected(m, u)' = Collected(m, u)
  BY <1>2, <1>4, <1>5, <1>6, Zenon DEF Heard, Collected
<1>16. AllMade'
  <2>1. ASSUME NEW m \in Node, NEW q \in net'[m] \union Heard(m)' PROVE Made(q)'
    BY <1>1, <1>2, <1>15, Zenon DEF AllMade, Made
  <2>2. ASSUME NEW m \in Node, NEW u \in Task, NEW q \in Collected(m, u)'
        PROVE  q.task = u /\ Made(q)'
    <3>1. q \in Collected(m, u) \/ (q = p /\ u = t)
      BY <1>15
    <3>2. q.task = u /\ Made(q)
      BY <1>1, <1>3, <3>1, Zenon DEF AllMade, Made
    <3> QED BY <1>2, <3>2, Zenon DEF Made
  <2> QED BY <2>1, <2>2, Zenon DEF AllMade
<1>17. ArrivesOnce'
  <2>1. ASSUME NEW m \in Node
        PROVE  net'[m] \intersect Heard(m)' = {} /\ Once(intake'[m])
    BY <1>1, <1>2, <1>15, Zenon DEF ArrivesOnce
  <2>2. ASSUME NEW m \in Node, NEW u \in Task PROVE Distinct(props'[m][u])
    <3>1. Distinct(props[m][u])
      BY <1>1, Zenon DEF ArrivesOnce
    <3> QED BY <1>5, <1>6, <3>1, Zenon
  <2>3. ASSUME NEW m \in Node, NEW u \in Task, round'[m][u] # "done"
        PROVE  Collected(m, u)' \intersect (net'[m] \union Heard(m)') = {}
    <3>1. m # n \/ u # t
      BY <1>7, <2>3, Zenon
    <3>2. Collected(m, u)' = Collected(m, u) /\ round[m][u] # "done"
      BY <1>7, <1>15, <2>3, <3>1, Zenon
    <3>3. Collected(m, u) \intersect (net[m] \union Heard(m)) = {}
      BY <1>1, <3>2, Zenon DEF ArrivesOnce
    <3> QED BY <1>15, <3>2, <3>3, Zenon
  <2> QED BY <2>1, <2>2, <2>3, Zenon DEF ArrivesOnce
<1>18. Decided'
  <2>1. ASSUME NEW m \in Node, NEW u \in Task, round'[m][u] = "done"
        PROVE  /\ given'[m][u] = AssignReplicas(Total(u), props'[m][u], Node)
               /\ Range(props'[m][u]) # {}
               /\ \E list \in Seq(Proposal) :
                     /\ Distinct(list) /\ props'[m][u] = Ranked(list)
                     /\ Range(list) = Range(props'[m][u])
    <3>1. CASE m = n /\ u = t
      <4>1. Range(props'[n][t]) # {}
        BY <1>4, <1>5, <1>6, Zenon
      <4>2. given'[n][t] = AssignReplicas(Total(t), props'[n][t], Node)
        BY <1>6, <1>10, Zenon DEF assign
      <4>3. \E list \in Seq(Proposal) :
               /\ Distinct(list) /\ props'[n][t] = Ranked(list)
               /\ Range(list) = Range(props'[n][t])
        BY <1>4, <1>5, <1>6, Zenon DEF new
      <4> QED BY <3>1, <4>1, <4>2, <4>3, Zenon
    <3>2. CASE m # n \/ u # t
      <4>1. /\ round[m][u] = "done" /\ props'[m][u] = props[m][u]
            /\ given'[m][u] = given[m][u]
        BY <1>6, <1>7, <1>10, <2>1, <3>2, Zenon
      <4> QED BY <1>1, <4>1, Zenon DEF Decided
    <3> QED BY <3>1, <3>2, Zenon
  <2> QED BY <2>1, Zenon DEF Decided
<1>19. Buffered'
  BY <1>1, <1>2, Zenon DEF Buffered
<1> QED BY <1>13, <1>14, <1>16, <1>17, <1>18, <1>19, Zenon DEF IInv

\* A step that changes nothing but orders and copies.
LEMMA RestKept ==
    ASSUME OwnOnce, AllMade, ArrivesOnce, Decided, Buffered, Shape',
           UNCHANGED <<round, own, props, given, net, intake>>
    PROVE  IInv'
<1>1. OwnOnce'
  BY OwnKept, Zenon
<1>2. AllMade' /\ ArrivesOnce'
  <2>1. ASSUME NEW m \in Node
        PROVE  /\ net'[m] \union Heard(m)' \subseteq net[m] \union Heard(m)
               /\ net'[m] \intersect Heard(m)' = {}
               /\ Once(intake'[m])
    BY Zenon DEF ArrivesOnce, Heard
  <2> QED BY <2>1, LessOnTheWay, Zenon
<1>3. Decided'
  BY DecidedKept, Zenon
<1>4. Buffered'
  BY Zenon DEF Buffered
<1> QED BY <1>1, <1>2, <1>3, <1>4, Zenon DEF IInv

\* A delegated copy is deployed.
LEMMA DeployKeeps ==
    ASSUME IInv, NEW n \in Node, NEW t \in Task, DeployDelegated(n, t)
    PROVE  IInv'
<1>1. /\ Shape /\ OwnOnce /\ AllMade /\ ArrivesOnce /\ Decided /\ Buffered
      /\ orders \in [Node -> [Task -> Nat]] /\ copies \in [Node -> [Task -> Nat]]
  BY Zenon DEF IInv, Shape
<1>2. /\ orders[n][t] > 0
      /\ orders' = [orders EXCEPT ![n][t] = orders[n][t] - 1]
      /\ copies' = [copies EXCEPT ![n][t] = copies[n][t] + 1]
      /\ UNCHANGED <<round, own, props, given, net, intake>>
  BY Zenon DEF DeployDelegated
<1>3. orders' \in [Node -> [Task -> Nat]]
  <2>1. orders[n][t] - 1 \in Nat
    BY <1>1, <1>2
  <2> QED BY <1>1, <1>2, <2>1, Update
<1>4. copies' \in [Node -> [Task -> Nat]]
  <2>1. copies[n][t] + 1 \in Nat
    BY <1>1
  <2> QED BY <1>1, <1>2, <2>1, Update
<1>5. Shape'
  BY <1>1, <1>2, <1>3, <1>4, Zenon DEF Shape
<1> QED BY <1>1, <1>2, <1>5, RestKept, Zenon

\* Every step keeps the invariant.
LEMMA InvStep == IInv /\ [Next]_vars => IInv'
<1> SUFFICES ASSUME IInv, [Next]_vars PROVE IInv'
  OBVIOUS
<1>1. ASSUME NEW n \in Node, NEW p \in Proposal, Receive(n, p) PROVE IInv'
  BY <1>1, ReceiveKeeps, Zenon
<1>2. ASSUME NEW n \in Node, NEW t \in Task, NEW score \in Scores[t], NEW stamp \in Stamps,
             StartRound(n, t, score, stamp)
      PROVE  IInv'
  BY <1>2, StartKeeps, Zenon
<1>3. ASSUME NEW n \in Node, NEW t \in Task, Collect(n, t) PROVE IInv'
  BY <1>3, CollectKeeps, Zenon
<1>4. ASSUME NEW n \in Node, NEW t \in Task, CloseWindow(n, t) PROVE IInv'
  BY <1>4, CloseKeeps, Zenon
<1>5. ASSUME NEW n \in Node, NEW t \in Task, DeployDelegated(n, t) PROVE IInv'
  BY <1>5, DeployKeeps, Zenon
<1>6. ASSUME UNCHANGED vars PROVE IInv'
  <2>1. Shape'
    BY <1>6, Zenon DEF IInv, Shape, vars
  <2>2. UNCHANGED <<round, own, props, given, net, intake>>
    BY <1>6, Zenon DEF vars
  <2> QED BY <2>1, <2>2, RestKept, Zenon DEF IInv
<1> QED BY <1>1, <1>2, <1>3, <1>4, <1>5, <1>6, Zenon DEF Next

\* The invariant always holds.
LEMMA Invariant == Spec => []IInv
<1> QED BY InitInv, InvStep, PTL DEF Spec

\* The invariant has the types.
LEMMA InvType == IInv => TypeOK
<1> SUFFICES ASSUME IInv PROVE TypeOK
  OBVIOUS
<1>1. Shape /\ OwnOnce /\ AllMade /\ Buffered
  BY Zenon DEF IInv
<1>2. /\ round \in [Node -> [Task -> {"idle", "collecting", "done"}]]
      /\ given \in [Node -> [Task -> [Node -> Nat]]]
      /\ net \in [Node -> SUBSET Proposal]
      /\ orders \in [Node -> [Task -> Nat]] /\ copies \in [Node -> [Task -> Nat]]
  BY <1>1, Zenon DEF Shape
<1>3. ASSUME NEW n \in Node, NEW t \in Task
      PROVE  /\ own[n][t] \subseteq Proposal
             /\ (own[n][t] = {}) <=> (round[n][t] = "idle")
             /\ props[n][t] \in Seq(Proposal)
             /\ \A i \in DOMAIN props[n][t] : props[n][t][i].task = t
  <2>1. own[n][t] \subseteq Proposal /\ props[n][t] \in Seq(Proposal)
    BY <1>1, Zenon DEF Shape
  <2>2. (own[n][t] = {}) <=> (round[n][t] = "idle")
    BY <1>1, Zenon DEF OwnOnce
  <2>3. \A i \in DOMAIN props[n][t] : props[n][t][i].task = t
    <3>1. \A q \in Range(props[n][t]) : q.task = t
      BY <1>1, Zenon DEF AllMade, Collected
    <3> QED BY <3>1, Zenon DEF Range
  <2> QED BY <2>1, <2>2, <2>3, Zenon
<1>4. \A n \in Node : intake[n] \in Seq(Proposal) /\ Len(intake[n]) <= MaxBufferedProps
  BY <1>1, Zenon DEF Shape, Buffered
<1> QED BY <1>2, <1>3, <1>4, Zenon DEF TypeOK

\* Two finished rounds with the same proposals sorted them into the same list.
LEMMA InvSame == IInv => SameProposalsSameDecision
<1> SUFFICES ASSUME IInv, NEW n \in Node, NEW m \in Node, NEW t \in Task, Done(n, t), Done(m, t),
                    Range(props[n][t]) = Range(props[m][t])
             PROVE  given[n][t] = given[m][t]
  BY Zenon DEF SameProposalsSameDecision
<1>1. Decided /\ round[n][t] = "done" /\ round[m][t] = "done"
  BY Zenon DEF IInv, Done
<1>2. PICK a \in Seq(Proposal) : /\ Distinct(a) /\ props[n][t] = Ranked(a)
                                 /\ Range(a) = Range(props[n][t])
  BY <1>1, Zenon DEF Decided
<1>3. PICK b \in Seq(Proposal) : /\ Distinct(b) /\ props[m][t] = Ranked(b)
                                 /\ Range(b) = Range(props[m][t])
  BY <1>1, Zenon DEF Decided
<1>4. Range(a) = Range(b)
  BY <1>2, <1>3, Zenon
<1>5. Ranked(a) = Ranked(b)
  BY <1>2, <1>3, <1>4, RankedSame, Zenon
<1>6. /\ given[n][t] = AssignReplicas(Total(t), props[n][t], Node)
      /\ given[m][t] = AssignReplicas(Total(t), props[m][t], Node)
  BY <1>1, Zenon DEF Decided
<1>7. props[n][t] = props[m][t]
  BY <1>2, <1>3, <1>5, Zenon
<1> QED BY <1>6, <1>7, Zenon

\* A finished round and its decision.
LEMMA InvProportional == IInv => Proportional
<1> SUFFICES ASSUME IInv, NEW n \in Node, NEW t \in Task, Done(n, t)
             PROVE  LET heard == props[n][t]
                        sum == SumScores(heard)
                        got(i) == given[n][t][heard[i].node]
                        off(i) == sum * got(i) - heard[i].score * Total(t)
                    IN  /\ sum > 0 => \A i \in DOMAIN heard : -sum < off(i) /\ off(i) < sum
                        /\ \A i, j \in DOMAIN heard : i < j => got(i) >= got(j)
  BY Zenon DEF Proportional
<1> DEFINE heard == props[n][t]
           r == Handed(Total(t), heard)
<1>1. Decided /\ round[n][t] = "done" /\ Total(t) \in Nat
  BY TotalType, Zenon DEF IInv, Done
<1>2. PICK list \in Seq(Proposal) : Distinct(list) /\ heard = Ranked(list)
  BY <1>1, Zenon DEF Decided
<1>3. given[n][t] = AssignReplicas(Total(t), heard, Node)
  BY <1>1, Zenon DEF Decided
<1>4. heard \in Seq(Proposal) /\ Distinct(heard)
  BY <1>2, RankedKeeps, Zenon
<1>5. \A i, j \in DOMAIN heard : i < j => heard[i].score >= heard[j].score
  BY <1>2, RankedSorted, Zenon
<1> HIDE DEF heard
<1>6. \A i \in DOMAIN heard : given[n][t][heard[i].node] = r[i]
  <2>1. \A i \in DOMAIN heard : AssignReplicas(Total(t), heard, Node)[heard[i].node] = r[i]
    BY <1>1, <1>4, ReplicasOf, Zenon
  <2> QED BY <1>3, <2>1, Zenon
<1>7. Fair(heard, Total(t), r)
  BY <1>1, <1>4, HandedFair, Zenon
<1>8. SumScores(heard) > 0 => SumScores(heard) # 0
  OBVIOUS
<1> HIDE DEF r
<1>9. \A i, j \in DOMAIN heard : i < j => given[n][t][heard[i].node] >= given[n][t][heard[j].node]
  BY <1>5, <1>6, <1>7, Zenon DEF Fair
<1>10. SumScores(heard) > 0 =>
         \A i \in DOMAIN heard :
            /\ -SumScores(heard) < SumScores(heard) * given[n][t][heard[i].node] - heard[i].score * Total(t)
            /\ SumScores(heard) * given[n][t][heard[i].node] - heard[i].score * Total(t) < SumScores(heard)
  BY <1>6, <1>7, <1>8, Zenon DEF Fair
<1> QED BY <1>9, <1>10, Zenon DEF heard

\* The first of a sorted list gets a replica, or all would get none.
LEMMA TopGetsOne ==
    ASSUME NEW total \in Nat, total # 0, NEW list \in Seq(Proposal), 1 \in DOMAIN list,
           \A i, j \in DOMAIN list : i < j => list[i].score >= list[j].score
    PROVE  Handed(total, list)[1] >= 1
<1> DEFINE r == Handed(total, list)
<1>1. r \in [DOMAIN list -> Nat] /\ SumOf(r) = InAll(list, total) /\ Fair(list, total, r)
  BY HandedFair, Zenon
<1>2. DOMAIN list = 1..Len(list) /\ Len(list) \in Nat /\ IsFiniteSet(DOMAIN list)
  BY ListScores, Zenon
<1> HIDE DEF r
<1>3. ASSUME r[1] = 0 PROVE FALSE
  <2>1. ASSUME NEW i \in DOMAIN list PROVE r[i] = 0
    <3>1. CASE i = 1
      BY <1>3, <3>1, Zenon
    <3>2. CASE i # 1
      <4>1. 1 < i
        BY <1>2, <3>2
      <4>2. r[1] >= r[i]
        BY <1>1, <4>1, Zenon DEF Fair
      <4>3. r[i] \in Nat
        BY <1>1, Zenon
      <4> QED BY <1>3, <4>2, <4>3
    <3> QED BY <3>1, <3>2, Zenon
  <2>2. r = [i \in DOMAIN list |-> 0]
    BY <1>1, <2>1, Zenon
  <2>3. InAll(list, total) = 0
    BY <1>1, <1>2, <2>2, SumZero, Zenon
  <2>4. Len(list) # 0
    BY <1>2
  <2> QED BY <2>3, <2>4, Zenon DEF InAll, Least
<1>4. r[1] \in Nat
  BY <1>1, Zenon
<1>5. r[1] >= 1
  BY <1>3, <1>4
<1> QED BY <1>5, Zenon DEF r

\* The machine a round ranks first gets a replica.
TopNodeServed ==
    \A n \in Node, t \in Task : Done(n, t) => given[n][t][props[n][t][1].node] >= 1

\* So the first machine of a finished round gets a replica.
LEMMA InvTop == IInv => TopNodeServed
<1> SUFFICES ASSUME IInv, NEW n \in Node, NEW t \in Task, Done(n, t)
             PROVE  given[n][t][props[n][t][1].node] >= 1
  BY Zenon DEF TopNodeServed
<1> DEFINE heard == props[n][t]
<1>1. Decided /\ round[n][t] = "done"
  BY Zenon DEF IInv, Done
<1>2. PICK list \in Seq(Proposal) : Distinct(list) /\ heard = Ranked(list)
  BY <1>1, Zenon DEF Decided
<1>3. given[n][t] = AssignReplicas(Total(t), heard, Node) /\ Range(heard) # {}
  BY <1>1, Zenon DEF Decided
<1>4. heard \in Seq(Proposal) /\ Distinct(heard)
  BY <1>2, RankedKeeps, Zenon
<1>5. \A i, j \in DOMAIN heard : i < j => heard[i].score >= heard[j].score
  BY <1>2, RankedSorted, Zenon
<1> HIDE DEF heard
<1>6. Total(t) \in Nat /\ Total(t) # 0
  BY SchedulerAssumption DEF Total
<1>7. 1 \in DOMAIN heard
  <2>1. PICK i \in DOMAIN heard : TRUE
    BY <1>3, Zenon DEF Range
  <2> QED BY <1>4, <2>1
<1>8. Handed(Total(t), heard)[1] >= 1
  BY <1>4, <1>5, <1>6, <1>7, TopGetsOne, Zenon
<1>9. AssignReplicas(Total(t), heard, Node)[heard[1].node] = Handed(Total(t), heard)[1]
  BY <1>4, <1>6, <1>7, ReplicasOf, Zenon
<1>10. given[n][t][heard[1].node] >= 1
  BY <1>3, <1>8, <1>9, Zenon
<1> QED BY <1>10, Zenon DEF heard

-----------------------------------------------------------------------------
(* Copies are neither lost nor added *)

Copies(t) == [n \in Node |-> copies[n][t] + orders[n][t]]

Plan(t) == [n \in Node |-> Placed(n, t)]

\* Numbers of copies, and of replicas placed, are naturals.
LEMMA PlanType ==
    ASSUME Shape, NEW t \in Task
    PROVE  /\ Copies(t) \in [Node -> Nat] /\ Plan(t) \in [Node -> Nat]
           /\ \A n \in Node : Copies(t)[n] = copies[n][t] + orders[n][t] /\ Plan(t)[n] = Placed(n, t)
<1>1. ASSUME NEW n \in Node PROVE copies[n][t] + orders[n][t] \in Nat
  <2>1. copies[n][t] \in Nat /\ orders[n][t] \in Nat
    BY DEF Shape
  <2> QED BY <2>1
<1>2. ASSUME NEW n \in Node PROVE Placed(n, t) \in Nat
  <2>1. Total(t) \in Nat /\ 0 \in Nat
    BY TotalType, Zenon
  <2>2. Len(props[n][t]) \in Nat
    BY DEF Shape
  <2> QED BY <2>1, <2>2, Zenon DEF Placed, Least
<1> QED BY <1>1, <1>2, Zenon DEF Copies, Plan

\* What a finished round places.
LEMMA PlacedIs ==
    ASSUME NEW n \in Node, NEW t \in Task
    PROVE  Placed(n, t) = IF round[n][t] # "done" THEN 0 ELSE InAll(props[n][t], Total(t))
BY Zenon DEF Placed, InAll

\* Before the first round there is no copy.
LEMMA InitAccounted == Init => CopiesAccounted
<1> SUFFICES ASSUME Init, NEW t \in Task PROVE SumOf(Copies(t)) = SumOf(Plan(t))
  BY Zenon DEF CopiesAccounted, Copies, Plan
<1>1. ASSUME NEW n \in Node PROVE copies[n][t] + orders[n][t] = Placed(n, t)
  <2>1. copies[n][t] = 0 /\ orders[n][t] = 0 /\ round[n][t] = "idle"
    BY DEF Init
  <2>2. Placed(n, t) = 0
    BY <2>1, PlacedIs
  <2> QED BY <2>1, <2>2
<1>2. Copies(t) = Plan(t)
  BY <1>1, Zenon DEF Copies, Plan
<1> QED BY <1>2, Zenon

\* A step that finishes no round and leaves the finished ones alone places nothing.
LEMMA NothingPlaced ==
    ASSUME CopiesAccounted,
           \A n \in Node, t \in Task :
              /\ copies'[n][t] + orders'[n][t] = copies[n][t] + orders[n][t]
              /\ round'[n][t] = "done" <=> round[n][t] = "done"
              /\ round[n][t] = "done" => props'[n][t] = props[n][t]
    PROVE  CopiesAccounted'
<1>1. ASSUME NEW n \in Node, NEW t \in Task PROVE Placed(n, t)' = Placed(n, t)
  BY Zenon DEF Placed, Total, Least
<1>2. ASSUME NEW t \in Task
      PROVE  /\ [n \in Node |-> Placed(n, t)'] = [n \in Node |-> Placed(n, t)]
             /\ [n \in Node |-> copies'[n][t] + orders'[n][t]]
                   = [n \in Node |-> copies[n][t] + orders[n][t]]
  BY <1>1, Zenon
<1> QED BY <1>2, Zenon DEF CopiesAccounted

\* The end of a window orders as many copies as it places replicas.
LEMMA CloseAccounts ==
    ASSUME IInv, IInv', CopiesAccounted, NEW n \in Node, NEW t \in Task, CloseWindow(n, t)
    PROVE  CopiesAccounted'
<1> DEFINE assign == AssignReplicas(Total(t), props'[n][t], Node)
           all == InAll(props'[n][t], Total(t))
           one == [m \in Node |-> IF m \in {n} THEN all ELSE 0]
<1>1. Shape /\ Shape' /\ Decided' /\ Total(t) \in Nat /\ IsFiniteSet(Node)
  BY TotalType, SchedulerAssumption, Zenon DEF IInv
<1>2. /\ round[n][t] = "collecting"
      /\ round' = [round EXCEPT ![n][t] = "done"]
      /\ props' = [props EXCEPT ![n][t] = Decisive(n, t)]
      /\ copies' = [copies EXCEPT ![n][t] = copies[n][t] + assign[n]]
      /\ orders' = [m \in Node |->
            IF m = n THEN orders[m] ELSE [orders[m] EXCEPT ![t] = orders[m][t] + assign[m]]]
  BY Zenon DEF CloseWindow, EndWindow
<1>3. /\ round \in [Node -> [Task -> {"idle", "collecting", "done"}]]
      /\ props \in [Node -> [Task -> Seq(Proposal)]]
      /\ orders \in [Node -> [Task -> Nat]] /\ copies \in [Node -> [Task -> Nat]]
  BY <1>1, Zenon DEF Shape
<1>4. round'[n][t] = "done" /\ props'[n][t] \in Seq(Proposal) /\ Distinct(props'[n][t])
  <2>1. round'[n][t] = "done"
    BY <1>2, <1>3
  <2>2. PICK list \in Seq(Proposal) : Distinct(list) /\ props'[n][t] = Ranked(list)
    BY <1>1, <2>1, Zenon DEF Decided
  <2> QED BY <2>1, <2>2, RankedKeeps, Zenon
<1>5. assign \in [Node -> Nat] /\ SumOf(assign) = all
  BY <1>1, <1>4, GivenInAll, Zenon
<1> HIDE DEF assign
<1>6. /\ \A m \in Node, u \in Task : m # n \/ u # t =>
            round'[m][u] = round[m][u] /\ props'[m][u] = props[m][u]
  BY <1>2, <1>3
<1>7. ASSUME NEW m \in Node, NEW u \in Task, u # t
      PROVE  copies'[m][u] + orders'[m][u] = copies[m][u] + orders[m][u]
  <2>1. copies'[m][u] = copies[m][u]
    BY <1>2, <1>3, <1>7
  <2>2. orders'[m][u] = orders[m][u]
    BY <1>2, <1>3, <1>7
  <2> QED BY <2>1, <2>2, Zenon
<1>8. ASSUME NEW m \in Node
      PROVE  copies'[m][t] + orders'[m][t] = (copies[m][t] + orders[m][t]) + assign[m]
  <2> DEFINE a == copies[m][t]
             b == orders[m][t]
             c == assign[m]
  <2>1. a \in Nat /\ b \in Nat /\ c \in Nat
    BY <1>3, <1>5
  <2> HIDE DEF a, b, c
  <2>2. (a + c) + b = (a + b) + c /\ a + (b + c) = (a + b) + c
    BY <2>1
  <2>3. CASE m = n
    <3>1. copies'[m][t] = copies[m][t] + assign[m] /\ orders'[m][t] = orders[m][t]
      BY <1>2, <1>3, <2>3
    <3> QED BY <2>2, <3>1, Zenon DEF a, b, c
  <2>4. CASE m # n
    <3>1. copies'[m][t] = copies[m][t] /\ orders'[m][t] = orders[m][t] + assign[m]
      BY <1>2, <1>3, <2>4
    <3> QED BY <2>2, <3>1, Zenon DEF a, b, c
  <2> QED BY <2>3, <2>4, Zenon
<1>9. \A m \in Node, u \in Task : m # n \/ u # t => Placed(m, u)' = Placed(m, u)
  BY <1>6, Zenon DEF Placed, Total, Least
<1>10. Placed(n, t) = 0 /\ Placed(n, t)' = all /\ all \in Nat
  <2>1. Placed(n, t) = 0
    BY <1>2 DEF Placed
  <2>2. Placed(n, t)' = all
    BY <1>4, Zenon DEF Placed, InAll, Total, Least
  <2>3. all \in Nat
    BY <1>1, <1>5, SumType, Zenon
  <2> QED BY <2>1, <2>2, <2>3, Zenon
<1>11. ASSUME NEW u \in Task, u # t
       PROVE  SumOf([m \in Node |-> copies'[m][u] + orders'[m][u]])
                = SumOf([m \in Node |-> Placed(m, u)'])
  <2>1. [m \in Node |-> copies'[m][u] + orders'[m][u]] = [m \in Node |-> copies[m][u] + orders[m][u]]
    BY <1>7, <1>11, Zenon
  <2>2. [m \in Node |-> Placed(m, u)'] = [m \in Node |-> Placed(m, u)]
    BY <1>9, <1>11, Zenon
  <2> QED BY <2>1, <2>2, Zenon DEF CopiesAccounted
<1>12. SumOf([m \in Node |-> copies'[m][t] + orders'[m][t]])
         = SumOf([m \in Node |-> Placed(m, t)'])
  <2> DEFINE f == Copies(t)
             g == Plan(t)
  <2>1. /\ f \in [Node -> Nat] /\ g \in [Node -> Nat]
        /\ \A m \in Node : f[m] = copies[m][t] + orders[m][t] /\ g[m] = Placed(m, t)
    BY <1>1, PlanType, Zenon
  <2>2. SumOf(f) = SumOf(g)
    BY Zenon DEF CopiesAccounted, Copies, Plan
  <2> HIDE DEF f, g, all
  <2>3. [m \in Node |-> copies'[m][t] + orders'[m][t]] = [m \in Node |-> f[m] + assign[m]]
    BY <1>8, <2>1, Zenon
  <2>4. one \in [Node -> Nat] /\ \A m \in Node : one[m] = IF m = n THEN all ELSE 0
    <3>1. 0 \in Nat
      OBVIOUS
    <3> QED BY <1>10, <3>1, Zenon
  <2>5. SumOf(one) = all
    <3>1. {n} \in SUBSET Node /\ Cardinality({n}) = 1
      BY FS_Singleton, Zenon
    <3>2. SumOf(one) = all * Cardinality({n})
      BY <1>1, <1>10, <3>1, SumOn, Zenon
    <3>3. all * Cardinality({n}) = all
      BY <1>10, <3>1
    <3> QED BY <3>2, <3>3, Zenon
  <2> HIDE DEF one
  <2>6. ASSUME NEW m \in Node PROVE Placed(m, t)' = g[m] + one[m]
    <3>1. g[m] \in Nat /\ g[m] = Placed(m, t)
      BY <2>1, Zenon
    <3>2. CASE m = n
      <4>1. g[m] = 0 /\ one[m] = all /\ Placed(m, t)' = all
        BY <1>10, <2>4, <3>1, <3>2, Zenon
      <4> QED BY <1>10, <4>1
    <3>3. CASE m # n
      <4>1. one[m] = 0 /\ Placed(m, t)' = g[m]
        BY <1>9, <2>4, <3>1, <3>3, Zenon
      <4> QED BY <3>1, <4>1
    <3> QED BY <3>2, <3>3, Zenon
  <2>7. [m \in Node |-> Placed(m, t)'] = [m \in Node |-> g[m] + one[m]]
    BY <2>6, Zenon
  <2>8. /\ SumOf([m \in Node |-> f[m] + assign[m]]) = SumOf(f) + SumOf(assign)
        /\ SumOf([m \in Node |-> g[m] + one[m]]) = SumOf(g) + SumOf(one)
    BY <1>1, <1>5, <2>1, <2>4, SumAdd, Zenon
  <2> QED BY <1>5, <2>2, <2>3, <2>5, <2>7, <2>8, Zenon DEF all
<1> QED BY <1>11, <1>12, Zenon DEF CopiesAccounted

\* Every step keeps the account.
LEMMA StepAccounts ==
    ASSUME IInv, IInv', CopiesAccounted, [Next]_vars PROVE CopiesAccounted'
<1> DEFINE Still == \A m \in Node, u \in Task :
              /\ copies'[m][u] + orders'[m][u] = copies[m][u] + orders[m][u]
              /\ round'[m][u] = "done" <=> round[m][u] = "done"
              /\ round[m][u] = "done" => props'[m][u] = props[m][u]
<1>0. /\ round \in [Node -> [Task -> {"idle", "collecting", "done"}]]
      /\ props \in [Node -> [Task -> Seq(Proposal)]]
      /\ orders \in [Node -> [Task -> Nat]] /\ copies \in [Node -> [Task -> Nat]]
  BY Zenon DEF IInv, Shape
<1>1. ASSUME NEW n \in Node, NEW p \in Proposal, Receive(n, p) PROVE Still
  BY <1>1, Zenon DEF Receive
<1>2. ASSUME NEW n \in Node, NEW t \in Task, NEW score \in Scores[t], NEW stamp \in Stamps,
             StartRound(n, t, score, stamp)
      PROVE  Still
  <2>1. /\ round[n][t] = "idle" /\ round' = [round EXCEPT ![n][t] = "collecting"]
        /\ props' = props /\ orders' = orders /\ copies' = copies
    BY <1>2, Zenon DEF StartRound
  <2>2. \A m \in Node, u \in Task : round'[m][u] = "done" <=> round[m][u] = "done"
    BY <1>0, <2>1
  <2> QED BY <2>1, <2>2, Zenon
<1>3. ASSUME NEW n \in Node, NEW t \in Task, Collect(n, t) PROVE Still
  <2>1. /\ round[n][t] = "collecting" /\ round' = round /\ orders' = orders /\ copies' = copies
        /\ props' = props \/ props' = [props EXCEPT ![n][t] = Append(@, Head(intake[n]))]
    BY <1>3, Zenon DEF Collect
  <2>2. ASSUME NEW m \in Node, NEW u \in Task, round[m][u] = "done"
        PROVE  props'[m][u] = props[m][u]
    <3>1. m # n \/ u # t
      BY <2>1, <2>2
    <3>2. ASSUME NEW x, props' = [props EXCEPT ![n][t] = x] PROVE props'[m][u] = props[m][u]
      BY <1>0, <3>1, <3>2
    <3> QED BY <2>1, <3>2, Zenon
  <2> QED BY <2>1, <2>2, Zenon
<1>4. ASSUME NEW n \in Node, NEW t \in Task, DeployDelegated(n, t) PROVE Still
  <2>1. /\ orders[n][t] > 0 /\ orders' = [orders EXCEPT ![n][t] = orders[n][t] - 1]
        /\ copies' = [copies EXCEPT ![n][t] = copies[n][t] + 1]
        /\ round' = round /\ props' = props
    BY <1>4, Zenon DEF DeployDelegated
  <2>2. ASSUME NEW m \in Node, NEW u \in Task
        PROVE  copies'[m][u] + orders'[m][u] = copies[m][u] + orders[m][u]
    <3>1. CASE m = n /\ u = t
      <4>1. copies'[m][u] = copies[m][u] + 1 /\ orders'[m][u] = orders[m][u] - 1
        BY <1>0, <2>1, <3>1
      <4>2. copies[m][u] \in Nat /\ orders[m][u] \in Nat
        BY <1>0, Zenon
      <4> QED BY <4>1, <4>2
    <3>2. CASE ~(m = n /\ u = t)
      <4>1. copies'[m][u] = copies[m][u] /\ orders'[m][u] = orders[m][u]
        BY <1>0, <2>1, <3>2
      <4> QED BY <4>1, Zenon
    <3> QED BY <3>1, <3>2, Zenon
  <2> QED BY <2>1, <2>2, Zenon
<1>5. ASSUME UNCHANGED vars PROVE Still
  BY <1>5, Zenon DEF vars
<1>6. ASSUME Still PROVE CopiesAccounted'
  BY <1>6, NothingPlaced, Zenon
<1>7. ASSUME NEW n \in Node, NEW t \in Task, CloseWindow(n, t) PROVE CopiesAccounted'
  BY <1>7, CloseAccounts, Zenon
<1> HIDE DEF Still
<1> QED BY <1>1, <1>2, <1>3, <1>4, <1>5, <1>6, <1>7, Zenon DEF Next

-----------------------------------------------------------------------------
(* The theorems about the rounds *)

\* Types of the scheduling rounds: a round holds proposals of its own task only
\* (collect drops the others it takes from the channel), it has made a proposal
\* of its own exactly when it has started, and the channel of proposals never
\* holds more than its capacity.
THEOREM RoundsTypeCorrect == Spec => []TypeOK
<1> QED BY Invariant, InvType, PTL

\* Machines whose rounds decided on the same proposals gave every machine the
\* same number of replicas, in whatever order the proposals reached them
\* (DistributedSchedule's sort and assignReplicas).
THEOREM SameDecision == Spec => []SameProposalsSameDecision
<1> QED BY Invariant, InvSame, PTL

\* The largest-remainder rule of assignReplicas, for every finished round: a
\* machine's replicas are less than one off its exact share, and a machine that is
\* ranked before another never gets fewer.
THEOREM ProportionalSplit == Spec => []Proportional
BY Invariant, InvProportional, PTL

\* "At least 1 to the top node": a finished round gives a replica to the machine it
\* ranks first, with and without positive scores, however few replicas are asked.
THEOREM TopNodeGetsOne == Spec => []TopNodeServed
BY Invariant, InvTop, PTL

\* Rounding, delegation and deployment lose and add no replica: the copies of a
\* task, deployed or on order, are what its finished rounds placed.  So k rounds
\* of a task deploy k times its replicas.
THEOREM NoCopyLost == Spec => []CopiesAccounted
<1>1. IInv /\ IInv' /\ CopiesAccounted /\ [Next]_vars => CopiesAccounted'
  BY StepAccounts, Zenon
<1> QED BY <1>1, InitAccounted, Invariant, PTL DEF Spec

-----------------------------------------------------------------------------
(* Some machine keeps a copy *)

\* The best of finitely many machines by their proposals: the places of their
\* list begin with one.
LEMMA BestOf ==
    ASSUME NEW S, IsFiniteSet(S), S # {}, NEW f \in [S -> Proposal],
           \A n \in S : f[n].node = n
    PROVE  \E b \in S : \A m \in S : m # b => Before(f[b], f[m])
<1> DEFINE c == Cardinality(S)
<1>1. c \in Nat /\ c # 0
  BY FS_CardinalityType, FS_EmptySet, Zenon
<1>2. PICK at \in Bijection(1..c, S) : TRUE
  BY FS_CardinalityType, Zenon DEF ExistsBijection
<1> HIDE DEF c
<1>3. /\ at \in [1..c -> S] /\ \A i, j \in 1..c : at[i] = at[j] => i = j
      /\ \A m \in S : \E i \in 1..c : at[i] = m
  BY <1>2, Zenon DEF Bijection, Injection, IsInjective, Surjection
<1> DEFINE list == [i \in 1..c |-> f[at[i]]]
<1>4. list \in [1..c -> Proposal] /\ \A i \in 1..c : list[i] = f[at[i]] /\ list[i].node = at[i]
  BY <1>3, Zenon
<1> HIDE DEF list
<1>5. list \in Seq(Proposal) /\ DOMAIN list = 1..c
  BY <1>1, <1>4
<1>6. Distinct(list)
  <2>1. ASSUME NEW i \in DOMAIN list, NEW j \in DOMAIN list, list[i].node = list[j].node
        PROVE  i = j
    <3>1. i \in 1..c /\ j \in 1..c
      BY <1>5
    <3>2. at[i] = at[j]
      BY <1>4, <2>1, <3>1, Zenon
    <3> QED BY <1>3, <3>1, <3>2, Zenon
  <2> QED BY <2>1, Zenon DEF Distinct
<1>7. 1 \in DOMAIN list
  BY <1>1, <1>5
<1>8. PICK i \in DOMAIN list : Position(list, i) = 1
  BY <1>5, <1>6, <1>7, PositionOnto, Zenon
<1>9. ASSUME NEW j \in DOMAIN list, j # i PROVE Before(list[i], list[j])
  <2>1. list[i] \in Proposal /\ list[j] \in Proposal /\ list[i].node # list[j].node
    <3>1. list[i] \in Proposal /\ list[j] \in Proposal
      <4>1. i \in 1..c /\ j \in 1..c
        BY <1>5, <1>8, Zenon
      <4> QED BY <1>4, <4>1, Zenon
    <3>2. list[i].node # list[j].node
      BY <1>6, <1>8, <1>9, Zenon DEF Distinct
    <3> QED BY <3>1, <3>2, Zenon
  <2>2. Before(list[i], list[j]) \/ Before(list[j], list[i])
    BY <2>1, BeforeOrders, Zenon
  <2>3. ~Before(list[j], list[i])
    <3>1. ASSUME Before(list[j], list[i]) PROVE Position(list, j) < 1
      BY <1>5, <1>6, <1>8, <3>1, PositionOrder, Zenon
    <3>2. Position(list, j) \in 1..Len(list)
      BY <1>5, <1>6, PositionCounts, Zenon
    <3>3. ~(Position(list, j) < 1)
      BY <3>2
    <3> QED BY <3>1, <3>3, Zenon
  <2> QED BY <2>2, <2>3, Zenon
<1>10. ASSUME NEW m \in S, m # at[i] PROVE Before(f[at[i]], f[m])
  <2>1. PICK j \in 1..c : at[j] = m
    BY <1>3, Zenon
  <2>2. Before(list[i], list[j])
    BY <1>5, <1>9, <1>10, <2>1, Zenon
  <2> QED BY <1>4, <1>5, <2>1, <2>2, Zenon
<1>11. at[i] \in S
  BY <1>3, <1>5, Zenon
<1> QED BY <1>10, <1>11, Zenon

\* What comes first in a sorted list comes before everything else in it.
LEMMA RankedFirst ==
    ASSUME NEW list \in Seq(Proposal), Distinct(list), NEW p \in Range(Ranked(list))
    PROVE  /\ Ranked(list)[1] \in Range(Ranked(list))
           /\ p # Ranked(list)[1] => ~Before(p, Ranked(list)[1])
<1>1. DOMAIN Ranked(list) = DOMAIN list /\ DOMAIN list = 1..Len(list) /\ Len(list) \in Nat
  BY DEF Ranked
<1>2. PICK k \in DOMAIN list : p = Ranked(list)[k]
  BY <1>1, Zenon DEF Range
<1>3. 1 \in DOMAIN list /\ k \in Nat /\ ~(k < 1)
  BY <1>1, <1>2
<1>4. PICK a \in DOMAIN list : Position(list, a) = 1
  BY <1>3, PositionOnto, Zenon
<1>5. PICK b \in DOMAIN list : Position(list, b) = k
  BY PositionOnto, Zenon
<1>6. Ranked(list)[1] = list[a] /\ Ranked(list)[k] = list[b]
  BY <1>4, <1>5, RankedAt, Zenon
<1>7. ASSUME Before(list[b], list[a]) PROVE FALSE
  BY <1>3, <1>4, <1>5, <1>7, PositionOrder, Zenon
<1> QED BY <1>1, <1>2, <1>3, <1>6, <1>7, Zenon DEF Range

\* A finished round took its own proposal into account and deployed what it gave
\* to its own machine.
Kept ==
    \A n \in Node, t \in Task : round[n][t] = "done" =>
        /\ own[n][t] \subseteq Range(props[n][t])
        /\ copies[n][t] >= given[n][t][n]

\* A machine makes one proposal of its own for a task.
LEMMA OneOwn ==
    ASSUME OwnOnce, NEW n \in Node, NEW t \in Task
    PROVE  /\ \A p, q \in own[n][t] : p = q
           /\ \A p \in own[n][t] : p.node = n /\ p.task = t
<1>1. \A p, q \in own[n][t] : p = q
  BY Zenon DEF OwnOnce
<1>2. \A p \in own[n][t] : p.node = n /\ p.task = t
  BY Zenon DEF OwnOnce
<1> QED BY <1>1, <1>2, Zenon

\* What the end of a window leaves of the other rounds.
OthersKept(n, t) ==
    \A m \in Node, u \in Task : m # n \/ u # t =>
        /\ round'[m][u] = round[m][u] /\ props'[m][u] = props[m][u]
        /\ given'[m][u] = given[m][u] /\ copies'[m][u] = copies[m][u]

\* The end of a window deploys the machine's own share.
LEMMA CloseDeploys ==
    ASSUME IInv, IInv', NEW n \in Node, NEW t \in Task, CloseWindow(n, t)
    PROVE  /\ own'[n][t] \subseteq Range(props'[n][t])
           /\ copies'[n][t] >= given'[n][t][n]
           /\ own' = own /\ OthersKept(n, t)
<1> DEFINE p == CHOOSE q \in own[n][t] : TRUE
           new == Ranked(Upsert(props[n][t], p))
           assign == AssignReplicas(Total(t), props'[n][t], Node)
<1>1. /\ Shape /\ OwnOnce /\ AllMade /\ ArrivesOnce /\ Shape'
      /\ round \in [Node -> [Task -> {"idle", "collecting", "done"}]]
      /\ props \in [Node -> [Task -> Seq(Proposal)]]
      /\ given \in [Node -> [Task -> [Node -> Nat]]]
      /\ copies \in [Node -> [Task -> Nat]]
      /\ own \in [Node -> [Task -> SUBSET Proposal]]
  BY Zenon DEF IInv, Shape
<1>2. /\ round[n][t] = "collecting"
      /\ round' = [round EXCEPT ![n][t] = "done"]
      /\ props' = [props EXCEPT ![n][t] = new]
      /\ own' = own
      /\ given' = [given EXCEPT ![n][t] = assign]
      /\ copies' = [copies EXCEPT ![n][t] = copies[n][t] + assign[n]]
  BY Zenon DEF CloseWindow, EndWindow, Decisive
<1>3. own[n][t] # {}
  <2>1. round[n][t] # "idle"
    BY <1>2
  <2> QED BY <1>1, <2>1, Zenon DEF OwnOnce
<1>4. p \in own[n][t]
  BY <1>3
<1> HIDE DEF p
<1>5. p \in Proposal /\ p.node = n /\ p.task = t /\ \A q \in own[n][t] : q = p
  <2>1. own[n][t] \subseteq Proposal
    BY <1>1
  <2>2. /\ \A q, r \in own[n][t] : q = r
        /\ \A q \in own[n][t] : q.node = n /\ q.task = t
    BY <1>1, OneOwn, Zenon
  <2> QED BY <1>4, <2>1, <2>2, Zenon
<1>6. \A q \in Range(props[n][t]) : q.node = p.node => q = p
  <2>1. ASSUME NEW q \in Range(props[n][t]), q.node = n PROVE q = p
    <3>1. q.task = t /\ q \in own[q.node][q.task]
      BY <1>1, Zenon DEF AllMade, Collected, Made
    <3> QED BY <1>5, <2>1, <3>1, Zenon
  <2> QED BY <1>5, <2>1, Zenon
<1>7. /\ Upsert(props[n][t], p) \in Seq(Proposal) /\ Distinct(Upsert(props[n][t], p))
      /\ p \in Range(Upsert(props[n][t], p))
  <2>1. props[n][t] \in Seq(Proposal) /\ Distinct(props[n][t])
    <3>1. Distinct(props[n][t])
      BY <1>1, Zenon DEF ArrivesOnce
    <3>2. props[n][t] \in Seq(Proposal)
      BY <1>1
    <3> QED BY <3>1, <3>2, Zenon
  <2>2. /\ Upsert(props[n][t], p) \in Seq(Proposal) /\ Distinct(Upsert(props[n][t], p))
        /\ Range(Upsert(props[n][t], p)) = Range(props[n][t]) \union {p}
    BY <1>5, <1>6, <2>1, UpsertOwn, Zenon
  <2> QED BY <2>2, Zenon
<1>8. new \in Seq(Proposal) /\ p \in Range(new)
  BY <1>7, RankedKeeps, Zenon
<1> HIDE DEF new
<1>9. /\ props'[n][t] = new
      /\ \A m \in Node, u \in Task : m # n \/ u # t => props'[m][u] = props[m][u]
  BY <1>1, <1>2, <1>8, Update
<1>10. assign \in [Node -> Nat]
  BY <1>8, <1>9, TotalType, AssignType, Zenon
<1> HIDE DEF assign
<1>11. given'[n][t] = assign
  <2> DEFINE Split == [Node -> Nat]
  <2>1. given \in [Node -> [Task -> Split]] /\ assign \in Split
    BY <1>1, <1>10, Zenon
  <2> HIDE DEF Split
  <2> QED BY <1>2, <2>1, Update
<1>12. copies'[n][t] >= assign[n]
  <2>1. copies[n][t] \in Nat /\ assign[n] \in Nat
    BY <1>1, <1>10
  <2>2. copies'[n][t] = copies[n][t] + assign[n]
    BY <1>1, <1>2
  <2> QED BY <2>1, <2>2
<1>13. \A m \in Node, u \in Task : m # n \/ u # t =>
          /\ round'[m][u] = round[m][u] /\ given'[m][u] = given[m][u]
          /\ copies'[m][u] = copies[m][u]
  BY <1>1, <1>2
<1>14. own'[n][t] \subseteq Range(props'[n][t])
  BY <1>2, <1>5, <1>8, <1>9, Zenon
<1>15. copies'[n][t] >= given'[n][t][n]
  BY <1>11, <1>12, Zenon
<1>16. own' = own
  BY <1>2, Zenon
<1>17. OthersKept(n, t)
  BY <1>9, <1>13, Zenon DEF OthersKept
<1> QED BY <1>14, <1>15, <1>16, <1>17, Zenon

\* Nothing takes a copy away, and finished rounds stay as they are.
LEMMA KeptStep ==
    ASSUME IInv, IInv', Kept, [Next]_vars PROVE Kept'
<1> DEFINE Same(m, u) ==
              /\ round[m][u] = "done"
              /\ own'[m][u] = own[m][u] /\ props'[m][u] = props[m][u]
              /\ given'[m][u] = given[m][u] /\ copies'[m][u] >= copies[m][u]
           Still == \A m \in Node, u \in Task : round'[m][u] = "done" => Same(m, u)
<1>0. /\ round \in [Node -> [Task -> {"idle", "collecting", "done"}]]
      /\ own \in [Node -> [Task -> SUBSET Proposal]]
      /\ props \in [Node -> [Task -> Seq(Proposal)]]
      /\ given \in [Node -> [Task -> [Node -> Nat]]]
      /\ copies \in [Node -> [Task -> Nat]]
  BY Zenon DEF IInv, Shape
<1>a. \A m \in Node, u \in Task : copies[m][u] \in Nat /\ copies[m][u] >= copies[m][u]
  BY <1>0
<1>b. ASSUME NEW m \in Node, NEW u \in Task, Kept, Same(m, u)
      PROVE  own'[m][u] \subseteq Range(props'[m][u]) /\ copies'[m][u] >= given'[m][u][m]
  <2>1. own[m][u] \subseteq Range(props[m][u]) /\ copies[m][u] >= given[m][u][m]
    BY <1>b, Zenon DEF Kept
  <2>2. copies[m][u] \in Int /\ copies'[m][u] \in Int /\ given[m][u][m] \in Int
    <3>1. copies'[m][u] \in Nat
      BY Zenon DEF IInv, Shape
    <3>2. copies[m][u] \in Nat /\ given[m][u][m] \in Nat
      BY <1>0
    <3> QED BY <3>1, <3>2
  <2>3. copies'[m][u] >= given[m][u][m]
    BY <1>b, <2>1, <2>2
  <2> QED BY <1>b, <2>1, <2>3, Zenon
<1>1. ASSUME NEW n \in Node, NEW p \in Proposal, Receive(n, p) PROVE Still
  BY <1>1, <1>a, Zenon DEF Receive
<1>2. ASSUME NEW n \in Node, NEW t \in Task, NEW score \in Scores[t], NEW stamp \in Stamps,
             StartRound(n, t, score, stamp)
      PROVE  Still
  <2> DEFINE p == [task |-> t, node |-> n, score |-> score, stamp |-> stamp]
  <2>1. /\ round[n][t] = "idle" /\ round' = [round EXCEPT ![n][t] = "collecting"]
        /\ own' = [own EXCEPT ![n][t] = {p}]
        /\ props' = props /\ given' = given /\ copies' = copies
    BY <1>2, Zenon DEF StartRound
  <2> HIDE DEF p
  <2>2. ASSUME NEW m \in Node, NEW u \in Task, round'[m][u] = "done"
        PROVE  round[m][u] = "done" /\ own'[m][u] = own[m][u]
    <3>1. m # n \/ u # t
      BY <1>0, <2>1, <2>2
    <3>2. round'[m][u] = round[m][u]
      BY <1>0, <2>1, <3>1
    <3>3. own'[m][u] = own[m][u]
      BY <1>0, <2>1, <3>1
    <3> QED BY <2>2, <3>2, <3>3, Zenon
  <2> QED BY <1>a, <2>1, <2>2, Zenon
<1>3. ASSUME NEW n \in Node, NEW t \in Task, Collect(n, t) PROVE Still
  <2>1. /\ round[n][t] = "collecting" /\ round' = round /\ own' = own
        /\ given' = given /\ copies' = copies
        /\ props' = props \/ props' = [props EXCEPT ![n][t] = Append(@, Head(intake[n]))]
    BY <1>3, Zenon DEF Collect
  <2>2. ASSUME NEW m \in Node, NEW u \in Task, round[m][u] = "done"
        PROVE  props'[m][u] = props[m][u]
    <3>1. m # n \/ u # t
      BY <2>1, <2>2
    <3>2. ASSUME NEW x, props' = [props EXCEPT ![n][t] = x] PROVE props'[m][u] = props[m][u]
      BY <1>0, <3>1, <3>2
    <3> QED BY <2>1, <3>2, Zenon
  <2> QED BY <1>a, <2>1, <2>2, Zenon
<1>4. ASSUME NEW n \in Node, NEW t \in Task, DeployDelegated(n, t) PROVE Still
  <2>1. /\ copies' = [copies EXCEPT ![n][t] = copies[n][t] + 1]
        /\ round' = round /\ own' = own /\ props' = props /\ given' = given
    BY <1>4, Zenon DEF DeployDelegated
  <2>2. ASSUME NEW m \in Node, NEW u \in Task PROVE copies'[m][u] >= copies[m][u]
    <3>1. copies'[m][u] = copies[m][u] \/ copies'[m][u] = copies[m][u] + 1
      BY <1>0, <2>1
    <3>2. copies[m][u] \in Nat
      BY <1>a, Zenon
    <3> QED BY <3>1, <3>2
  <2> QED BY <2>1, <2>2, Zenon
<1>5. ASSUME UNCHANGED vars PROVE Still
  BY <1>5, <1>a, Zenon DEF vars
<1>6. ASSUME Still PROVE Kept'
  BY <1>6, <1>b, Zenon DEF Kept
<1>7. ASSUME NEW n \in Node, NEW t \in Task, CloseWindow(n, t) PROVE Kept'
  <2>0. /\ own'[n][t] \subseteq Range(props'[n][t]) /\ copies'[n][t] >= given'[n][t][n]
        /\ own' = own /\ OthersKept(n, t)
    BY <1>7, CloseDeploys, Zenon
  <2>1. ASSUME NEW m \in Node, NEW u \in Task, round'[m][u] = "done"
        PROVE  own'[m][u] \subseteq Range(props'[m][u]) /\ copies'[m][u] >= given'[m][u][m]
    <3>1. CASE m = n /\ u = t
      BY <2>0, <3>1, Zenon
    <3>2. CASE m # n \/ u # t
      <4>1. Same(m, u)
        <5>1. /\ round'[m][u] = round[m][u] /\ props'[m][u] = props[m][u] /\ own' = own
              /\ given'[m][u] = given[m][u] /\ copies'[m][u] = copies[m][u]
          BY <2>0, <3>2, Zenon DEF OthersKept
        <5>2. copies'[m][u] >= copies[m][u]
          BY <1>a, <5>1, Zenon
        <5> QED BY <2>1, <5>1, <5>2, Zenon
      <4> QED BY <1>b, <4>1, Zenon
    <3> QED BY <3>1, <3>2, Zenon
  <2> QED BY <2>1, Zenon DEF Kept
<1> HIDE DEF Still
<1> QED BY <1>1, <1>2, <1>3, <1>4, <1>5, <1>6, <1>7, Zenon DEF Next

\* Of the machines that scheduled a task the one with the best proposal ranks
\* itself first, whatever it has heard of the others.
LEMMA BestKeeps == IInv /\ Kept => NotOnlyDelegated
<1> SUFFICES ASSUME IInv, Kept, NEW t \in Task, NEW n \in Node, Done(n, t),
                    \A m \in Node : round[m][t] # "collecting"
             PROVE  \E m \in Node : copies[m][t] > 0
  BY Zenon DEF NotOnlyDelegated
<1> DEFINE S == {m \in Node : round[m][t] = "done"}
           mine(m) == CHOOSE p \in own[m][t] : TRUE
           f == [m \in S |-> mine(m)]
<1>1. /\ Shape /\ OwnOnce /\ AllMade /\ Decided
      /\ own \in [Node -> [Task -> SUBSET Proposal]]
      /\ round \in [Node -> [Task -> {"idle", "collecting", "done"}]]
  BY Zenon DEF IInv, Shape
<1>2. S \in SUBSET Node /\ n \in S
  BY Zenon DEF Done
<1>3. IsFiniteSet(S)
  BY <1>2, SchedulerAssumption, FS_Subset, Zenon
<1>4. ASSUME NEW m \in S
      PROVE  /\ f[m] \in own[m][t] /\ f[m] \in Proposal /\ f[m].node = m
             /\ \A p \in own[m][t] : p = f[m]
  <2>1. m \in Node /\ round[m][t] # "idle"
    OBVIOUS
  <2>2. own[m][t] # {}
    BY <1>1, <2>1, Zenon DEF OwnOnce
  <2>3. mine(m) \in own[m][t]
    BY <2>2
  <2> HIDE DEF mine
  <2>4. f[m] = mine(m)
    BY Zenon
  <2> HIDE DEF f
  <2>5. own[m][t] \subseteq Proposal
    BY <1>1, <2>1
  <2>6. /\ \A p, q \in own[m][t] : p = q
        /\ \A p \in own[m][t] : p.node = m
    BY <1>1, <2>1, OneOwn, Zenon
  <2> QED BY <2>3, <2>4, <2>5, <2>6, Zenon
<1> HIDE DEF mine
<1>5. f \in [S -> Proposal]
  <2>1. \A m \in S : mine(m) = f[m]
    BY Zenon
  <2>2. \A m \in S : mine(m) \in Proposal
    BY <1>4, <2>1, Zenon
  <2> QED BY <2>2, Zenon
<1>6. \A m \in Node : round[m][t] = "done" <=> m \in S
  BY Zenon
<1>7. \A m \in Node : own[m][t] # {} => m \in S
  <2>1. ASSUME NEW m \in Node, own[m][t] # {} PROVE round[m][t] = "done"
    <3>1. round[m][t] # "idle" /\ round[m][t] # "collecting"
      BY <1>1, <2>1, Zenon DEF OwnOnce
    <3> QED BY <1>1, <3>1
  <2> QED BY <1>6, <2>1, Zenon
<1> HIDE DEF S, f
<1>8. PICK b \in S : \A m \in S : m # b => Before(f[b], f[m])
  BY <1>2, <1>3, <1>4, <1>5, BestOf, Zenon
<1>9. b \in Node /\ round[b][t] = "done"
  BY <1>2, <1>6, Zenon
<1>10. PICK list \in Seq(Proposal) : Distinct(list) /\ props[b][t] = Ranked(list)
  BY <1>1, <1>9, Zenon DEF Decided
<1> DEFINE top == Ranked(list)[1]
<1>11. f[b] \in Range(Ranked(list))
  BY <1>4, <1>9, <1>10, Zenon DEF Kept
<1>12. top \in Range(Ranked(list)) /\ (f[b] # top => ~Before(f[b], top))
  BY <1>10, <1>11, RankedFirst, Zenon
<1> HIDE DEF top
<1>13. top.task = t /\ top \in own[top.node][t] /\ top.node \in Node
  <2>1. top \in Collected(b, t)
    BY <1>10, <1>12, Zenon DEF Collected
  <2>2. top.task = t /\ Made(top) /\ top \in Proposal
    BY <1>1, <1>9, <2>1, HeldProposals, Zenon DEF AllMade
  <2> QED BY <2>2, ProposalFields, Zenon DEF Made
<1>14. top.node = b
  <2>1. top.node \in S /\ top = f[top.node]
    BY <1>4, <1>7, <1>13, Zenon
  <2>2. ASSUME top.node # b PROVE FALSE
    <3>1. Before(f[b], top)
      BY <1>8, <2>1, <2>2, Zenon
    <3>2. f[b] # top
      BY <1>4, <2>2, Zenon
    <3> QED BY <1>12, <3>1, <3>2, Zenon
  <2> QED BY <2>2, Zenon
<1>15. given[b][t][b] >= 1
  <2>1. TopNodeServed
    BY InvTop, Zenon
  <2>2. given[b][t][props[b][t][1].node] >= 1
    BY <1>9, <2>1, Zenon DEF TopNodeServed, Done
  <2> QED BY <1>10, <1>14, <2>2, Zenon DEF top
<1>16. copies[b][t] >= given[b][t][b]
  BY <1>9, Zenon DEF Kept
<1>17. copies[b][t] \in Nat /\ given[b][t][b] \in Nat
  BY <1>1, <1>9 DEF Shape
<1>18. copies[b][t] > 0
  BY <1>15, <1>16, <1>17
<1> QED BY <1>9, <1>18, Zenon

\* Once all machines that scheduled a task have decided, one of them has deployed
\* it, whatever was lost or dropped between them: the machine with the best
\* proposal knows its own proposal and ranks itself first, so the machines never
\* all delegate to one another.
THEOREM SomebodyDeploys == Spec => []NotOnlyDelegated
<1>1. Init => Kept
  BY DEF Init, Kept
<1>2. IInv /\ IInv' /\ Kept /\ [Next]_vars => Kept'
  BY KeptStep, Zenon
<1> QED BY <1>1, <1>2, Invariant, BestKeeps, PTL DEF Spec

\* assignReplicas keeps its promise for any machines, proposals and positive
\* number of replicas: the first proposal gets one, all are given away, and the
\* shares are proportional.
THEOREM AssignmentIsSound ==
    \A total \in Nat \ {0}, list \in Seq(Proposal) :
        Distinct(list) /\ list # <<>> => Sound(total, list, Node)
<1> SUFFICES ASSUME NEW total \in Nat, total # 0, NEW list \in Seq(Proposal), Distinct(list),
                    list # <<>>
             PROVE  Sound(total, list, Node)
  BY Zenon
<1> DEFINE ranked == Ranked(list)
           got == AssignReplicas(total, ranked, Node)
           r == Handed(total, ranked)
<1>1. ranked \in Seq(Proposal) /\ Distinct(ranked) /\ Len(ranked) = Len(list)
  BY RankedKeeps, Zenon
<1>2. \A i, j \in DOMAIN ranked : i < j => ranked[i].score >= ranked[j].score
  BY RankedSorted, Zenon
<1>3. Len(list) \in Nat /\ Len(list) # 0
  OBVIOUS
<1> HIDE DEF ranked
<1>4. 1 \in DOMAIN ranked
  BY <1>1, <1>3
<1>5. \A i \in DOMAIN ranked : got[ranked[i].node] = r[i]
  BY <1>1, ReplicasOf, Zenon
<1>6. r[1] >= 1
  BY <1>1, <1>2, <1>4, TopGetsOne, Zenon
<1>7. SumOf(got) = IF SumScores(ranked) > 0 THEN total ELSE Least(total, Len(list))
  BY <1>1, GivenInAll, Zenon DEF InAll
<1>8. Fair(ranked, total, r) /\ (SumScores(ranked) > 0 => SumScores(ranked) # 0)
  <2>1. Fair(ranked, total, r)
    BY <1>1, HandedFair, Zenon
  <2>2. SumScores(ranked) > 0 => SumScores(ranked) # 0
    OBVIOUS
  <2> QED BY <2>1, <2>2, Zenon
<1> HIDE DEF got, r
<1>9. got[ranked[1].node] >= 1
  BY <1>4, <1>5, <1>6, Zenon
<1>10. SumScores(ranked) > 0 =>
         \A i \in DOMAIN ranked :
            /\ -SumScores(ranked) < SumScores(ranked) * got[ranked[i].node] - ranked[i].score * total
            /\ SumScores(ranked) * got[ranked[i].node] - ranked[i].score * total < SumScores(ranked)
  BY <1>5, <1>8, Zenon DEF Fair
<1> QED BY <1>7, <1>9, <1>10, Zenon DEF Sound, ranked, got

================================================================================
