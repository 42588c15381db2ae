------------------------------- MODULE Counting -------------------------------
(***************************************************************************)
(* Facts about numbers and finite sets that several proofs need: induction  *)
(* up to a bound, and the least and the greatest value of a function.       *)
(***************************************************************************)
EXTENDS Integers, FiniteSets, FiniteSetTheorems, TLAPS

(* Induction up to a bound, stated of a set: the numbers missing from S      *)
(* would go into themselves without their greatest by the step downwards,    *)
(* and no finite set fits into a smaller one.                                *)
LEMMA UpTo ==
  ASSUME NEW n \in Nat, NEW S, 0 \in S, \A i \in 0 .. n - 1 : i \in S => i + 1 \in S
  PROVE  0 .. n \subseteq S
<1> SUFFICES ASSUME NEW x \in 0 .. n, x \notin S PROVE FALSE
  OBVIOUS
<1> DEFINE T == {i \in 0 .. x : i \notin S}
           U == T \ {x}
           f == [i \in T |-> i - 1]
<1>1. /\ IsFiniteSet(T) /\ IsFiniteSet(U)
      /\ Cardinality(T) \in Nat /\ Cardinality(U) = Cardinality(T) - 1
  <2>1. IsFiniteSet(0 .. x)
    BY FS_Interval
  <2>2. T \subseteq 0 .. x /\ x \in T
    OBVIOUS
  <2> QED
    BY <2>1, <2>2, FS_Subset, FS_CardinalityType, FS_RemoveElement
<1>2. f \in [T -> U]
  <2> SUFFICES ASSUME NEW i \in T PROVE i - 1 \in U
    OBVIOUS
  <2>1. i # 0 /\ i \in 1 .. x
    OBVIOUS
  <2>2. i - 1 \in 0 .. n - 1
    BY <2>1
  <2>3. i - 1 \notin S
    BY <2>2, <2>1
  <2> QED
    BY <2>1, <2>3
<1>3. \A a, b \in T : f[a] = f[b] => a = b
  OBVIOUS
<1>4. f \in Injection(T, U)
  BY <1>2, <1>3, Zenon DEF Injection, IsInjective
<1>5. Cardinality(T) <= Cardinality(U)
  BY <1>1, <1>4, FS_Injection
<1> QED
  BY <1>1, <1>5

(* A set of natural numbers with a member has a least one.                   *)
LEMMA LeastOf ==
  ASSUME NEW S \in SUBSET Nat, S # {}
  PROVE  \E k \in S : \A i \in S : k <= i
<1> PICK n \in S : TRUE
  OBVIOUS
<1> SUFFICES ASSUME \A k \in S : \E i \in S : i < k PROVE FALSE
  OBVIOUS
<1> DEFINE below == {i \in 0 .. n : \A k \in S : i <= k}
<1>1. 0 \in below
  OBVIOUS
<1>2. \A i \in 0 .. n - 1 : i \in below => i + 1 \in below
  OBVIOUS
<1> HIDE DEF below
<1>3. 0 .. n \subseteq below
  BY <1>1, <1>2, UpTo
<1>4. n \in below
  BY <1>3
<1> QED
  BY <1>4 DEF below

(* A function takes a greatest and a least value on a finite set.            *)
LEMMA GreatestAt ==
  ASSUME NEW S, IsFiniteSet(S), S # {}, NEW f, \A k \in S : f[k] \in Int
  PROVE  \E k \in S : \A j \in S : f[j] <= f[k]
<1> DEFINE above(k) == {j \in S : f[j] > f[k]}
           counts == {Cardinality(above(k)) : k \in S}
<1>1. \A k \in S : IsFiniteSet(above(k)) /\ Cardinality(above(k)) \in Nat
  <2> TAKE k \in S
  <2>1. above(k) \in SUBSET S
    OBVIOUS
  <2> QED
    BY <2>1, FS_Subset, FS_CardinalityType
<1>2. counts \in SUBSET Nat /\ counts # {}
  BY <1>1
<1>3. PICK n \in counts : \A m \in counts : n <= m
  BY <1>2, LeastOf
<1>4. PICK k \in S : n = Cardinality(above(k))
  BY <1>3
<1>5. ASSUME NEW j \in S, f[j] > f[k] PROVE FALSE
  <2>1. above(j) \in SUBSET above(k) /\ above(j) # above(k)
    BY <1>5
  <2>2. Cardinality(above(j)) < Cardinality(above(k))
    <3>1. /\ Cardinality(above(j)) <= Cardinality(above(k))
          /\ Cardinality(above(k)) = Cardinality(above(j)) => above(k) = above(j)
      <4> HIDE DEF above
      <4> QED
        BY <1>1, <2>1, FS_Subset
    <3> QED
      BY <1>1, <2>1, <3>1
  <2>3. Cardinality(above(j)) \in counts
    OBVIOUS
  <2> HIDE DEF above, counts
  <2> QED
    BY <1>1, <1>3, <1>4, <2>2, <2>3
<1> QED
  BY <1>5

(* The least value is the greatest of the negated ones.                      *)
LEMMA LeastAt ==
  ASSUME NEW S, IsFiniteSet(S), S # {}, NEW f, \A k \in S : f[k] \in Int
  PROVE  \E k \in S : \A j \in S : f[k] <= f[j]
<1> DEFINE g == [k \in S |-> -f[k]]
<1>1. \A k \in S : g[k] \in Int
  OBVIOUS
<1> HIDE DEF g
<1>2. PICK k \in S : \A j \in S : g[j] <= g[k]
  BY <1>1, GreatestAt
<1> QED
  BY <1>2 DEF g
=============================================================================
