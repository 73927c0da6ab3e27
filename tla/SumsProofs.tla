----------------------------- MODULE SumsProofs -----------------------------
(***************************************************************************)
(* Facts about sums, and the least element of a set of naturals.           *)
(***************************************************************************)
EXTENDS Sums, FiniteSetTheorems, WellFoundedInduction, TLAPS

(* From the well-founded order of the naturals.                             *)
LEMMA Least ==
  ASSUME NEW S \in SUBSET Nat, S # {}
  PROVE  \E m \in S : \A k \in S : m <= k
<1>1. PICK m \in S : \A y \in S : ~(<<y, m>> \in OpToRel(<, Nat))
  BY NatLessThanWellFounded, WFMin, Zenon
<1>2. \A y \in S : ~(y < m)
  BY <1>1, Zenon DEF OpToRel
<1> QED
  BY <1>2

-----------------------------------------------------------------------------
(* A unit is a pair of an argument and a number up to its value.            *)
LEMMA UnitsMember ==
  ASSUME NEW f, NEW u
  PROVE  u \in Units(f) <=>
           \E k \in DOMAIN f : \E i \in 1..f[k] : u = <<k, i>>
BY DEF Units

LEMMA Positions ==
  ASSUME NEW n \in Nat
  PROVE  IsFiniteSet(1..n) /\ Cardinality(1..n) = n
BY FS_Interval

LEMMA SubsetOfPositions ==
  ASSUME NEW n \in Nat, NEW S \in SUBSET (1..n)
  PROVE  IsFiniteSet(S) /\ Cardinality(S) \in Nat /\ Cardinality(S) <= n
<1> DEFINE P == 1..n
<1>1. IsFiniteSet(P) /\ Cardinality(P) = n /\ S \in SUBSET P
  BY Positions
<1> HIDE DEF P
<1>2. IsFiniteSet(S) /\ Cardinality(S) <= Cardinality(P)
  BY <1>1, FS_Subset
<1> QED
  BY <1>1, <1>2, FS_CardinalityType

LEMMA SupersetOfPositions ==
  ASSUME NEW n \in Nat, NEW S, IsFiniteSet(S), 1..n \in SUBSET S
  PROVE  n <= Cardinality(S)
<1> DEFINE P == 1..n
<1>1. Cardinality(P) = n /\ P \in SUBSET S
  BY Positions
<1> HIDE DEF P
<1>2. Cardinality(P) <= Cardinality(S)
  BY <1>1, FS_Subset
<1> QED
  BY <1>1, <1>2

(* n copies of one element.                                                 *)
LEMMA Copies ==
  ASSUME NEW k, NEW n \in Nat
  PROVE  IsFiniteSet({k} \X (1..n)) /\ Cardinality({k} \X (1..n)) = n
<1>1. IsFiniteSet(1..n) /\ Cardinality(1..n) = n
  BY Positions
<1>2. IsFiniteSet({k}) /\ Cardinality({k}) = 1
  BY FS_Singleton
<1> QED
  BY <1>1, <1>2, FS_Product

LEMMA DisjointUnion ==
  ASSUME NEW A, IsFiniteSet(A), NEW B, IsFiniteSet(B), A \cap B = {}
  PROVE  Cardinality(A \cup B) = Cardinality(A) + Cardinality(B)
<1>1. Cardinality(A) \in Nat /\ Cardinality(B) \in Nat
  BY FS_CardinalityType
<1>2. Cardinality(A \cup B) = Cardinality(A) + Cardinality(B)
                               - Cardinality(A \cap B)
  BY FS_Union
<1>3. Cardinality(A \cap B) = 0
  BY FS_EmptySet
<1> QED
  BY <1>1, <1>2, <1>3

LEMMA SumType ==
  ASSUME NEW S, IsFiniteSet(S), NEW f \in [S -> Nat]
  PROVE  IsFiniteSet(Units(f)) /\ SumOf(f) \in Nat
<1> DEFINE P == {{k} \X (1..f[k]) : k \in S}
           g == [k \in S |-> {k} \X (1..f[k])]
<1>1. g \in Surjection(S, P)
  BY DEF Surjection
<1>2. IsFiniteSet(P)
  BY <1>1, FS_Surjection
<1>3. \A T \in P : IsFiniteSet(T)
  <2> SUFFICES ASSUME NEW k \in S
               PROVE  IsFiniteSet({k} \X (1..f[k]))
    OBVIOUS
  <2> QED
    BY f[k] \in Nat, Copies
<1>4. Units(f) = UNION P
  BY DEF Units
<1>5. IsFiniteSet(Units(f))
  BY <1>2, <1>3, <1>4, FS_UNION
<1> QED
  BY <1>5, FS_CardinalityType DEF SumOf

(* The sum over a set is the sum over its parts.                            *)
LEMMA SumSplit ==
  ASSUME NEW S, IsFiniteSet(S), NEW f \in [S -> Nat], NEW T \in SUBSET S
  PROVE  SumOf(f) = SumOf([k \in T |-> f[k]]) + SumOf([k \in S \ T |-> f[k]])
<1> DEFINE g == [k \in T |-> f[k]]
           h == [k \in S \ T |-> f[k]]
<1>1. IsFiniteSet(T) /\ IsFiniteSet(S \ T)
  BY FS_Subset
<1>2. g \in [T -> Nat] /\ h \in [S \ T -> Nat]
  OBVIOUS
<1>3. IsFiniteSet(Units(g)) /\ IsFiniteSet(Units(h))
  <2> HIDE DEF g, h
  <2> QED
    BY <1>1, <1>2, SumType
<1>4. Units(f) = Units(g) \cup Units(h)
  BY DEF Units
<1>5. Units(g) \cap Units(h) = {}
  BY DEF Units
<1> HIDE DEF g, h
<1>6. Cardinality(Units(f)) = Cardinality(Units(g)) + Cardinality(Units(h))
  BY <1>3, <1>4, <1>5, DisjointUnion
<1> QED
  BY <1>6 DEF SumOf, g, h

LEMMA SumOne ==
  ASSUME NEW k, NEW n \in Nat
  PROVE  SumOf([j \in {k} |-> n]) = n
<1>1. Units([j \in {k} |-> n]) = {k} \X (1..n)
  BY DEF Units
<1> QED
  BY <1>1, Copies DEF SumOf

LEMMA SumEmpty == ASSUME NEW f, DOMAIN f = {} PROVE SumOf(f) = 0
<1>1. Units(f) = {}
  BY DEF Units
<1> QED
  BY <1>1, FS_EmptySet DEF SumOf

LEMMA SumZero ==
  ASSUME NEW f, \A k \in DOMAIN f : f[k] = 0
  PROVE  SumOf(f) = 0
<1>1. Units(f) = {}
  BY DEF Units
<1> QED
  BY <1>1, FS_EmptySet DEF SumOf

(* One summand and the others.                                              *)
LEMMA SumRemove ==
  ASSUME NEW S, IsFiniteSet(S), NEW f \in [S -> Nat], NEW x \in S
  PROVE  /\ SumOf([k \in S \ {x} |-> f[k]]) \in Nat
         /\ SumOf(f) = f[x] + SumOf([k \in S \ {x} |-> f[k]])
<1>1. SumOf(f) = SumOf([k \in {x} |-> f[k]]) + SumOf([k \in S \ {x} |-> f[k]])
  BY SumSplit, {x} \in SUBSET S
<1>2. [k \in {x} |-> f[k]] = [k \in {x} |-> f[x]]
  OBVIOUS
<1>3. SumOf([k \in {x} |-> f[x]]) = f[x]
  BY SumOne
<1>4. SumOf([k \in S \ {x} |-> f[k]]) \in Nat
  <2> DEFINE h == [k \in S \ {x} |-> f[k]]
  <2>1. h \in [S \ {x} -> Nat] /\ IsFiniteSet(S \ {x})
    BY FS_RemoveElement
  <2> HIDE DEF h
  <2>2. SumOf(h) \in Nat
    BY <2>1, SumType
  <2> QED
    BY <2>2 DEF h
<1> QED
  BY <1>1, <1>2, <1>3, <1>4

LEMMA SumBound ==
  ASSUME NEW S, IsFiniteSet(S), NEW f \in [S -> Nat], NEW x \in S
  PROVE  f[x] <= SumOf(f)
<1> DEFINE r == SumOf([k \in S \ {x} |-> f[k]])
<1>1. r \in Nat /\ SumOf(f) = f[x] + r
  BY SumRemove
<1> HIDE DEF r
<1> QED
  BY <1>1

LEMMA SumIncrement ==
  ASSUME NEW S, IsFiniteSet(S), NEW f \in [S -> Nat], NEW x \in S
  PROVE  SumOf([f EXCEPT ![x] = @ + 1]) = SumOf(f) + 1
<1> DEFINE g == [f EXCEPT ![x] = @ + 1]
           r == SumOf([k \in S \ {x} |-> f[k]])
<1>1. g \in [S -> Nat] /\ g[x] = f[x] + 1
  OBVIOUS
<1>2. [k \in S \ {x} |-> g[k]] = [k \in S \ {x} |-> f[k]]
  OBVIOUS
<1> HIDE DEF g
<1>3. r \in Nat /\ SumOf(f) = f[x] + r
  BY SumRemove
<1>4. SumOf(g) = g[x] + r
  BY <1>1, <1>2, SumRemove
<1> HIDE DEF r
<1>5. SumOf(g) = SumOf(f) + 1
  BY <1>1, <1>3, <1>4
<1> QED
  BY <1>5 DEF g

(* A sum is no greater than one that has a summand as great for each of its *)
(* own.                                                                     *)
LEMMA SumInjection ==
  ASSUME NEW S, NEW T, IsFiniteSet(T), NEW f \in [S -> Nat],
         NEW g \in [T -> Nat], NEW h \in [S -> T],
         \A j, k \in S : h[j] = h[k] => j = k,
         \A k \in S : f[k] <= g[h[k]]
  PROVE  SumOf(f) <= SumOf(g)
<1> DEFINE m == [u \in Units(f) |-> <<h[u[1]], u[2]>>]
<1>1. \A u \in Units(f) :
        /\ u[1] \in S /\ u[2] \in 1..f[u[1]] /\ u = <<u[1], u[2]>>
        /\ <<h[u[1]], u[2]>> \in Units(g)
  <2> SUFFICES ASSUME NEW u \in Units(f)
               PROVE  /\ u[1] \in S /\ u[2] \in 1..f[u[1]]
                      /\ u = <<u[1], u[2]>>
                      /\ <<h[u[1]], u[2]>> \in Units(g)
    OBVIOUS
  <2>1. PICK k \in S : \E i \in 1..f[k] : u = <<k, i>>
    BY UnitsMember
  <2>2. PICK i \in 1..f[k] : u = <<k, i>>
    BY <2>1
  <2>3. h[k] \in T /\ i \in 1..g[h[k]]
    OBVIOUS
  <2>4. <<h[k], i>> \in Units(g)
    BY <2>3, UnitsMember
  <2> QED
    BY <2>2, <2>4
<1>2. m \in Injection(Units(f), Units(g))
  <2>1. \A u, v \in Units(f) :
          <<h[u[1]], u[2]>> = <<h[v[1]], v[2]>> => u = v
    BY <1>1
  <2> QED
    BY <1>1, <2>1 DEF Injection, IsInjective
<1>3. IsFiniteSet(Units(g))
  BY SumType
<1> QED
  BY <1>2, <1>3, FS_Injection DEF SumOf
=============================================================================
