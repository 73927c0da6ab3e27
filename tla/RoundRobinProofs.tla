-------------------------- MODULE RoundRobinProofs --------------------------
(***************************************************************************)
(* Theorems about RoundRobin, for any targets and weights, any range of    *)
(* the counter and any bound on the tickets.                               *)
(***************************************************************************)
EXTENDS RoundRobin, SumsProofs, SequenceTheorems

-----------------------------------------------------------------------------
(* Arithmetic: products of unknowns and division, of which the provers know *)
(* little.                                                                  *)
LEMMA TimesNext ==
  ASSUME NEW d \in Int, NEW n \in Int
  PROVE  /\ d * n \in Int /\ (d + 1) * n = d * n + n
         /\ (d - 1) * n = d * n - n
OBVIOUS

LEMMA Quotient ==
  ASSUME NEW q \in Int, NEW n \in Nat \ {0}, NEW r \in 0..(n - 1)
  PROVE  (q * n + r) \div n = q /\ (q * n + r) % n = r
<1>1. (q * n + r) \div n = q
  OBVIOUS
<1>2. (q * n + r) % n = r
  OBVIOUS
<1> QED
  BY <1>1, <1>2

LEMMA Division ==
  ASSUME NEW x \in Nat, NEW n \in Nat \ {0}
  PROVE  \E q \in Int : \E r \in 0..(n - 1) : x = q * n + r
<1> DEFINE S == {r \in Nat : \E q \in Int : x = q * n + r}
<1>1. S \in SUBSET Nat
  OBVIOUS
<1>2. x \in S
  <2>1. x = 0 * n + x
    OBVIOUS
  <2> QED
    BY <2>1
<1>3. PICK r \in S : \A k \in S : r <= k
  <2> HIDE DEF S
  <2> QED
    BY <1>1, <1>2, Least
<1>4. PICK q \in Int : x = q * n + r
  OBVIOUS
<1>5. ASSUME r >= n PROVE FALSE
  <2>1. x = (q + 1) * n + (r - n) /\ r - n \in Nat
    BY <1>4, <1>5, TimesNext
  <2>2. r - n \in S
    BY <2>1
  <2>3. r <= r - n
    BY <1>3, <2>2
  <2> QED
    BY <2>3, r \in Nat
<1> QED
  BY <1>4, <1>5

-----------------------------------------------------------------------------
(* The candidate list.                                                      *)
LEMMA WeightType ==
  ASSUME NEW k \in Index
  PROVE  Weight(k) \in Nat \ {0}
<1>1. DOMAIN Targets = 1..Len(Targets)
  BY TargetsAssumption
<1>2. Targets[k] \in [name: Name, weight: Int]
  BY <1>1, TargetsAssumption, ElementOfSeq DEF Index
<1>3. Targets[k].weight \in Int
  BY <1>2
<1> QED
  BY <1>3 DEF Weight

LEMMA IndexFinite ==
  IsFiniteSet(Index) /\ Index = 1..Len(Targets) /\ Len(Targets) \in Nat
<1>1. Index = 1..Len(Targets) /\ Len(Targets) \in Nat
  BY TargetsAssumption DEF Index
<1> QED
  BY <1>1, Positions

LEMMA SlotsFinite ==
  ASSUME NEW K \in SUBSET Index
  PROVE  IsFiniteSet(Slots(K)) /\ Cardinality(Slots(K)) \in Nat
<1> DEFINE f == [k \in K |-> Weight(k)]
<1>1. IsFiniteSet(K)
  BY IndexFinite, FS_Subset
<1>2. f \in [K -> Nat]
  BY WeightType
<1>3. Slots(K) = Units(f)
  BY DEF Slots, Units
<1> HIDE DEF f
<1>4. IsFiniteSet(Units(f))
  BY <1>1, <1>2, SumType
<1> QED
  BY <1>3, <1>4, FS_CardinalityType

(* What precedes target k in the list over K.                               *)
Earlier(K, k) == {j \in K : j < k}
Start(K, k) == Cardinality(Slots(Earlier(K, k)))

(* The slots before the i-th slot of k.                                     *)
LEMMA SlotPosition ==
  ASSUME NEW K \in SUBSET Index, NEW k \in K, NEW i \in Nat \ {0}
  PROVE  LET S == Slots(Earlier(K, k)) \cup ({k} \X (1..(i - 1)))
         IN  IsFiniteSet(S) /\ Cardinality(S) = Start(K, k) + (i - 1)
<1> DEFINE A == Slots(Earlier(K, k))
           B == {k} \X (1..(i - 1))
<1>1. Earlier(K, k) \in SUBSET Index
  BY DEF Earlier
<1>2. IsFiniteSet(A)
  BY <1>1, SlotsFinite
<1>3. IsFiniteSet(B) /\ Cardinality(B) = i - 1
  BY Copies, i - 1 \in Nat
<1>4. A \cap B = {}
  <2>1. \A j \in Earlier(K, k) : j # k
    BY IndexFinite DEF Earlier
  <2> QED
    BY <2>1 DEF Slots
<1> HIDE DEF A, B
<1>5. IsFiniteSet(A \cup B) /\ Cardinality(A \cup B) = Cardinality(A) + (i - 1)
  BY <1>2, <1>3, <1>4, DisjointUnion, FS_Union
<1> QED
  BY <1>5 DEF A, B, Start

(* The slots of k end before those of any later target and before the end.  *)
LEMMA SlotsEnd ==
  ASSUME NEW K \in SUBSET Index, NEW k \in K, NEW J \in SUBSET Index,
         Earlier(K, k) \cup {k} \subseteq J
  PROVE  Start(K, k) + Weight(k) <= Cardinality(Slots(J))
<1> DEFINE S == Slots(Earlier(K, k)) \cup ({k} \X (1..Weight(k)))
<1>1. Weight(k) \in Nat \ {0} /\ Weight(k) + 1 \in Nat \ {0}
      /\ (Weight(k) + 1) - 1 = Weight(k)
  BY WeightType
<1>2. Cardinality(S) = Start(K, k) + Weight(k)
  BY <1>1, SlotPosition
<1>3. S \in SUBSET Slots(J)
  BY DEF Slots
<1>4. IsFiniteSet(Slots(J))
  BY SlotsFinite
<1> HIDE DEF S
<1> QED
  BY <1>2, <1>3, <1>4, FS_Subset

LEMMA StartType ==
  ASSUME NEW K \in SUBSET Index, NEW k
  PROVE  Start(K, k) \in Nat
<1>1. Earlier(K, k) \in SUBSET Index
  BY DEF Earlier
<1> QED
  BY <1>1, SlotsFinite DEF Start

(* Ticket t selects k exactly when its position falls among k's slots.      *)
LEMMA PicksWhere ==
  ASSUME NEW K \in SUBSET Index, NEW t, NEW r \in Nat,
         t % Cardinality(Slots(K)) = r, NEW k \in K
  PROVE  k \in Picks(K, t)
           <=> Start(K, k) <= r /\ r < Start(K, k) + Weight(k)
<1>1. ASSUME NEW i \in 1..Weight(k)
      PROVE  Cardinality({u \in Slots(K) : Before(u, <<k, i>>)})
               = Start(K, k) + (i - 1)
  <2>1. i \in Nat \ {0} /\ i <= Weight(k)
    BY WeightType
  <2>2. {u \in Slots(K) : Before(u, <<k, i>>)}
          = Slots(Earlier(K, k)) \cup ({k} \X (1..(i - 1)))
    <3>1. \A j \in K : \A m \in 1..Weight(j) :
            Before(<<j, m>>, <<k, i>>) <=> j < k \/ (j = k /\ m < i)
      BY DEF Before
    <3>2. \A m \in 1..Weight(k) : m < i <=> m \in 1..(i - 1)
      BY <2>1, WeightType
    <3>3. 1..(i - 1) \subseteq 1..Weight(k)
      BY <2>1, WeightType
    <3> QED
      BY <3>1, <3>2, <3>3 DEF Slots, Earlier
  <2> QED
    BY <2>1, <2>2, SlotPosition
<1>2. k \in Picks(K, t) <=> \E i \in 1..Weight(k) : Start(K, k) + (i - 1) = r
  <2>1. k \in Picks(K, t) <=>
          \E i \in 1..Weight(k) :
            Cardinality({u \in Slots(K) : Before(u, <<k, i>>)}) = r
    <3> DEFINE Place(s) == Cardinality({u \in Slots(K) : Before(u, s)})
    <3>1. k \in Picks(K, t) <=> \E s \in Slots(K) : s[1] = k /\ Place(s) = r
      BY DEF Picks
    <3> HIDE DEF Place
    <3>2. ASSUME NEW s \in Slots(K), s[1] = k, Place(s) = r
          PROVE  \E i \in 1..Weight(k) : Place(<<k, i>>) = r
      <4>1. PICK j \in K : s \in {j} \X (1..Weight(j))
        BY DEF Slots
      <4>2. PICK i \in 1..Weight(j) : s = <<j, i>>
        BY <4>1
      <4> QED
        BY <3>2, <4>2
    <3>3. \A i \in 1..Weight(k) : <<k, i>> \in Slots(K) /\ <<k, i>>[1] = k
      BY DEF Slots
    <3>4. k \in Picks(K, t) <=> \E i \in 1..Weight(k) : Place(<<k, i>>) = r
      BY <3>1, <3>2, <3>3
    <3> QED
      BY <3>4 DEF Place
  <2> QED
    BY <1>1, <2>1
<1>3. Start(K, k) \in Nat /\ Weight(k) \in Nat
  BY StartType, WeightType
<1>4. ASSUME Start(K, k) <= r, r < Start(K, k) + Weight(k)
      PROVE  \E i \in 1..Weight(k) : Start(K, k) + (i - 1) = r
  <2> DEFINE i == r - Start(K, k) + 1
  <2>1. i \in 1..Weight(k) /\ Start(K, k) + (i - 1) = r
    BY <1>3, <1>4
  <2> HIDE DEF i
  <2> QED
    BY <2>1
<1> QED
  BY <1>2, <1>3, <1>4

-----------------------------------------------------------------------------
(* Types.                                                                   *)
LEMMA NextTicketCases ==
  ASSUME NEW t \in 0..(CounterRange - 1)
  PROVE  /\ NextTicket(t) \in 0..(CounterRange - 1)
         /\ NextTicket(t) = 0 \/ NextTicket(t) = t + 1
<1>1. CounterRange \in Nat \ {0}
  BY TargetsAssumption
<1>2. CASE t + 1 = CounterRange
  <2>1. t + 1 = 1 * CounterRange + 0 /\ 0 \in 0..(CounterRange - 1)
    BY <1>1, <1>2
  <2> QED
    BY <1>1, <2>1, Quotient DEF NextTicket
<1>3. CASE t + 1 # CounterRange
  <2>1. t + 1 = 0 * CounterRange + (t + 1) /\ t + 1 \in 0..(CounterRange - 1)
    BY <1>1, <1>3
  <2> QED
    BY <1>1, <2>1, Quotient DEF NextTicket
<1> QED
  BY <1>2, <1>3

LEMMA PickedIsCandidate ==
  ASSUME NEW K, NEW t, NEW k \in Picks(K, t)
  PROVE  k \in K
<1>1. PICK s \in Slots(K) : k = s[1]
  BY DEF Picks
<1>2. PICK j \in K : s \in {j} \X (1..Weight(j))
  BY DEF Slots
<1> QED
  BY <1>1, <1>2

LEMMA ServedType ==
  ASSUME TypeOK
  PROVE  served \in [Index -> Nat] /\ Total \in Nat
<1>1. served \in [Index -> Nat]
  BY ServedAssumption DEF TypeOK
<1> QED
  BY <1>1, IndexFinite, SumType DEF Total

LEMMA RoundTypeInitial == Init => TypeOK
<1>1. 1 \in Index
  BY IndexFinite, TargetsAssumption
<1> QED
  BY <1>1, ServedAssumption DEF Init, TypeOK

LEMMA RoundTypeInductive == ASSUME TypeOK, [Next]_vars PROVE TypeOK'
<1>1. CASE Pick
  <2>1. PICK k \in Picks(cand, rr') :
          served' = IF rr' = 0 THEN [j \in Index |-> 0]
                               ELSE [served EXCEPT ![k] = @ + 1]
    BY <1>1 DEF Pick
  <2>2. k \in Index
    BY PickedIsCandidate DEF TypeOK
  <2>3. served[k] <= Total
    BY <2>2, ServedType, IndexFinite, SumBound DEF Total
  <2>4. served[k] + 1 \in 0..MaxServed
    BY <1>1, <2>2, <2>3, ServedType, ServedAssumption DEF Pick
  <2>5. served' \in [Index -> 0..MaxServed]
    BY <2>1, <2>2, <2>4, ServedAssumption DEF TypeOK
  <2>6. rr' \in 0..(CounterRange - 1)
    BY <1>1, NextTicketCases DEF Pick, TypeOK
  <2> QED
    BY <1>1, <2>5, <2>6 DEF Pick, TypeOK
<1>2. CASE Relist
  BY <1>2, ServedAssumption DEF Relist, TypeOK
<1>3. CASE UNCHANGED vars
  BY <1>3 DEF vars, TypeOK
<1> QED
  BY <1>1, <1>2, <1>3 DEF Next

(* The counter stays in its range and the list is never empty               *)
(* (manager.go:60-78).                                                      *)
THEOREM RoundTypeCorrect == Spec => []TypeOK
<1>1. TypeOK /\ [Next]_vars => TypeOK'
  BY RoundTypeInductive
<1> QED
  BY <1>1, RoundTypeInitial, PTL DEF Spec

-----------------------------------------------------------------------------
(* Slots of k at the positions 0..r of the list over K.                     *)
Through(K, k, r) ==
  IF r < Start(K, k) THEN 0
  ELSE IF r < Start(K, k) + Weight(k) THEN r - Start(K, k) + 1
  ELSE Weight(k)

(* What s counts when the counter has come to t: d turns of the list and    *)
(* the way from position b, where counting began, to r, where t stands.     *)
Shared(t, K, s) ==
  LET n == Cardinality(Slots(K))
  IN  /\ \A k \in Index \ K : s[k] = 0
      /\ \E q, d \in Int : \E b, r \in 0..(n - 1) :
           /\ t = q * n + r
           /\ SumOf(s) = d * n + r - b
           /\ \A k \in K : s[k] = d * Weight(k)
                                  + Through(K, k, r) - Through(K, k, b)

LEMMA ListLength ==
  ASSUME NEW K \in SUBSET Index, NEW k \in K
  PROVE  /\ Cardinality(Slots(K)) \in Nat \ {0}
         /\ Start(K, k) \in Nat /\ Weight(k) \in Nat \ {0}
         /\ Start(K, k) + Weight(k) <= Cardinality(Slots(K))
<1>1. Start(K, k) + Weight(k) <= Cardinality(Slots(K))
  BY SlotsEnd DEF Earlier
<1>2. Cardinality(Slots(K)) \in Nat /\ Start(K, k) \in Nat
      /\ Weight(k) \in Nat \ {0}
  BY SlotsFinite, StartType, WeightType
<1> QED
  BY <1>1, <1>2

LEMMA ListOrder ==
  ASSUME NEW K \in SUBSET Index, NEW j \in K, NEW k \in K, j < k
  PROVE  Start(K, j) + Weight(j) <= Start(K, k)
<1>1. Earlier(K, j) \cup {j} \subseteq Earlier(K, k)
      /\ Earlier(K, k) \in SUBSET Index
  <2>1. \A i \in Index : i \in Int
    BY IndexFinite
  <2>2. \A i \in K : i < j => i < k
    BY <2>1
  <2> QED
    BY <2>2 DEF Earlier
<1> QED
  BY <1>1, SlotsEnd DEF Start

LEMMA ThroughType ==
  ASSUME NEW K \in SUBSET Index, NEW k \in K, NEW r \in Nat, NEW b \in Nat,
         b <= r
  PROVE  /\ Through(K, k, r) \in 0..Weight(k)
         /\ Through(K, k, b) \in 0..Weight(k)
         /\ Through(K, k, b) <= Through(K, k, r)
BY ListLength DEF Through

(* Nothing counted yet.                                                     *)
LEMMA SharedAtStart ==
  ASSUME NEW K \in (SUBSET Index) \ {{}}, NEW t \in Nat
  PROVE  Shared(t, K, [k \in Index |-> 0])
<1> DEFINE n == Cardinality(Slots(K))
           s == [k \in Index |-> 0]
<1>1. PICK k0 \in K : TRUE
  OBVIOUS
<1>2. n \in Nat \ {0}
  BY <1>1, ListLength
<1>3. PICK q \in Int, r \in 0..(n - 1) : t = q * n + r
  <2> HIDE DEF n
  <2> QED
    BY <1>2, Division
<1>4. SumOf(s) = 0
  <2>1. \A k \in DOMAIN s : s[k] = 0
    OBVIOUS
  <2> HIDE DEF s
  <2> QED
    BY <2>1, SumZero
<1>5. SumOf(s) = 0 * n + r - r
  <2> HIDE DEF n, s
  <2> QED
    BY <1>2, <1>3, <1>4
<1>6. \A k \in K : s[k] = 0 * Weight(k) + Through(K, k, r) - Through(K, k, r)
  <2> SUFFICES ASSUME NEW k \in K
               PROVE  0 = 0 * Weight(k) + Through(K, k, r) - Through(K, k, r)
    OBVIOUS
  <2>1. r \in Nat /\ r <= r
    BY <1>2
  <2>2. Through(K, k, r) \in Int /\ Weight(k) \in Int
    BY <2>1, ThroughType, WeightType
  <2> QED
    BY <2>2
<1>7. \A k \in Index \ K : s[k] = 0
  OBVIOUS
<1> HIDE DEF n, s
<1>8. Shared(t, K, s)
  BY <1>3, <1>5, <1>6, <1>7 DEF Shared, n
<1> QED
  BY <1>8 DEF s

(* One pick moves r one position on, and counts it for the target whose     *)
(* slot is there.                                                           *)
LEMMA OneFurther ==
  ASSUME NEW K \in SUBSET Index, NEW k \in K, NEW r \in Nat,
         Start(K, k) <= r + 1, r + 1 < Start(K, k) + Weight(k), NEW j \in K
  PROVE  Through(K, j, r + 1)
           = Through(K, j, r) + (IF j = k THEN 1 ELSE 0)
<1>1. /\ Start(K, j) \in Nat /\ Weight(j) \in Nat \ {0}
      /\ Start(K, k) \in Nat /\ Weight(k) \in Nat \ {0}
  BY ListLength
<1>2. CASE j = k
  BY <1>1, <1>2 DEF Through
<1>3. CASE j < k
  <2>1. Start(K, j) + Weight(j) <= Start(K, k)
    BY <1>3, ListOrder
  <2>2. j # k
    BY <1>3, IndexFinite
  <2> QED
    BY <1>1, <2>1, <2>2 DEF Through
<1>4. CASE k < j
  <2>1. Start(K, k) + Weight(k) <= Start(K, j)
    BY <1>4, ListOrder
  <2>2. j # k
    BY <1>4, IndexFinite
  <2> QED
    BY <1>1, <2>1, <2>2 DEF Through
<1> QED
  BY <1>2, <1>3, <1>4, IndexFinite

(* The same from the last position to the first, a turn later.              *)
LEMMA AroundTheEnd ==
  ASSUME NEW K \in SUBSET Index, NEW k \in K, Start(K, k) = 0, NEW j \in K
  PROVE  Through(K, j, 0) + Weight(j)
           = Through(K, j, Cardinality(Slots(K)) - 1)
             + (IF j = k THEN 1 ELSE 0)
<1>1. /\ Start(K, j) \in Nat /\ Weight(j) \in Nat \ {0}
      /\ Weight(k) \in Nat \ {0} /\ Cardinality(Slots(K)) \in Nat \ {0}
      /\ Start(K, j) + Weight(j) <= Cardinality(Slots(K))
  BY ListLength
<1>2. Through(K, j, Cardinality(Slots(K)) - 1) = Weight(j)
  BY <1>1 DEF Through
<1>3. Through(K, j, 0) = IF j = k THEN 1 ELSE 0
  <2>1. CASE j = k
    BY <1>1, <2>1 DEF Through
  <2>2. CASE j < k
    BY <1>1, <2>2, ListOrder
  <2>3. CASE k < j
    <3>1. Weight(k) <= Start(K, j)
      BY <1>1, <2>3, ListOrder
    <3>2. j # k
      BY <2>3, IndexFinite
    <3> QED
      BY <1>1, <3>1, <3>2 DEF Through
  <2> QED
    BY <2>1, <2>2, <2>3, IndexFinite
<1> QED
  BY <1>1, <1>2, <1>3

LEMMA SharedAfterPick ==
  ASSUME NEW K \in SUBSET Index, NEW t \in Nat, NEW s \in [Index -> Nat],
         Shared(t, K, s), NEW k \in K, k \in Picks(K, t + 1)
  PROVE  Shared(t + 1, K, [s EXCEPT ![k] = @ + 1])
<1> DEFINE n == Cardinality(Slots(K))
           u == [s EXCEPT ![k] = @ + 1]
<1>1. n \in Nat \ {0}
  BY ListLength
<1>2. PICK q \in Int, d \in Int, b \in 0..(n - 1), r \in 0..(n - 1) :
        /\ t = q * n + r
        /\ SumOf(s) = d * n + r - b
        /\ \A j \in K : s[j] = d * Weight(j)
                               + Through(K, j, r) - Through(K, j, b)
  BY DEF Shared
<1>3. SumOf(u) = SumOf(s) + 1
  BY IndexFinite, SumIncrement
<1>4. /\ \A j \in K : u[j] = s[j] + (IF j = k THEN 1 ELSE 0)
      /\ \A j \in Index \ K : u[j] = 0
  BY DEF Shared
<1> HIDE DEF n, u
<1>5. b \in Nat /\ r \in Nat /\ n - 1 \in Nat /\ b <= n - 1 /\ r <= n - 1
      /\ q * n \in Int /\ d * n \in Int
  BY <1>1
<1>6. \A j \in K : /\ Through(K, j, b) \in Int /\ Through(K, j, r) \in Int
                   /\ Weight(j) \in Int /\ d * Weight(j) \in Int
  <2> SUFFICES ASSUME NEW j \in K
               PROVE  /\ Through(K, j, b) \in Int /\ Through(K, j, r) \in Int
                      /\ Weight(j) \in Int /\ d * Weight(j) \in Int
    OBVIOUS
  <2>1. Weight(j) \in Nat
    BY WeightType
  <2>2. Through(K, j, b) \in 0..Weight(j) /\ Through(K, j, r) \in 0..Weight(j)
    BY <1>5, ThroughType
  <2> QED
    BY <2>1, <2>2
<1>7. CASE r + 1 < n
  <2>1. r + 1 \in 0..(n - 1) /\ t + 1 = q * n + (r + 1)
        /\ SumOf(u) = d * n + (r + 1) - b
    BY <1>1, <1>2, <1>3, <1>5, <1>7
  <2>2. (t + 1) % n = r + 1
    <3>1. (q * n + (r + 1)) % n = r + 1
      BY <1>1, <2>1, Quotient
    <3> QED
      BY <2>1, <3>1
  <2>3. Start(K, k) <= r + 1 /\ r + 1 < Start(K, k) + Weight(k)
    BY <1>5, <2>2, PicksWhere DEF n
  <2>4. ASSUME NEW j \in K
        PROVE  u[j] = d * Weight(j) + Through(K, j, r + 1) - Through(K, j, b)
    <3>1. Through(K, j, r + 1)
            = Through(K, j, r) + (IF j = k THEN 1 ELSE 0)
      BY <1>5, <2>3, OneFurther
    <3>2. s[j] = d * Weight(j) + Through(K, j, r) - Through(K, j, b)
      BY <1>2
    <3>3. u[j] = s[j] + (IF j = k THEN 1 ELSE 0)
      BY <1>4
    <3> QED
      BY <1>6, <3>1, <3>2, <3>3
  <2>5. Shared(t + 1, K, u)
    BY <1>4, <2>1, <2>4 DEF Shared, n
  <2> QED
    BY <2>5 DEF u
<1>8. CASE r + 1 = n
  <2>1. (q + 1) * n = q * n + n /\ (d + 1) * n = d * n + n
    BY <1>1, TimesNext
  <2>2. 0 \in 0..(n - 1) /\ t + 1 = (q + 1) * n + 0
        /\ SumOf(u) = (d + 1) * n + 0 - b
    BY <1>1, <1>2, <1>3, <1>5, <1>8, <2>1
  <2>3. (t + 1) % n = 0
    <3>1. ((q + 1) * n + 0) % n = 0
      BY <1>1, <2>2, q + 1 \in Int, Quotient
    <3> QED
      BY <2>2, <3>1
  <2>4. Start(K, k) = 0
    <3>1. Start(K, k) <= 0
      BY <2>3, PicksWhere DEF n
    <3> QED
      BY <3>1, StartType
  <2>5. ASSUME NEW j \in K
        PROVE  u[j] = (d + 1) * Weight(j)
                        + Through(K, j, 0) - Through(K, j, b)
    <3>1. Through(K, j, 0) + Weight(j)
            = Through(K, j, r) + (IF j = k THEN 1 ELSE 0)
      BY <1>1, <1>5, <1>8, <2>4, AroundTheEnd DEF n
    <3>2. s[j] = d * Weight(j) + Through(K, j, r) - Through(K, j, b)
      BY <1>2
    <3>3. u[j] = s[j] + (IF j = k THEN 1 ELSE 0)
      BY <1>4
    <3>4. (d + 1) * Weight(j) = d * Weight(j) + Weight(j)
      BY <1>6, TimesNext
    <3>5. Through(K, j, 0) \in Int
      BY <1>5, ThroughType, WeightType, 0 \in Nat, 0 <= r
    <3> QED
      BY <1>6, <3>1, <3>2, <3>3, <3>4, <3>5
  <2>6. d + 1 \in Int /\ q + 1 \in Int
    OBVIOUS
  <2>7. Shared(t + 1, K, u)
    BY <1>4, <2>2, <2>5, <2>6 DEF Shared, n
  <2> QED
    BY <2>7 DEF u
<1> QED
  BY <1>1, <1>5, <1>7, <1>8

LEMMA SharedInductive ==
  ASSUME TypeOK, Shared(rr, cand, served), [Next]_vars
  PROVE  Shared(rr', cand', served')
<1>1. rr \in Nat /\ cand \in (SUBSET Index) \ {{}} /\ rr' \in Nat
      /\ cand' \in (SUBSET Index) \ {{}}
  BY RoundTypeInductive DEF TypeOK
<1>2. CASE Pick
  <2>1. PICK k \in Picks(cand, rr') :
          served' = IF rr' = 0 THEN [j \in Index |-> 0]
                               ELSE [served EXCEPT ![k] = @ + 1]
    BY <1>2 DEF Pick
  <2>2. k \in cand
    BY PickedIsCandidate
  <2>3. CASE rr' = 0
    BY <1>1, <2>1, <2>3, SharedAtStart
  <2>4. CASE rr' # 0
    <3>1. rr' = rr + 1 /\ cand' = cand
      BY <1>2, <2>4, NextTicketCases DEF Pick, TypeOK
    <3>2. Shared(rr + 1, cand, [served EXCEPT ![k] = @ + 1])
      BY <1>1, <2>2, <3>1, ServedType, SharedAfterPick
    <3> QED
      BY <2>1, <2>4, <3>1, <3>2
  <2> QED
    BY <2>3, <2>4
<1>3. CASE Relist
  <2>1. served' = [k \in Index |-> 0]
    BY <1>3 DEF Relist
  <2> QED
    BY <1>1, <2>1, SharedAtStart
<1>4. CASE UNCHANGED vars
  BY <1>4 DEF vars
<1> QED
  BY <1>2, <1>3, <1>4 DEF Next

LEMMA ShareFollows ==
  ASSUME TypeOK, Shared(rr, cand, served)
  PROVE  WeightedShare
<1> DEFINE n == Cardinality(Slots(cand))
<1>1. PICK k0 \in cand : TRUE
  BY DEF TypeOK
<1>2. cand \in SUBSET Index
  BY DEF TypeOK
<1>3. n \in Nat \ {0}
  BY <1>1, <1>2, ListLength
<1>4. PICK q \in Int, d \in Int, b \in 0..(n - 1), r \in 0..(n - 1) :
        /\ Total = d * n + r - b
        /\ \A k \in cand : served[k] = d * Weight(k)
                               + Through(cand, k, r) - Through(cand, k, b)
  BY DEF Shared, Total
<1>5. \A k \in Index \ cand : served[k] = 0
  BY DEF Shared
<1> HIDE DEF n
<1>6. b \in Nat /\ r \in Nat /\ d * n \in Int
  BY <1>3
<1>7. ASSUME NEW k \in cand
      PROVE  served[k] \in ((Total \div n) * Weight(k))
                             ..(((Total \div n) + 1) * Weight(k))
  <2>1. Weight(k) \in Nat /\ d * Weight(k) \in Int
        /\ (d + 1) * Weight(k) = d * Weight(k) + Weight(k)
        /\ (d - 1) * Weight(k) = d * Weight(k) - Weight(k)
    BY <1>2, WeightType, TimesNext
  <2>2. served[k] = d * Weight(k) + Through(cand, k, r) - Through(cand, k, b)
    BY <1>4
  <2>3. CASE b <= r
    <3>1. r - b \in 0..(n - 1) /\ Total = d * n + (r - b)
      BY <1>3, <1>4, <1>6, <2>3
    <3>2. Total \div n = d
      BY <1>3, <3>1, Quotient
    <3>3. /\ Through(cand, k, r) \in 0..Weight(k)
          /\ Through(cand, k, b) \in 0..Weight(k)
          /\ Through(cand, k, b) <= Through(cand, k, r)
      BY <1>2, <1>6, <2>3, ThroughType
    <3>4. d * Weight(k) <= served[k] /\ served[k] <= (d + 1) * Weight(k)
          /\ served[k] \in Int /\ (d + 1) * Weight(k) \in Int
      BY <2>1, <2>2, <3>3
    <3> QED
      BY <2>1, <3>2, <3>4
  <2>4. CASE r < b
    <3>1. n + r - b \in 0..(n - 1) /\ Total = (d - 1) * n + (n + r - b)
      BY <1>3, <1>4, <1>6, <2>4, TimesNext
    <3>2. Total \div n = d - 1 /\ (d - 1) + 1 = d
      BY <1>3, <3>1, Quotient
    <3>3. /\ Through(cand, k, r) \in 0..Weight(k)
          /\ Through(cand, k, b) \in 0..Weight(k)
          /\ Through(cand, k, r) <= Through(cand, k, b)
      BY <1>2, <1>6, <2>4, ThroughType
    <3>4. (d - 1) * Weight(k) <= served[k] /\ served[k] <= d * Weight(k)
          /\ served[k] \in Int /\ (d - 1) * Weight(k) \in Int
      BY <2>1, <2>2, <3>3
    <3> QED
      BY <2>1, <3>2, <3>4
  <2> QED
    BY <1>6, <2>3, <2>4
<1> QED
  BY <1>2, <1>5, <1>7 DEF WeightedShare, n

(* For any weights, any list and any place of the shared counter, a full    *)
(* turn of an unchanged list serves each candidate exactly its weight and a *)
(* partial turn never more (manager.go:64-78).                              *)
THEOREM RoundShares == Spec => []WeightedShare
<1> DEFINE I == TypeOK /\ Shared(rr, cand, served)
<1>1. Init => I
  <2> SUFFICES ASSUME Init PROVE I
    OBVIOUS
  <2>1. TypeOK
    BY RoundTypeInitial
  <2>2. rr \in Nat /\ cand \in (SUBSET Index) \ {{}}
    BY <2>1 DEF TypeOK
  <2>3. served = [k \in Index |-> 0]
    BY DEF Init
  <2> QED
    BY <2>1, <2>2, <2>3, SharedAtStart
<1>2. I /\ [Next]_vars => I'
  <2> SUFFICES ASSUME I, [Next]_vars PROVE I'
    OBVIOUS
  <2>1. TypeOK'
    BY RoundTypeInductive
  <2>2. Shared(rr', cand', served')
    BY SharedInductive
  <2> QED
    BY <2>1, <2>2 DEF Shared, Through, Start, Earlier
<1>3. I => WeightedShare
  BY ShareFollows
<1> QED
  BY <1>1, <1>2, <1>3, PTL DEF Spec
=============================================================================
