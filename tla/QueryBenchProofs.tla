-------------------------- MODULE QueryBenchProofs --------------------------
(***************************************************************************)
(* Theorems about QueryBench, for any number of workers and requests, any  *)
(* channel capacity and any answers of the gateway.                        *)
(***************************************************************************)
EXTENDS QueryBench, SumsProofs

-----------------------------------------------------------------------------
(* Types.                                                                   *)
LEMMA LabelledType ==
  ASSUME NEW h \in Header
  PROVE  Labelled(h) \in Label
BY DEF Labelled, Label

LEMMA DoReqType ==
  ASSUME NEW a \in Answer
  PROVE  DoReq(a) \in Result /\ DoReq(a).status \in Status
<1>1. a.cache \in Header /\ a.live \in Header /\ a.target \in Header
  BY DEF Header
<1>2. Labelled(a.cache) \in Label /\ ServedBy(a) \in Label
  BY <1>1, LabelledType DEF ServedBy
<1>3. a.status \in Nat /\ a.millis \in Nat /\ a.status \in Status
  BY BenchAssumption DEF Status
<1>4. (~Succeeded(a)) \in BOOLEAN
  BY DEF Succeeded
<1> QED
  BY <1>2, <1>3, <1>4 DEF DoReq, Result

LEMMA IncrementType ==
  ASSUME NEW S, NEW f \in [S -> Nat], NEW x
  PROVE  [f EXCEPT ![x] = @ + 1] \in [S -> Nat]
<1> DEFINE g == [f EXCEPT ![x] = @ + 1]
<1>1. g = [k \in S |-> IF k = x THEN f[x] + 1 ELSE f[k]]
  OBVIOUS
<1>2. \A k \in S : (IF k = x THEN f[x] + 1 ELSE f[k]) \in Nat
  OBVIOUS
<1> HIDE DEF g
<1>3. g \in [S -> Nat]
  BY <1>1, <1>2
<1> QED
  BY <1>3 DEF g

LEMMA CollectType ==
  ASSUME TypeOK, NEW r \in Result
  PROVE  Collect(r) \in [latencies: Seq(Nat), errors: Nat,
                         statusCounts: [Status -> Nat],
                         cacheCounts: [Label -> Nat],
                         targetCounts: [Label -> Nat]]
<1>1. /\ agg.latencies \in Seq(Nat) /\ agg.errors \in Nat
      /\ agg.statusCounts \in [Status -> Nat]
      /\ agg.cacheCounts \in [Label -> Nat]
      /\ agg.targetCounts \in [Label -> Nat]
  BY DEF TypeOK
<1>2. r.err \in BOOLEAN /\ r.status \in Nat /\ r.millis \in Nat
  BY DEF Result
<1>3. CASE r.err
  BY <1>1, <1>3 DEF Collect
<1>4. CASE ~r.err
  <2>1. Append(agg.latencies, r.millis) \in Seq(Nat)
    BY <1>1, <1>2
  <2>2. /\ [agg.statusCounts EXCEPT ![r.status] = @ + 1] \in [Status -> Nat]
        /\ [agg.cacheCounts EXCEPT ![r.cache] = @ + 1] \in [Label -> Nat]
        /\ [agg.targetCounts EXCEPT ![r.target] = @ + 1] \in [Label -> Nat]
    BY <1>1, IncrementType
  <2> QED
    BY <1>1, <1>4, <2>1, <2>2 DEF Collect
<1> QED
  BY <1>2, <1>3, <1>4

LEMMA BenchTypeInitial == Init => TypeOK
<1> SUFFICES ASSUME Init PROVE TypeOK
  OBVIOUS
<1>1. NoResult \in Result
  BY DEF NoResult, Result, Label
<1>2. results \in Seq(Result) /\ Len(results) <= ResultsCap
  BY BenchAssumption DEF Init
<1>3. agg \in [latencies: Seq(Nat), errors: Nat,
               statusCounts: [Status -> Nat], cacheCounts: [Label -> Nat],
               targetCounts: [Label -> Nat]]
  BY DEF Init
<1>4. exit \in -1..2 /\ warmed \in 0..Warmup /\ overtime \in Nat
  BY BenchAssumption DEF Init
<1>5. /\ main \in {"warmup", "wait", "drain", "report", "exited"}
      /\ expired \in BOOLEAN /\ closed \in BOOLEAN /\ doneAgg \in BOOLEAN
      /\ pc \in [Worker -> {"check", "request", "send", "left"}]
      /\ answered \in [Answer -> Nat]
  BY DEF Init
<1>6. res \in [Worker -> Result]
  BY <1>1 DEF Init
<1> QED
  BY <1>2, <1>3, <1>4, <1>5, <1>6 DEF TypeOK

LEMMA BenchTypeInductive == ASSUME TypeOK, [Next]_vars PROVE TypeOK'
<1> USE DEF TypeOK
<1>1. CASE WarmUp
  BY <1>1, BenchAssumption DEF WarmUp
<1>2. CASE Wait
  BY <1>2 DEF Wait
<1>3. CASE Drain
  BY <1>3 DEF Drain
<1>4. CASE Report
  <2>1. exit' \in -1..2
    BY <1>4 DEF Report
  <2> QED
    BY <1>4, <2>1 DEF Report
<1>5. CASE Aggregate
  <2>1. CASE results # <<>> /\ agg' = Collect(Head(results))
             /\ results' = Tail(results) /\ UNCHANGED doneAgg
    <3>1. Head(results) \in Result /\ results' \in Seq(Result)
          /\ Len(results') <= ResultsCap
      BY <2>1, BenchAssumption
    <3>2. agg' \in [latencies: Seq(Nat), errors: Nat,
                    statusCounts: [Status -> Nat],
                    cacheCounts: [Label -> Nat],
                    targetCounts: [Label -> Nat]]
      BY <2>1, <3>1, CollectType
    <3> QED
      BY <1>5, <2>1, <3>1, <3>2 DEF Aggregate
  <2>2. CASE UNCHANGED <<agg, results>> /\ doneAgg' = TRUE
    BY <1>5, <2>2 DEF Aggregate
  <2> QED
    BY <1>5, <2>1, <2>2 DEF Aggregate
<1>6. CASE Expire
  BY <1>6 DEF Expire
<1>7. ASSUME NEW w \in Worker, Check(w) PROVE TypeOK'
  BY <1>7 DEF Check, Goto
<1>8. ASSUME NEW w \in Worker, Request(w) PROVE TypeOK'
  <2>1. PICK a \in Answer : res' = [res EXCEPT ![w] = DoReq(a)]
                            /\ answered' = [answered EXCEPT ![a] = @ + 1]
    BY <1>8 DEF Request
  <2>2. res' \in [Worker -> Result]
    BY <2>1, DoReqType
  <2>3. answered' \in [Answer -> Nat]
    BY <2>1
  <2>4. overtime' \in Nat
    BY <1>8 DEF Request
  <2> QED
    BY <1>8, <2>2, <2>3, <2>4 DEF Request, Goto
<1>9. ASSUME NEW w \in Worker, Send(w) PROVE TypeOK'
  <2>1. results' \in Seq(Result) /\ Len(results') <= ResultsCap
    BY <1>9, BenchAssumption DEF Send
  <2> QED
    BY <1>9, <2>1 DEF Send, Goto
<1>10. CASE UNCHANGED vars
  BY <1>10 DEF vars
<1> QED
  BY <1>1, <1>2, <1>3, <1>4, <1>5, <1>6, <1>7, <1>8, <1>9, <1>10
     DEF Next, Main, WorkerStep

(* Every variable keeps its type, the channel stays within its capacity and *)
(* the counters of the report within what the gateway may answer            *)
(* (main.go:95-127).                                                        *)
THEOREM BenchTypeCorrect == Spec => []TypeOK
<1>1. Init => TypeOK
  BY BenchTypeInitial
<1>2. TypeOK /\ [Next]_vars => TypeOK'
  BY BenchTypeInductive
<1> QED
  BY <1>1, <1>2, PTL DEF Spec

-----------------------------------------------------------------------------
(* At most one request of each worker outlives the deadline: the answers    *)
(* after it and the requests still out fit into the number of workers.      *)
Overtime ==
  IF expired THEN overtime + InFlight <= Cardinality(Worker) ELSE overtime = 0

LEMMA InFlightType ==
  InFlight \in Nat /\ Cardinality(Worker) \in Nat
  /\ InFlight <= Cardinality(Worker)
<1>1. IsFiniteSet(Worker)
  BY BenchAssumption
<1>2. {w \in Worker : pc[w] = "request"} \in SUBSET Worker
  OBVIOUS
<1> QED
  BY <1>1, <1>2, FS_Subset, FS_CardinalityType DEF InFlight

LEMMA RequestAnswered ==
  ASSUME TypeOK, NEW w \in Worker, Request(w)
  PROVE  InFlight' = InFlight - 1
<1> DEFINE Out == {v \in Worker : pc[v] = "request"}
<1>1. {v \in Worker : pc'[v] = "request"} = Out \ {w}
  BY DEF Request, Goto, TypeOK
<1>2. IsFiniteSet(Out)
  BY BenchAssumption, FS_Subset, Out \in SUBSET Worker
<1>3. w \in Out
  BY DEF Request
<1> QED
  BY <1>1, <1>2, <1>3, FS_RemoveElement DEF InFlight

LEMMA OvertimeInductive ==
  ASSUME TypeOK, Overtime, [Next]_vars
  PROVE  Overtime'
<1> USE DEF Overtime
<1>1. ASSUME UNCHANGED <<pc, expired, overtime>> PROVE Overtime'
  BY <1>1 DEF InFlight
<1>2. CASE Expire
  <2>1. overtime' = 0 /\ InFlight' = InFlight /\ expired'
    BY <1>2 DEF Expire, InFlight
  <2> QED
    BY <2>1, InFlightType
<1>3. ASSUME NEW w \in Worker, Check(w) PROVE Overtime'
  <2>1. CASE expired
    <3>1. pc'[w] = "left" /\ pc' = [pc EXCEPT ![w] = "left"]
      BY <1>3, <2>1 DEF Check, Goto, TypeOK
    <3>2. InFlight' = InFlight
      <4>1. {v \in Worker : pc'[v] = "request"}
              = {v \in Worker : pc[v] = "request"}
        BY <1>3, <3>1 DEF Check, TypeOK
      <4> QED
        BY <4>1 DEF InFlight
    <3> QED
      BY <1>3, <2>1, <3>2 DEF Check
  <2>2. CASE ~expired
    BY <1>3, <2>2 DEF Check
  <2> QED
    BY <2>1, <2>2
<1>4. ASSUME NEW w \in Worker, Request(w) PROVE Overtime'
  <2>1. InFlight' = InFlight - 1 /\ expired' = expired
        /\ overtime' = IF expired THEN overtime + 1 ELSE overtime
    BY <1>4, RequestAnswered DEF Request
  <2>2. overtime \in Nat
    BY DEF TypeOK
  <2> QED
    BY <2>1, <2>2, InFlightType
<1>5. ASSUME NEW w \in Worker, Send(w) PROVE Overtime'
  <2>1. {v \in Worker : pc'[v] = "request"}
          = {v \in Worker : pc[v] = "request"}
    BY <1>5 DEF Send, Goto, TypeOK
  <2> QED
    BY <1>5, <2>1 DEF Send, InFlight
<1>6. CASE WarmUp \/ Wait \/ Drain \/ Report \/ Aggregate \/ UNCHANGED vars
  BY <1>1, <1>6 DEF WarmUp, Wait, Drain, Report, Aggregate, vars
<1> QED
  BY <1>2, <1>3, <1>4, <1>5, <1>6 DEF Next, Main, WorkerStep

(* However long the gateway takes, no more requests are answered after the  *)
(* deadline than there are workers (main.go:129-144,165).                   *)
THEOREM BenchOvertime == Spec => []OvertimeBounded
<1>1. Init => TypeOK /\ Overtime
  BY BenchTypeInitial DEF Init, Overtime
<1>2. TypeOK /\ Overtime /\ [Next]_vars => TypeOK' /\ Overtime'
  BY BenchTypeInductive, OvertimeInductive
<1>3. TypeOK /\ Overtime => OvertimeBounded
  BY InFlightType DEF TypeOK, Overtime, OvertimeBounded
<1> QED
  BY <1>1, <1>2, <1>3, PTL DEF Spec

-----------------------------------------------------------------------------
(* Counting the members of a sequence that lie in R.                        *)
Hits(s, R) == {i \in DOMAIN s : s[i] \in R}
OneIf(x, R) == IF x \in R THEN 1 ELSE 0

LEMMA HitsFinite ==
  ASSUME NEW S, NEW s \in Seq(S), NEW R
  PROVE  IsFiniteSet(Hits(s, R)) /\ Cardinality(Hits(s, R)) \in Nat
<1>1. DOMAIN s = 1..Len(s) /\ Len(s) \in Nat
  OBVIOUS
<1>2. IsFiniteSet(1..Len(s))
  BY <1>1, FS_Interval
<1>3. Hits(s, R) \in SUBSET (1..Len(s))
  BY <1>1 DEF Hits
<1> QED
  BY <1>2, <1>3, FS_Subset, FS_CardinalityType

LEMMA HitsAppend ==
  ASSUME NEW S, NEW s \in Seq(S), NEW x \in S, NEW R
  PROVE  Cardinality(Hits(Append(s, x), R))
           = Cardinality(Hits(s, R)) + OneIf(x, R)
<1>1. Append(s, x) \in Seq(S) /\ Len(Append(s, x)) = Len(s) + 1
      /\ Append(s, x)[Len(s) + 1] = x
      /\ \A i \in 1..Len(s) : Append(s, x)[i] = s[i]
  OBVIOUS
<1>2. DOMAIN s = 1..Len(s) /\ DOMAIN Append(s, x) = 1..(Len(s) + 1)
  BY <1>1
<1>3. Len(s) \in Nat
  OBVIOUS
<1>4. Hits(Append(s, x), R) =
        IF x \in R THEN Hits(s, R) \cup {Len(s) + 1} ELSE Hits(s, R)
  BY <1>1, <1>2, <1>3 DEF Hits
<1>5. Len(s) + 1 \notin Hits(s, R)
  BY <1>2, <1>3 DEF Hits
<1>6. IsFiniteSet(Hits(s, R)) /\ Cardinality(Hits(s, R)) \in Nat
  BY HitsFinite
<1>7. Cardinality(Hits(s, R) \cup {Len(s) + 1}) = Cardinality(Hits(s, R)) + 1
  BY <1>5, <1>6, FS_AddElement
<1> QED
  BY <1>4, <1>6, <1>7 DEF OneIf

LEMMA HitsTail ==
  ASSUME NEW S, NEW s \in Seq(S), s # <<>>, NEW R
  PROVE  Cardinality(Hits(s, R))
           = Cardinality(Hits(Tail(s), R)) + OneIf(Head(s), R)
<1> DEFINE A == Hits(Tail(s), R)
           B == {i \in 2..Len(s) : s[i] \in R}
<1>1. Len(s) \in Nat /\ Len(s) > 0 /\ DOMAIN s = 1..Len(s)
  OBVIOUS
<1>2. /\ Tail(s) \in Seq(S) /\ DOMAIN Tail(s) = 1..(Len(s) - 1)
      /\ \A i \in 1..(Len(s) - 1) : Tail(s)[i] = s[i + 1]
  BY <1>1
<1>3. IsFiniteSet(A) /\ Cardinality(A) \in Nat
  BY <1>2, HitsFinite
<1>4. A = {i \in 1..(Len(s) - 1) : s[i + 1] \in R}
  BY <1>2 DEF Hits
<1>5. [i \in A |-> i + 1] \in Bijection(A, B)
  <2> HIDE DEF A
  <2>1. \A i \in A : i + 1 \in B
    BY <1>1, <1>4
  <2>2. \A j \in B : j - 1 \in A /\ (j - 1) + 1 = j
    BY <1>1, <1>4
  <2>3. \A i, j \in A : i + 1 = j + 1 => i = j
    BY <1>4
  <2> HIDE DEF B
  <2> QED
    BY <2>1, <2>2, <2>3 DEF Bijection, Injection, Surjection, IsInjective
<1>6. IsFiniteSet(B) /\ Cardinality(B) = Cardinality(A)
  BY <1>3, <1>5, FS_Bijection DEF ExistsBijection
<1>7. Head(s) = s[1]
  OBVIOUS
<1>8. Hits(s, R) = IF Head(s) \in R THEN B \cup {1} ELSE B
  BY <1>1, <1>7 DEF Hits
<1>9. 1 \notin B
  OBVIOUS
<1>10. Cardinality(B \cup {1}) = Cardinality(B) + 1
  <2> HIDE DEF B
  <2> QED
    BY <1>6, <1>9, FS_AddElement
<1> QED
  BY <1>3, <1>6, <1>8, <1>10 DEF OneIf

-----------------------------------------------------------------------------
(* How far main can be while there is something left to collect.            *)
Ended == {"drain", "report", "exited"}
Phases ==
  /\ main \in Ended => closed /\ \A w \in Worker : pc[w] = "left"
  /\ closed => main \in Ended
  /\ doneAgg => closed /\ results = <<>>
  /\ main \in {"report", "exited"} => doneAgg

LEMMA PhasesInductive ==
  ASSUME TypeOK, Phases, [Next]_vars
  PROVE  Phases'
<1> USE DEF Phases, Ended
<1>1. CASE WarmUp
  BY <1>1 DEF WarmUp
<1>2. CASE Wait
  BY <1>2 DEF Wait
<1>3. CASE Drain
  BY <1>3 DEF Drain
<1>4. CASE Report
  BY <1>4 DEF Report
<1>5. CASE Aggregate
  BY <1>5 DEF Aggregate
<1>6. CASE Expire
  BY <1>6 DEF Expire
<1>7. ASSUME NEW w \in Worker, Check(w) PROVE Phases'
  BY <1>7 DEF Check, Goto, TypeOK
<1>8. ASSUME NEW w \in Worker, Request(w) PROVE Phases'
  BY <1>8 DEF Request, Goto, TypeOK
<1>9. ASSUME NEW w \in Worker, Send(w) PROVE Phases'
  BY <1>9 DEF Send, Goto, TypeOK
<1>10. CASE UNCHANGED vars
  BY <1>10 DEF vars
<1> QED
  BY <1>1, <1>2, <1>3, <1>4, <1>5, <1>6, <1>7, <1>8, <1>9, <1>10
     DEF Next, Main, WorkerStep

-----------------------------------------------------------------------------
(* The results of a set R that have been collected: those of the answers    *)
(* given, less what waits in the channel or with a worker.                  *)
Returned(R) == Given({a \in Answer : DoReq(a) \in R})
Senders(R) == {w \in Worker : pc[w] = "send" /\ res[w] \in R}
Collected(R) ==
  Returned(R) - Cardinality(Hits(results, R)) - Cardinality(Senders(R))

LEMMA CollectedParts ==
  ASSUME TypeOK, NEW R
  PROVE  /\ Returned(R) \in Nat /\ Cardinality(Hits(results, R)) \in Nat
         /\ IsFiniteSet(Senders(R)) /\ Cardinality(Senders(R)) \in Nat
<1>1. Cardinality(Hits(results, R)) \in Nat
  BY HitsFinite DEF TypeOK
<1>2. Senders(R) \in SUBSET Worker
  BY DEF Senders
<1>3. IsFiniteSet(Senders(R)) /\ Cardinality(Senders(R)) \in Nat
  BY <1>2, BenchAssumption, FS_Subset, FS_CardinalityType
<1> DEFINE A == {a \in Answer : DoReq(a) \in R}
           f == [a \in A |-> answered[a]]
<1>4. IsFiniteSet(A)
  BY BenchAssumption, FS_Subset, A \in SUBSET Answer
<1>5. f \in [A -> Nat]
  BY DEF TypeOK
<1> HIDE DEF f, A
<1>6. SumOf(f) \in Nat
  BY <1>4, <1>5, SumType
<1> QED
  BY <1>1, <1>3, <1>6 DEF Returned, Given, f, A

LEMMA CollectedAtRequest ==
  ASSUME TypeOK, TypeOK', NEW R, NEW w \in Worker, Request(w)
  PROVE  Collected(R)' = Collected(R)
<1>1. PICK a \in Answer : res' = [res EXCEPT ![w] = DoReq(a)]
                          /\ answered' = [answered EXCEPT ![a] = @ + 1]
  BY DEF Request
<1>2. pc[w] = "request" /\ pc' = [pc EXCEPT ![w] = "send"]
      /\ results' = results
  BY DEF Request, Goto
<1>3. Returned(R)' = Returned(R) + OneIf(DoReq(a), R)
  <2> DEFINE A == {b \in Answer : DoReq(b) \in R}
             f == [b \in A |-> answered[b]]
             g == [b \in A |-> answered'[b]]
  <2>1. Returned(R) = SumOf(f) /\ Returned(R)' = SumOf(g)
    BY DEF Returned, Given
  <2>2. IsFiniteSet(A)
    BY BenchAssumption, FS_Subset, A \in SUBSET Answer
  <2>3. f \in [A -> Nat]
    BY DEF TypeOK
  <2>4. CASE DoReq(a) \in R
    <3>1. g = [f EXCEPT ![a] = @ + 1] /\ a \in A
      BY <1>1, <2>4 DEF TypeOK
    <3> HIDE DEF f, g, A
    <3>2. SumOf(g) = SumOf(f) + 1
      BY <2>2, <2>3, <3>1, SumIncrement
    <3> QED
      BY <2>1, <2>4, <3>2 DEF OneIf
  <2>5. CASE DoReq(a) \notin R
    <3>1. g = f
      BY <1>1, <2>5 DEF TypeOK
    <3> HIDE DEF f, g
    <3> QED
      BY <2>1, <2>5, <3>1, CollectedParts DEF OneIf
  <2> QED
    BY <2>4, <2>5
<1>4. Cardinality(Senders(R)') = Cardinality(Senders(R)) + OneIf(DoReq(a), R)
  <2>1. w \notin Senders(R)
    BY <1>2 DEF Senders
  <2>2. Senders(R)' = IF DoReq(a) \in R THEN Senders(R) \cup {w}
                                         ELSE Senders(R)
    BY <1>1, <1>2 DEF Senders, TypeOK
  <2>3. Cardinality(Senders(R) \cup {w}) = Cardinality(Senders(R)) + 1
    BY <2>1, CollectedParts, FS_AddElement
  <2> QED
    BY <2>2, <2>3, CollectedParts DEF OneIf
<1>5. Hits(results, R)' = Hits(results, R)
  BY <1>2 DEF Hits
<1>6. OneIf(DoReq(a), R) \in Nat
  BY DEF OneIf
<1> QED
  BY <1>3, <1>4, <1>5, <1>6, CollectedParts DEF Collected

LEMMA CollectedAtSend ==
  ASSUME TypeOK, NEW R, NEW w \in Worker, Send(w)
  PROVE  Collected(R)' = Collected(R)
<1>1. pc[w] = "send" /\ pc' = [pc EXCEPT ![w] = "check"]
      /\ results' = Append(results, res[w]) /\ UNCHANGED <<res, answered>>
  BY DEF Send, Goto
<1>2. Returned(R)' = Returned(R)
  BY <1>1 DEF Returned, Given
<1>3. Cardinality(Hits(results, R))'
        = Cardinality(Hits(results, R)) + OneIf(res[w], R)
  BY <1>1, HitsAppend DEF TypeOK
<1>4. Cardinality(Senders(R)') = Cardinality(Senders(R)) - OneIf(res[w], R)
  <2>1. Senders(R)' = Senders(R) \ {w} /\ (w \in Senders(R) <=> res[w] \in R)
    BY <1>1 DEF Senders, TypeOK
  <2>2. Cardinality(Senders(R) \ {w}) =
          IF w \in Senders(R) THEN Cardinality(Senders(R)) - 1
                              ELSE Cardinality(Senders(R))
    BY CollectedParts, FS_RemoveElement
  <2> QED
    BY <2>1, <2>2, CollectedParts DEF OneIf
<1>5. OneIf(res[w], R) \in Nat
  BY DEF OneIf
<1> QED
  BY <1>2, <1>3, <1>4, <1>5, CollectedParts DEF Collected

LEMMA CollectedElsewhere ==
  ASSUME TypeOK, NEW R, UNCHANGED <<results, res, answered>>,
         \A w \in Worker : pc'[w] = "send" <=> pc[w] = "send"
  PROVE  Collected(R)' = Collected(R)
<1>1. Returned(R)' = Returned(R) /\ Hits(results, R)' = Hits(results, R)
  BY DEF Returned, Given, Hits
<1>2. Senders(R)' = Senders(R)
  BY DEF Senders
<1> QED
  BY <1>1, <1>2 DEF Collected

LEMMA CollectedByAggregate ==
  ASSUME TypeOK, NEW R, results # <<>>, results' = Tail(results),
         UNCHANGED <<pc, res, answered>>
  PROVE  Collected(R)' = Collected(R) + OneIf(Head(results), R)
<1>1. Returned(R)' = Returned(R) /\ Senders(R)' = Senders(R)
  BY DEF Returned, Given, Senders
<1>2. Cardinality(Hits(results, R))
        = Cardinality(Hits(results', R)) + OneIf(Head(results), R)
  BY HitsTail DEF TypeOK
<1>3. OneIf(Head(results), R) \in Nat
  BY DEF OneIf
<1>4. Cardinality(Hits(results', R)) \in Nat
  <2>1. results' \in Seq(Result)
    BY DEF TypeOK
  <2> QED
    BY <2>1, HitsFinite
<1> QED
  BY <1>1, <1>2, <1>3, <1>4, CollectedParts DEF Collected

-----------------------------------------------------------------------------
(* Every counter of the report holds what has been collected of its kind.   *)
Fine == {r \in Result : ~r.err}
Counted ==
  /\ agg.errors = Collected(Result \ Fine)
  /\ \A s \in Status :
       agg.statusCounts[s] = Collected({r \in Fine : r.status = s})
  /\ \A l \in Label :
       /\ agg.cacheCounts[l] = Collected({r \in Fine : r.cache = l})
       /\ agg.targetCounts[l] = Collected({r \in Fine : r.target = l})
  /\ \A n \in Nat :
       Cardinality(Hits(agg.latencies, {n}))
         = Collected({r \in Fine : r.millis = n})

LEMMA NothingCollected == ASSUME Init, NEW R PROVE Collected(R) = 0
<1>1. Returned(R) = 0
  <2> DEFINE A == {a \in Answer : DoReq(a) \in R}
             f == [a \in A |-> answered[a]]
  <2>1. DOMAIN f = A /\ \A a \in A : f[a] = 0
    BY DEF Init
  <2> HIDE DEF f, A
  <2>2. SumOf(f) = 0
    BY <2>1, SumZero
  <2> QED
    BY <2>2 DEF f, A, Returned, Given
<1>2. Hits(results, R) = {} /\ Senders(R) = {}
  BY DEF Init, Hits, Senders
<1> QED
  BY <1>1, <1>2, FS_EmptySet DEF Collected

LEMMA CountedInitial == Init => Counted
<1> SUFFICES ASSUME Init PROVE Counted
  OBVIOUS
<1>1. \A n \in Nat : Cardinality(Hits(agg.latencies, {n})) = 0
  <2>1. \A n \in Nat : Hits(agg.latencies, {n}) = {}
    BY DEF Init, Hits
  <2> QED
    BY <2>1, FS_EmptySet
<1>2. /\ agg.errors = 0
      /\ \A s \in Status : agg.statusCounts[s] = 0
      /\ \A l \in Label : agg.cacheCounts[l] = 0 /\ agg.targetCounts[l] = 0
  BY DEF Init
<1> QED
  BY <1>1, <1>2, NothingCollected DEF Counted

LEMMA CountedStays ==
  ASSUME Counted, agg' = agg, \A R : Collected(R)' = Collected(R)
  PROVE  Counted'
BY DEF Counted

LEMMA CountedByAggregate ==
  ASSUME TypeOK, Counted, results # <<>>, results' = Tail(results),
         agg' = Collect(Head(results)), UNCHANGED <<pc, res, answered>>
  PROVE  Counted'
<1> DEFINE r == Head(results)
<1>1. r \in Result
  BY DEF TypeOK
<1>2. \A R : Collected(R)' = Collected(R) + OneIf(r, R)
  BY CollectedByAggregate
<1>3. /\ agg.latencies \in Seq(Nat) /\ agg.errors \in Nat
      /\ agg.statusCounts \in [Status -> Nat]
      /\ agg.cacheCounts \in [Label -> Nat]
      /\ agg.targetCounts \in [Label -> Nat]
  BY DEF TypeOK
<1>4. \A n \in Nat : Cardinality(Hits(agg.latencies, {n})) \in Nat
  BY <1>3, HitsFinite
<1>5. r.err \in BOOLEAN /\ r.millis \in Nat
  BY <1>1 DEF Result
<1> HIDE DEF r
<1>6. CASE r.err
  <2>1. /\ agg'.errors = agg.errors + 1
        /\ agg'.statusCounts = agg.statusCounts
        /\ agg'.cacheCounts = agg.cacheCounts
        /\ agg'.targetCounts = agg.targetCounts
        /\ agg'.latencies = agg.latencies
    BY <1>6 DEF Collect, r
  <2>2. OneIf(r, Result \ Fine) = 1
    BY <1>1, <1>6 DEF OneIf, Fine
  <2>3. \A R \in SUBSET Fine : OneIf(r, R) = 0
    BY <1>6 DEF OneIf, Fine
  <2>4. \A R \in SUBSET Fine : Collected(R)' = Collected(R) + 0
    BY <1>2, <2>3
  <2>5. agg'.errors = Collected(Result \ Fine)'
    BY <1>2, <2>1, <2>2 DEF Counted
  <2>6. ASSUME NEW s \in Status
        PROVE  agg'.statusCounts[s] = Collected({q \in Fine : q.status = s})'
    <3>1. agg'.statusCounts[s] = agg.statusCounts[s] + 0
      BY <1>3, <2>1
    <3> QED
      BY <2>4, <3>1 DEF Counted
  <2>7. ASSUME NEW l \in Label
        PROVE  /\ agg'.cacheCounts[l] = Collected({q \in Fine : q.cache = l})'
               /\ agg'.targetCounts[l]
                    = Collected({q \in Fine : q.target = l})'
    <3>1. /\ agg'.cacheCounts[l] = agg.cacheCounts[l] + 0
          /\ agg'.targetCounts[l] = agg.targetCounts[l] + 0
      BY <1>3, <2>1
    <3> QED
      BY <2>4, <3>1 DEF Counted
  <2>8. ASSUME NEW n \in Nat
        PROVE  Cardinality(Hits(agg'.latencies, {n}))
                 = Collected({q \in Fine : q.millis = n})'
    <3>1. Cardinality(Hits(agg'.latencies, {n}))
            = Cardinality(Hits(agg.latencies, {n})) + 0
      BY <1>4, <2>1
    <3> QED
      BY <2>4, <3>1 DEF Counted
  <2> QED
    BY <2>5, <2>6, <2>7, <2>8 DEF Counted
<1>7. CASE ~r.err
  <2>1. /\ agg'.errors = agg.errors
        /\ agg'.statusCounts = [agg.statusCounts EXCEPT ![r.status] = @ + 1]
        /\ agg'.cacheCounts = [agg.cacheCounts EXCEPT ![r.cache] = @ + 1]
        /\ agg'.targetCounts = [agg.targetCounts EXCEPT ![r.target] = @ + 1]
        /\ agg'.latencies = Append(agg.latencies, r.millis)
    BY <1>7 DEF Collect, r
  <2>2. r \in Fine /\ OneIf(r, Result \ Fine) = 0
    BY <1>1, <1>7 DEF OneIf, Fine
  <2>3. agg'.errors = Collected(Result \ Fine)'
    BY <1>2, <1>3, <2>1, <2>2 DEF Counted
  <2>4. ASSUME NEW s \in Status
        PROVE  agg'.statusCounts[s] = Collected({q \in Fine : q.status = s})'
    <3>1. agg'.statusCounts[s]
            = agg.statusCounts[s] + OneIf(r, {q \in Fine : q.status = s})
      BY <1>3, <2>1, <2>2 DEF OneIf
    <3> QED
      BY <1>2, <3>1 DEF Counted
  <2>5. ASSUME NEW l \in Label
        PROVE  agg'.cacheCounts[l] = Collected({q \in Fine : q.cache = l})'
    <3>1. agg'.cacheCounts[l]
            = agg.cacheCounts[l] + OneIf(r, {q \in Fine : q.cache = l})
      BY <1>3, <2>1, <2>2 DEF OneIf
    <3> QED
      BY <1>2, <3>1 DEF Counted
  <2>6. ASSUME NEW l \in Label
        PROVE  agg'.targetCounts[l] = Collected({q \in Fine : q.target = l})'
    <3>1. agg'.targetCounts[l]
            = agg.targetCounts[l] + OneIf(r, {q \in Fine : q.target = l})
      BY <1>3, <2>1, <2>2 DEF OneIf
    <3> QED
      BY <1>2, <3>1 DEF Counted
  <2>7. ASSUME NEW n \in Nat
        PROVE  Cardinality(Hits(agg'.latencies, {n}))
                 = Collected({q \in Fine : q.millis = n})'
    <3>1. Cardinality(Hits(agg'.latencies, {n}))
            = Cardinality(Hits(agg.latencies, {n})) + OneIf(r.millis, {n})
      <4>1. Cardinality(Hits(Append(agg.latencies, r.millis), {n}))
              = Cardinality(Hits(agg.latencies, {n})) + OneIf(r.millis, {n})
        BY <1>3, <1>5, HitsAppend, Zenon
      <4> QED
        BY <2>1, <4>1
    <3>2. OneIf(r.millis, {n}) = OneIf(r, {q \in Fine : q.millis = n})
      BY <2>2 DEF OneIf
    <3> QED
      BY <1>2, <3>1, <3>2 DEF Counted
  <2> QED
    BY <2>3, <2>4, <2>5, <2>6, <2>7 DEF Counted
<1> QED
  BY <1>5, <1>6, <1>7

LEMMA CountedInductive ==
  ASSUME TypeOK, TypeOK', Counted, [Next]_vars
  PROVE  Counted'
<1>1. ASSUME NEW w \in Worker, Request(w) PROVE Counted'
  <2>1. agg' = agg
    BY <1>1 DEF Request
  <2>2. \A R : Collected(R)' = Collected(R)
    BY <1>1, CollectedAtRequest
  <2> QED
    BY <2>1, <2>2, CountedStays
<1>2. ASSUME NEW w \in Worker, Send(w) PROVE Counted'
  <2>1. agg' = agg
    BY <1>2 DEF Send
  <2>2. \A R : Collected(R)' = Collected(R)
    BY <1>2, CollectedAtSend
  <2> QED
    BY <2>1, <2>2, CountedStays
<1>3. ASSUME UNCHANGED <<agg, results, res, answered>>,
             \A w \in Worker : pc'[w] = "send" <=> pc[w] = "send"
      PROVE  Counted'
  <2>1. \A R : Collected(R)' = Collected(R)
    BY <1>3, CollectedElsewhere
  <2> QED
    BY <1>3, <2>1, CountedStays
<1>4. ASSUME NEW w \in Worker, Check(w) PROVE Counted'
  <2>1. UNCHANGED <<agg, results, res, answered>>
    BY <1>4 DEF Check
  <2>2. \A v \in Worker : pc'[v] = "send" <=> pc[v] = "send"
    BY <1>4 DEF Check, Goto, TypeOK
  <2> QED
    BY <1>3, <2>1, <2>2
<1>5. CASE Aggregate
  <2>1. CASE results # <<>> /\ agg' = Collect(Head(results))
             /\ results' = Tail(results)
    BY <1>5, <2>1, CountedByAggregate DEF Aggregate
  <2>2. CASE UNCHANGED <<agg, results>>
    BY <1>3, <1>5, <2>2 DEF Aggregate
  <2> QED
    BY <1>5, <2>1, <2>2 DEF Aggregate
<1>6. CASE WarmUp \/ Wait \/ Drain \/ Report \/ Expire \/ UNCHANGED vars
  BY <1>3, <1>6 DEF WarmUp, Wait, Drain, Report, Expire, vars
<1> QED
  BY <1>1, <1>2, <1>4, <1>5, <1>6 DEF Next, Main, WorkerStep

(* When main reports, nothing is left with a worker or in the channel.      *)
LEMMA AllCollected ==
  ASSUME TypeOK, Phases, main \in {"report", "exited"}, NEW R
  PROVE  Collected(R) = Returned(R)
<1>1. results = <<>> /\ \A w \in Worker : pc[w] = "left"
  BY DEF Phases, Ended
<1>2. Hits(results, R) = {} /\ Senders(R) = {}
  BY <1>1 DEF Hits, Senders
<1> QED
  BY <1>2, FS_EmptySet, CollectedParts DEF Collected

LEMMA ReportFollows ==
  ASSUME TypeOK, Phases, Counted
  PROVE  ReportComplete
<1> SUFFICES ASSUME main \in {"report", "exited"}
             PROVE  ReportComplete
  BY DEF ReportComplete
<1>1. \A a \in Answer :
        /\ DoReq(a) \in Result /\ (DoReq(a) \in Fine <=> a \in Good)
        /\ DoReq(a).status = a.status /\ DoReq(a).millis = a.millis
        /\ DoReq(a).cache = Labelled(a.cache)
        /\ DoReq(a).target
             = Labelled(IF a.live # "" THEN a.live ELSE a.target)
  BY DoReqType DEF DoReq, Fine, Good, ServedBy
<1>2. Good \in SUBSET Answer
  BY DEF Good
<1>3. agg.errors = Given(Answer \ Good)
  <2>1. {a \in Answer : DoReq(a) \in Result \ Fine} = Answer \ Good
    BY <1>1
  <2> QED
    BY <2>1, AllCollected DEF Counted, Returned
<1>4. ASSUME NEW s \in Status
      PROVE  agg.statusCounts[s] = Given({a \in Good : a.status = s})
  <2>1. {a \in Answer : DoReq(a) \in {r \in Fine : r.status = s}}
          = {a \in Good : a.status = s}
    BY <1>1, <1>2
  <2> QED
    BY <2>1, AllCollected DEF Counted, Returned
<1>5. ASSUME NEW l \in Label
      PROVE  agg.cacheCounts[l] = Given({a \in Good : l = Labelled(a.cache)})
  <2>1. {a \in Answer : DoReq(a) \in {r \in Fine : r.cache = l}}
          = {a \in Good : l = Labelled(a.cache)}
    BY <1>1, <1>2
  <2> QED
    BY <2>1, AllCollected DEF Counted, Returned
<1>6. ASSUME NEW l \in Label
      PROVE  agg.targetCounts[l]
               = Given({a \in Good :
                    l = Labelled(IF a.live # "" THEN a.live ELSE a.target)})
  <2>1. {a \in Answer : DoReq(a) \in {r \in Fine : r.target = l}}
          = {a \in Good :
               l = Labelled(IF a.live # "" THEN a.live ELSE a.target)}
    BY <1>1, <1>2
  <2> QED
    BY <2>1, AllCollected DEF Counted, Returned
<1>7. ASSUME NEW n \in {a.millis : a \in Answer}
      PROVE  Cardinality({i \in DOMAIN agg.latencies : agg.latencies[i] = n})
               = Given({a \in Good : a.millis = n})
  <2>1. {a \in Answer : DoReq(a) \in {r \in Fine : r.millis = n}}
          = {a \in Good : a.millis = n}
    BY <1>1, <1>2
  <2>2. n \in Nat
    BY BenchAssumption
  <2>3. Hits(agg.latencies, {n})
          = {i \in DOMAIN agg.latencies : agg.latencies[i] = n}
    BY DEF Hits
  <2> QED
    BY <2>1, <2>2, <2>3, AllCollected DEF Counted, Returned
<1> QED
  BY <1>3, <1>4, <1>5, <1>6, <1>7 DEF ReportComplete

(* Whatever the interleaving of the workers and the aggregating goroutine   *)
(* and however small the channel, the report accounts for every timed       *)
(* request exactly once, under its own labels (main.go:95-150).             *)
THEOREM BenchReports == Spec => []ReportComplete
<1> DEFINE I == TypeOK /\ Phases /\ Counted
<1>1. Init => I
  BY BenchTypeInitial, CountedInitial DEF Init, Phases, Ended
<1>2. I /\ [Next]_vars => I'
  BY BenchTypeInductive, PhasesInductive, CountedInductive
<1>3. I => ReportComplete
  BY ReportFollows
<1> QED
  BY <1>1, <1>2, <1>3, PTL DEF Spec

-----------------------------------------------------------------------------
(* Every sequence of naturals can be sorted: otherwise there is a smallest  *)
(* set of positions that cannot be put in ascending order, and taking a     *)
(* least element away from it leaves one that can.                          *)
Order(s, D, n) ==
  {q \in Bijection(1..n, D) :
     \A i, j \in 1..n : i <= j => s[q[i]] <= s[q[j]]}

LEMMA OrderNothing ==
  ASSUME NEW s, NEW D, IsFiniteSet(D), Cardinality(D) = 0
  PROVE  Order(s, D, 0) # {}
<1>1. D = {}
  BY FS_EmptySet
<1>2. 1..0 = {}
  OBVIOUS
<1> DEFINE q == [i \in 1..0 |-> i]
<1>3. q \in Bijection(1..0, D)
  BY <1>1, <1>2 DEF Bijection, Injection, Surjection, IsInjective
<1> QED
  BY <1>2, <1>3 DEF Order

LEMMA OrderOneMore ==
  ASSUME NEW P, NEW s \in [P -> Nat], NEW n \in Nat, NEW D \in SUBSET P,
         NEW x \in D, \A y \in D : s[x] <= s[y],
         NEW q \in Order(s, D \ {x}, n)
  PROVE  Order(s, D, n + 1) # {}
<1> DEFINE p == [i \in 1..(n + 1) |-> IF i = 1 THEN x ELSE q[i - 1]]
<1>1. /\ q \in [1..n -> D \ {x}]
      /\ \A i, j \in 1..n : q[i] = q[j] => i = j
      /\ \A y \in D \ {x} : \E i \in 1..n : q[i] = y
      /\ \A i, j \in 1..n : i <= j => s[q[i]] <= s[q[j]]
  BY DEF Order, Bijection, Injection, Surjection, IsInjective
<1>2. \A i \in 2..(n + 1) : i - 1 \in 1..n
  OBVIOUS
<1>3. p[1] = x /\ \A i \in 2..(n + 1) : p[i] = q[i - 1]
  OBVIOUS
<1>4. \A i \in 1..(n + 1) : i = 1 \/ i \in 2..(n + 1)
  OBVIOUS
<1>5. p \in [1..(n + 1) -> D]
  <2>1. \A i \in 1..(n + 1) : (IF i = 1 THEN x ELSE q[i - 1]) \in D
    BY <1>1, <1>2, <1>4
  <2> QED
    BY <2>1
<1> HIDE DEF p
<1>6. ASSUME NEW i \in 1..(n + 1), NEW j \in 1..(n + 1), p[i] = p[j]
      PROVE  i = j
  <2>1. \A k \in 2..(n + 1) : p[k] # x
    BY <1>1, <1>2, <1>3
  <2>2. CASE i = 1 \/ j = 1
    BY <1>3, <1>4, <1>6, <2>1, <2>2
  <2>3. CASE i \in 2..(n + 1) /\ j \in 2..(n + 1)
    <3>1. q[i - 1] = q[j - 1] /\ i - 1 \in 1..n /\ j - 1 \in 1..n
      BY <1>2, <1>3, <1>6, <2>3
    <3>2. i - 1 = j - 1
      BY <1>1, <3>1
    <3> QED
      BY <3>2
  <2> QED
    BY <1>4, <2>2, <2>3
<1>7. ASSUME NEW y \in D PROVE \E i \in 1..(n + 1) : p[i] = y
  <2>1. CASE y = x
    BY <1>3, <2>1
  <2>2. CASE y # x
    <3>1. PICK k \in 1..n : q[k] = y
      BY <1>1, <2>2
    <3>2. k + 1 \in 2..(n + 1) /\ (k + 1) - 1 = k /\ k + 1 \in 1..(n + 1)
      OBVIOUS
    <3>3. p[k + 1] = y
      BY <1>3, <3>1, <3>2
    <3> QED
      BY <3>2, <3>3
  <2> QED
    BY <2>1, <2>2
<1>8. p \in Bijection(1..(n + 1), D)
  BY <1>5, <1>6, <1>7 DEF Bijection, Injection, Surjection, IsInjective
<1>9. ASSUME NEW i \in 1..(n + 1), NEW j \in 1..(n + 1), i <= j
      PROVE  s[p[i]] <= s[p[j]]
  <2>1. CASE i = 1
    BY <1>3, <1>5, <2>1
  <2>2. CASE i # 1
    <3>1. i \in 2..(n + 1) /\ j \in 2..(n + 1) /\ i - 1 <= j - 1
      BY <1>9, <2>2
    <3> QED
      BY <1>1, <1>2, <1>3, <3>1
  <2> QED
    BY <2>1, <2>2
<1> QED
  BY <1>8, <1>9 DEF Order

LEMMA OrderExists ==
  ASSUME NEW P, NEW s \in [P -> Nat], NEW n \in Nat, NEW D \in SUBSET P,
         IsFiniteSet(D), Cardinality(D) = n
  PROVE  Order(s, D, n) # {}
<1> DEFINE Unsorted(m) == {E \in SUBSET P : IsFiniteSet(E)
                             /\ Cardinality(E) = m /\ Order(s, E, m) = {}}
           Bad == {m \in Nat : Unsorted(m) # {}}
<1> SUFFICES ASSUME Bad # {} PROVE FALSE
  <2>1. D \notin Unsorted(n)
    OBVIOUS
  <2> QED
    BY <2>1
<1>1. Bad \in SUBSET Nat
  OBVIOUS
<1>2. PICK m \in Bad : \A k \in Bad : m <= k
  <2> HIDE DEF Bad
  <2> QED
    BY <1>1, Least
<1>3. PICK E \in SUBSET P : IsFiniteSet(E) /\ Cardinality(E) = m
                            /\ Order(s, E, m) = {}
  OBVIOUS
<1>4. m \in Nat /\ m # 0
  BY <1>3, OrderNothing
<1>5. E # {}
  BY <1>3, <1>4, FS_EmptySet
<1>6. PICK x \in E : \A y \in E : s[x] <= s[y]
  <2> DEFINE V == {s[y] : y \in E}
  <2>1. V \in SUBSET Nat /\ V # {}
    BY <1>5
  <2> HIDE DEF V
  <2>2. PICK v \in V : \A u \in V : v <= u
    BY <2>1, Least
  <2> QED
    BY <2>2 DEF V
<1>7. IsFiniteSet(E \ {x}) /\ Cardinality(E \ {x}) = m - 1
  BY <1>3, <1>6, FS_RemoveElement
<1>8. m - 1 \in Nat /\ m - 1 \notin Bad
  <2> HIDE DEF Bad
  <2> QED
    BY <1>2, <1>4
<1>9. E \ {x} \notin Unsorted(m - 1)
  BY <1>8
<1>10. Order(s, E \ {x}, m - 1) # {}
  BY <1>7, <1>9
<1>11. PICK q \in Order(s, E \ {x}, m - 1) : TRUE
  BY <1>10
<1>12. Order(s, E, (m - 1) + 1) # {}
  BY <1>6, <1>8, <1>11, OrderOneMore
<1>13. (m - 1) + 1 = m
  BY <1>4
<1> QED
  BY <1>3, <1>12, <1>13

(* What Sorted is: ascending, and the latencies in another order.           *)
LEMMA SortedOrder ==
  ASSUME TypeOK
  PROVE  \E q \in Bijection(DOMAIN agg.latencies, DOMAIN agg.latencies) :
           /\ Ascending(agg.latencies, q)
           /\ Sorted = [i \in DOMAIN agg.latencies |-> agg.latencies[q[i]]]
<1> DEFINE s == agg.latencies
<1>1. s \in Seq(Nat)
  BY DEF TypeOK
<1> HIDE DEF s
<1>2. DOMAIN s = 1..Len(s) /\ Len(s) \in Nat /\ s \in [1..Len(s) -> Nat]
  BY <1>1
<1>3. IsFiniteSet(1..Len(s)) /\ Cardinality(1..Len(s)) = Len(s)
  BY <1>2, Positions
<1>4. Order(s, 1..Len(s), Len(s)) # {}
  BY <1>2, <1>3, OrderExists
<1>5. \E q \in Bijection(DOMAIN s, DOMAIN s) : Ascending(s, q)
  BY <1>2, <1>4 DEF Order, Ascending
<1> DEFINE Q == CHOOSE q \in Bijection(DOMAIN s, DOMAIN s) : Ascending(s, q)
<1>6. Q \in Bijection(DOMAIN s, DOMAIN s) /\ Ascending(s, Q)
  BY <1>5
<1>7. Sorted = [i \in DOMAIN s |-> s[Q[i]]]
  BY DEF Sorted, s
<1> HIDE DEF Q
<1> QED
  BY <1>6, <1>7 DEF s

(* Counting the latencies up to v in the sorted sequence instead.           *)
LEMMA AtMostSorted ==
  ASSUME TypeOK, NEW v \in Nat
  PROVE  LET n == Len(agg.latencies)
             S == {i \in 1..n : Sorted[i] <= v}
         IN  /\ IsFiniteSet(S) /\ AtMost(v) = Cardinality(S)
             /\ AtMost(v) \in Nat
<1> DEFINE s == agg.latencies
           n == Len(s)
           S == {i \in 1..n : Sorted[i] <= v}
           T == {i \in 1..n : s[i] <= v}
<1>1. s \in Seq(Nat) /\ DOMAIN s = 1..n /\ n \in Nat
  BY DEF TypeOK
<1>2. PICK q \in Bijection(1..n, 1..n) : Sorted = [i \in 1..n |-> s[q[i]]]
  BY <1>1, SortedOrder
<1>3. /\ q \in [1..n -> 1..n]
      /\ \A i, j \in 1..n : q[i] = q[j] => i = j
      /\ \A j \in 1..n : \E i \in 1..n : q[i] = j
  BY <1>2 DEF Bijection, Injection, Surjection, IsInjective
<1>4. S = {i \in 1..n : s[q[i]] <= v}
  BY <1>2
<1>5. IsFiniteSet(S)
  <2>1. S \in SUBSET (1..n)
    OBVIOUS
  <2> HIDE DEF S
  <2> QED
    BY <1>1, <2>1, SubsetOfPositions
<1>6. [i \in S |-> q[i]] \in Bijection(S, T)
  <2>1. \A i \in S : q[i] \in T
    BY <1>3, <1>4
  <2>2. \A j \in T : \E i \in S : q[i] = j
    BY <1>3, <1>4
  <2>3. \A i, j \in S : q[i] = q[j] => i = j
    BY <1>3
  <2> HIDE DEF S, T
  <2> QED
    BY <2>1, <2>2, <2>3 DEF Bijection, Injection, Surjection, IsInjective
<1>7. Cardinality(T) = Cardinality(S)
  <2> HIDE DEF S, T
  <2> QED
    BY <1>5, <1>6, FS_Bijection DEF ExistsBijection
<1>8. AtMost(v) = Cardinality(T)
  BY <1>1 DEF AtMost
<1>9. Cardinality(S) \in Nat
  BY <1>5, FS_CardinalityType
<1> QED
  BY <1>5, <1>7, <1>8, <1>9

(* The rounded up rank, in a position of the sequence.                      *)
LEMMA RankBounds ==
  ASSUME NEW n \in Nat \ {0}
  PROVE  \A p \in {50, 90, 95, 99} :
           LET k == (p * n + 99) \div 100
           IN  k \in 1..n /\ 100 * k >= p * n /\ 100 * (k - 1) < p * n
<1> SUFFICES ASSUME NEW p \in {50, 90, 95, 99}
             PROVE  LET k == (p * n + 99) \div 100
                    IN  k \in 1..n /\ 100 * k >= p * n /\ 100 * (k - 1) < p * n
  OBVIOUS
<1> DEFINE m == p * n
           k == (m + 99) \div 100
<1>1. m \in Int /\ m >= n /\ m <= 99 * n
  OBVIOUS
<1> HIDE DEF m
<1>2. k \in Int /\ 100 * k <= m + 99 /\ m + 99 < 100 * k + 100
  BY <1>1
<1> HIDE DEF k
<1>3. k \in 1..n /\ 100 * k >= m /\ 100 * (k - 1) < m
  BY <1>1, <1>2
<1> QED
  BY <1>3 DEF k, m

LEMMA SortedProperties ==
  ASSUME TypeOK
  PROVE  LET n == Len(agg.latencies)
         IN  /\ Sorted \in [1..n -> Nat] /\ Len(Sorted) = n
             /\ \A i, j \in 1..n : i <= j => Sorted[i] <= Sorted[j]
<1> DEFINE s == agg.latencies
           n == Len(s)
<1>1. s \in Seq(Nat) /\ DOMAIN s = 1..n /\ n \in Nat /\ s \in [1..n -> Nat]
  BY DEF TypeOK
<1>2. PICK q \in Bijection(1..n, 1..n) :
        Ascending(s, q) /\ Sorted = [i \in 1..n |-> s[q[i]]]
  BY <1>1, SortedOrder
<1>3. q \in [1..n -> 1..n]
  BY <1>2 DEF Bijection, Injection
<1>4. Len(Sorted) = n
  BY <1>1, <1>2
<1>5. \A i, j \in 1..n : i <= j => s[q[i]] <= s[q[j]]
  BY <1>1, <1>2 DEF Ascending
<1> HIDE DEF s, n
<1>6. \A i \in 1..n : s[q[i]] \in Nat
  BY <1>1, <1>3
<1>7. \A i \in 1..n : Sorted[i] = s[q[i]]
  BY <1>2
<1>8. Sorted \in [1..n -> Nat]
  BY <1>2, <1>6
<1> QED
  BY <1>4, <1>5, <1>7, <1>8 DEF s, n

LEMMA PercentileRank ==
  ASSUME TypeOK, agg.latencies # <<>>, NEW p \in {50, 90, 95, 99}
  PROVE  LET v == Percentile(Sorted, p)
         IN  /\ v \in Nat /\ Reaches(v, p)
             /\ \A x \in ToSet(agg.latencies) : Reaches(x, p) => v <= x
<1> DEFINE s == agg.latencies
           n == Len(s)
           k == (p * n + 99) \div 100
           v == Sorted[k]
<1>1. s \in Seq(Nat) /\ DOMAIN s = 1..n /\ n \in Nat \ {0}
  BY DEF TypeOK
<1>2. /\ \A i \in 1..n : Sorted[i] \in Nat
      /\ \A i, j \in 1..n : i <= j => Sorted[i] <= Sorted[j]
      /\ Len(Sorted) = n
  BY SortedProperties
<1>3. k \in 1..n /\ 100 * k >= p * n /\ 100 * (k - 1) < p * n
  <2> HIDE DEF n, s
  <2>1. n \in Nat \ {0}
    BY <1>1
  <2> QED
    BY <2>1, RankBounds
<1>4. Percentile(Sorted, p) = v
  BY <1>2 DEF Percentile
<1>5. p * n \in Int
  BY <1>1
<1> HIDE DEF n, k
<1>6. v \in Nat
  BY <1>2, <1>3
<1>7. Reaches(v, p)
  <2> DEFINE S == {i \in 1..n : Sorted[i] <= v}
  <2>1. IsFiniteSet(S) /\ AtMost(v) = Cardinality(S) /\ AtMost(v) \in Nat
    BY <1>6, AtMostSorted DEF n
  <2>2. 1..k \in SUBSET S
    BY <1>1, <1>2, <1>3
  <2>3. k \in Nat
    BY <1>1, <1>3
  <2>4. k <= AtMost(v)
    <3> HIDE DEF S
    <3> QED
      BY <2>1, <2>2, <2>3, SupersetOfPositions
  <2> QED
    BY <1>1, <1>3, <1>5, <2>1, <2>4 DEF Reaches, n
<1>8. ASSUME NEW x \in ToSet(s), Reaches(x, p) PROVE v <= x
  <2>1. x \in Nat
    BY <1>1 DEF ToSet
  <2> SUFFICES ASSUME x < v PROVE FALSE
    BY <1>6, <2>1
  <2> DEFINE S == {i \in 1..n : Sorted[i] <= x}
  <2>2. AtMost(x) = Cardinality(S) /\ AtMost(x) \in Nat
    BY <2>1, AtMostSorted DEF n
  <2>3. S \in SUBSET (1..(k - 1))
    <3> SUFFICES ASSUME NEW i \in S, ~(i < k) PROVE FALSE
      BY <1>1, <1>3
    <3> QED
      BY <1>1, <1>2, <1>3, <1>6, <2>1
  <2>4. k - 1 \in Nat
    BY <1>1, <1>3
  <2>5. Cardinality(S) <= k - 1
    <3> HIDE DEF S
    <3> QED
      BY <2>3, <2>4, SubsetOfPositions
  <2>6. AtMost(x) * 100 >= p * n
    BY <1>8 DEF Reaches, n
  <2>7. AtMost(x) * 100 <= 100 * (k - 1)
    <3> HIDE DEF S
    <3> QED
      BY <1>1, <1>3, <2>2, <2>5
  <2> QED
    BY <1>1, <1>3, <1>5, <2>2, <2>6, <2>7
<1> QED
  BY <1>4, <1>6, <1>7, <1>8

LEMMA ReachesMore ==
  ASSUME TypeOK, NEW x \in Nat, NEW y \in Nat, x <= y, Reaches(x, 99)
  PROVE  Reaches(y, 99)
<1> DEFINE S(v) == {i \in 1..Len(agg.latencies) : Sorted[i] <= v}
<1>1. /\ IsFiniteSet(S(y)) /\ AtMost(y) = Cardinality(S(y)) /\ AtMost(y) \in Nat
      /\ AtMost(x) = Cardinality(S(x)) /\ AtMost(x) \in Nat
  BY AtMostSorted
<1>2. agg.latencies \in Seq(Nat)
  BY DEF TypeOK
<1>3. \A i \in 1..Len(agg.latencies) : Sorted[i] \in Nat
  BY SortedProperties
<1>4. S(x) \in SUBSET S(y)
  BY <1>3
<1>5. Cardinality(S(x)) <= Cardinality(S(y))
  <2> HIDE DEF S
  <2> QED
    BY <1>1, <1>4, FS_Subset
<1>6. AtMost(x) <= AtMost(y)
  <2> HIDE DEF S
  <2> QED
    BY <1>1, <1>5
<1> QED
  BY <1>1, <1>2, <1>6 DEF Reaches

(* The exit status is decided on what is still there to be seen.            *)
Verdict ==
  main = "exited" =>
    exit = IF Total = 0 THEN 1 ELSE IF Exceeded THEN 2 ELSE 0

LEMMA VerdictInductive ==
  ASSUME TypeOK, Phases, Verdict, [Next]_vars
  PROVE  Verdict'
<1>1. ASSUME UNCHANGED <<agg, exit>>, main' = "exited" => main = "exited"
      PROVE  Verdict'
  BY <1>1 DEF Verdict, Total, Exceeded, Sorted
<1>2. CASE Report
  <2>1. agg' = agg
    BY <1>2 DEF Report
  <2>2. Total' = Total /\ Exceeded' = Exceeded
    BY <2>1 DEF Total, Exceeded, Sorted
  <2> QED
    BY <1>2, <2>2 DEF Verdict, Report
<1>3. CASE Aggregate
  <2>1. main' = main /\ main # "exited"
    BY <1>3 DEF Aggregate, Phases
  <2> QED
    BY <2>1 DEF Verdict
<1>4. CASE WarmUp \/ Wait \/ Drain \/ Expire \/ UNCHANGED vars
  BY <1>1, <1>4 DEF WarmUp, Wait, Drain, Expire, vars
<1>5. ASSUME NEW w \in Worker, WorkerStep(w) PROVE Verdict'
  BY <1>1, <1>5 DEF WorkerStep, Check, Request, Send
<1> QED
  BY <1>2, <1>3, <1>4, <1>5 DEF Next, Main

(* The percentiles of the report are nearest ranks for any latencies, and   *)
(* exit status 0 means that 99% of the successful requests stayed within    *)
(* 5 s (main.go:155-163,187,229-247).                                       *)
THEOREM BenchPercentiles == Spec => []NearestRank
<1> DEFINE I == TypeOK /\ Phases /\ Verdict
<1>1. Init => I
  BY BenchTypeInitial DEF Init, Phases, Ended, Verdict
<1>2. I /\ [Next]_vars => I'
  BY BenchTypeInductive, PhasesInductive, VerdictInductive
<1>3. I => NearestRank
  <2> SUFFICES ASSUME I, main = "exited", agg.latencies # <<>>
               PROVE  /\ exit = 0 => Reaches(5000, 99)
                      /\ \A p \in {50, 90, 95, 99} :
                           LET n == Percentile(Sorted, p)
                           IN  /\ Reaches(n, p)
                               /\ \A x \in ToSet(agg.latencies) :
                                    Reaches(x, p) => n <= x
    BY DEF NearestRank
  <2>1. ASSUME exit = 0 PROVE Reaches(5000, 99)
    <3>1. ~Exceeded
      BY <2>1 DEF Verdict
    <3>2. ~(Percentile(Sorted, 99) > 5000)
      BY <3>1 DEF Exceeded
    <3>3. Percentile(Sorted, 99) \in Nat /\ Reaches(Percentile(Sorted, 99), 99)
      BY PercentileRank
    <3> QED
      BY <3>2, <3>3, ReachesMore
  <2> QED
    BY <2>1, PercentileRank
<1> QED
  BY <1>1, <1>2, <1>3, PTL DEF Spec
=============================================================================
