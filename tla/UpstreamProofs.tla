--------------------------- MODULE UpstreamProofs ---------------------------
(***************************************************************************)
(* Theorems about Upstream, for every list of targets, every number of     *)
(* concurrent calls and every configuration.                               *)
(***************************************************************************)
EXTENDS Upstream, SequenceTheorems, FiniteSetTheorems, TLAPS

-----------------------------------------------------------------------------
(* The candidate list.                                                      *)
LEMMA IndexRange ==
  /\ Index = 1..Len(Targets)
  /\ Len(Targets) \in Nat
  /\ 1 \in Index
  /\ \A k \in Index : NameOf(k) \in Name /\ Weight(k) \in Nat /\ Weight(k) >= 1
<1>1. Index = 1..Len(Targets) /\ Len(Targets) \in Nat /\ 1 \in Index
  BY TargetsAssumption DEF Index
<1>2. \A k \in Index : Targets[k] \in [name: Name, weight: Int]
  BY <1>1, TargetsAssumption, ElementOfSeq
<1>3. \A k \in Index : Targets[k].name \in Name /\ Targets[k].weight \in Int
  BY <1>2
<1> QED
  BY <1>1, <1>3 DEF NameOf, Weight

(* A ticket selects one of the targets it is drawn for                      *)
(* (manager.go:77-78).                                                      *)
LEMMA PicksCandidate ==
  ASSUME NEW K, NEW ticket
  PROVE  Picks(K, ticket) \subseteq K
<1> SUFFICES ASSUME NEW k \in Picks(K, ticket) PROVE k \in K
  OBVIOUS
<1>1. PICK s \in Slots(K) : k = s[1]
  BY DEF Picks
<1>2. PICK j \in K : s \in {j} \X (1..Weight(j))
  BY DEF Slots
<1> QED
  BY <1>1, <1>2

(* Every target has a slot: LoadConfig leaves no weight below 1.            *)
LEMMA SlotPerTarget ==
  ASSUME NEW K \in SUBSET Index, NEW k \in K
  PROVE  Slots(K) # {}
<1>1. <<k, 1>> \in {k} \X (1..Weight(k))
  BY IndexRange
<1> QED
  BY <1>1 DEF Slots

LEMMA CandidatesType ==
  ASSUME NEW exclude, NEW at
  PROVE  /\ Candidates(exclude, at) \subseteq Untried(exclude)
         /\ Untried(exclude) \subseteq Index
BY DEF Candidates, Closed, Untried

LEMMA TicketType ==
  ASSUME NEW t \in Nat PROVE NextTicket(t) \in 0..(CounterRange - 1)
BY TargetsAssumption DEF NextTicket

-----------------------------------------------------------------------------
(* The manager's two writers keep the type of a target's state, and bound   *)
(* the breaker.                                                             *)
StateType ==
  /\ now \in Nat
  /\ failures \in [Name -> Int]
  /\ openUntil \in [Name -> Int]

LEMMA SuccessEffect ==
  ASSUME StateType, BreakerBounded, NEW n \in Name, RecordSuccess(n),
         now' = now
  PROVE  StateType' /\ BreakerBounded'
BY ConfigAssumption DEF StateType, BreakerBounded, RecordSuccess

LEMMA FailureEffect ==
  ASSUME StateType, BreakerBounded, NEW n \in Name, RecordFailure(n),
         now' = now
  PROVE  StateType' /\ BreakerBounded'
<1> USE ConfigAssumption DEF StateType, BreakerBounded
<1>1. CASE failures[n] + 1 >= BreakerFailures
  <2>1. /\ failures' = [failures EXCEPT ![n] = 0]
        /\ openUntil' = [openUntil EXCEPT ![n] = now + BreakerCooldown]
    BY <1>1 DEF RecordFailure
  <2> QED
    BY <2>1
<1>2. CASE ~(failures[n] + 1 >= BreakerFailures)
  <2>1. /\ failures' = [failures EXCEPT ![n] = failures[n] + 1]
        /\ openUntil' = openUntil
    BY <1>2 DEF RecordFailure
  <2> QED
    BY <1>2, <2>1
<1> QED
  BY <1>1, <1>2

-----------------------------------------------------------------------------
(* The inductive invariant.                                                 *)

(* An outcome is recorded for a target that exists.                         *)
TargetSet ==
  /\ \A c \in Call : pc[c] \in {"await", "record"} => target[c] \in Index
  /\ probeAnswer # "none" => probe \in Index

(* A call that has had no answer has tried nothing, so its first scan has   *)
(* every target to choose from.                                             *)
FirstPick ==
  \A c \in Call :
    /\ pc[c] \in {"clock", "scan", "take"} /\ answer[c] = "none"
         => tried[c] = {}
    /\ pc[c] = "record" => answer[c] # "none"

UpstreamInv ==
  TypeOK /\ BreakerBounded /\ TargetSet /\ FirstPick /\ AlwaysATarget

LEMMA UpstreamInitial == Init => UpstreamInv
BY IndexRange, TargetsAssumption, ConfigAssumption
   DEF Init, UpstreamInv, TypeOK, BreakerBounded, TargetSet, FirstPick,
       AlwaysATarget, Outcome

(* ReadClock and Scan: the first half of PickTarget (manager.go:49-76).     *)
LEMMA ScanPreserves ==
  ASSUME UpstreamInv, NEW c \in Call, ReadClock(c) \/ Scan(c)
  PROVE  UpstreamInv'
<1> USE DEF UpstreamInv
<1>1. CASE ReadClock(c)
  <2>1. /\ pc[c] = "clock"
        /\ seen' = [seen EXCEPT ![c] = now]
        /\ pc' = [pc EXCEPT ![c] = "scan"]
        /\ UNCHANGED <<now, failures, openUntil, rr, attempt, tried, cand,
                       target, answer, result, probe, probeAnswer, healthy,
                       faulted, cancelled>>
    BY <1>1 DEF ReadClock, manager, prober, environment
  <2>2. TypeOK'
    BY <2>1 DEF TypeOK
  <2> QED
    BY <2>1, <2>2
    DEF BreakerBounded, TargetSet, FirstPick, AlwaysATarget, TypeOK
<1>2. CASE Scan(c)
  <2> DEFINE K == Candidates(tried[c], seen[c])
  <2>1. /\ pc[c] = "scan"
        /\ seen' = [seen EXCEPT ![c] = 0]
        /\ UNCHANGED <<now, failures, openUntil, rr, attempt, tried, target,
                       answer, probe, probeAnswer, healthy, faulted, cancelled>>
    BY <1>2 DEF Scan, manager, prober, environment
  <2>2. K \subseteq Index
    BY CandidatesType
  <2>3. CASE Slots(K) # {}
    <3>1. /\ cand' = [cand EXCEPT ![c] = K]
          /\ pc' = [pc EXCEPT ![c] = "take"]
          /\ result' = result
      BY <1>2, <2>3 DEF Scan
    <3> HIDE DEF K
    <3>2. TypeOK'
      BY <2>1, <2>2, <3>1 DEF TypeOK
    <3> QED
      BY <2>1, <3>1, <3>2
         DEF BreakerBounded, TargetSet, FirstPick, AlwaysATarget, TypeOK
  <2>4. CASE Slots(K) = {}
    <3>1. answer[c] # "none"
      <4> SUFFICES ASSUME answer[c] = "none" PROVE FALSE
        OBVIOUS
      <4>1. tried[c] = {}
        BY <2>1 DEF FirstPick
      <4>2. 1 \in Untried(tried[c])
        BY <4>1, IndexRange DEF Untried
      <4>3. Slots(Untried(tried[c])) # {}
        BY <4>2, SlotPerTarget, CandidatesType
      <4> QED
        BY <2>4, <4>3 DEF Candidates
    <3>2. /\ pc' = [pc EXCEPT ![c] = "done"]
          /\ result' = [result EXCEPT ![c] = "error"]
          /\ cand' = cand
      BY <1>2, <2>4, <3>1 DEF Scan, Return
    <3>3. TypeOK'
      BY <2>1, <3>2 DEF TypeOK, Outcome
    <3> QED
      BY <2>1, <3>2, <3>3
         DEF BreakerBounded, TargetSet, FirstPick, AlwaysATarget, TypeOK
  <2> QED
    BY <2>3, <2>4
<1> QED
  BY <1>1, <1>2

(* The ticket and the exchange (manager.go:77-78, server.go:338-345).       *)
LEMMA TakePreserves ==
  ASSUME UpstreamInv, NEW c \in Call, Take(c) \/ Answer(c)
  PROVE  UpstreamInv'
<1> USE DEF UpstreamInv
<1>1. CASE Take(c)
  <2>1. PICK k \in Picks(cand[c], NextTicket(rr)) :
          /\ target' = [target EXCEPT ![c] = k]
          /\ tried' = [tried EXCEPT ![c] = @ \cup {NameOf(k)}]
    BY <1>1 DEF Take
  <2>2. /\ pc[c] = "take"
        /\ rr' = NextTicket(rr)
        /\ cand' = [cand EXCEPT ![c] = {}]
        /\ pc' = [pc EXCEPT ![c] = "await"]
        /\ UNCHANGED <<now, failures, openUntil, attempt, seen, answer, result,
                       probe, probeAnswer, healthy, faulted, cancelled>>
    BY <1>1 DEF Take, manager, prober, environment
  <2>3. k \in Index /\ NameOf(k) \in Name
    BY PicksCandidate, IndexRange DEF TypeOK
  <2>4. rr' \in 0..(CounterRange - 1)
    BY <2>2, TicketType, TargetsAssumption DEF TypeOK
  <2>5. TypeOK'
    BY <2>1, <2>2, <2>3, <2>4 DEF TypeOK
  <2> QED
    BY <2>1, <2>2, <2>3, <2>5
       DEF BreakerBounded, TargetSet, FirstPick, AlwaysATarget, TypeOK
<1>2. CASE Answer(c)
  <2>1. PICK a \in AnswersOf(target[c], c) : answer' = [answer EXCEPT ![c] = a]
    BY <1>2 DEF Answer
  <2>2. /\ pc[c] = "await"
        /\ pc' = [pc EXCEPT ![c] = "record"]
        /\ UNCHANGED <<now, failures, openUntil, rr, attempt, tried, seen, cand,
                       target, result, probe, probeAnswer, healthy, faulted,
                       cancelled>>
    BY <1>2 DEF Answer, manager, prober, environment
  <2>3. a \in {"below500", "5xx", "error"}
    BY <2>1 DEF AnswersOf
  <2>4. TypeOK'
    BY <2>1, <2>2, <2>3 DEF TypeOK, Outcome
  <2> QED
    BY <2>1, <2>2, <2>3, <2>4
       DEF BreakerBounded, TargetSet, FirstPick, AlwaysATarget, TypeOK
<1> QED
  BY <1>1, <1>2

(* The tail of an iteration (server.go:347-371).                            *)
LEMMA RecordPreserves ==
  ASSUME UpstreamInv, NEW c \in Call, RecordAnswer(c)
  PROVE  UpstreamInv'
<1> DEFINE n == NameOf(target[c])
<1>1. /\ pc[c] = "record"
      /\ target' = [target EXCEPT ![c] = 0]
      /\ UNCHANGED <<now, rr, tried, seen, cand, answer, probe, probeAnswer,
                     healthy, faulted, cancelled>>
  BY DEF RecordAnswer, prober, environment
<1>2. n \in Name
  BY <1>1, IndexRange DEF UpstreamInv, TargetSet
<1>3. StateType /\ BreakerBounded
  BY DEF UpstreamInv, TypeOK, StateType
<1>4. RecordSuccess(n) \/ RecordFailure(n)
  BY DEF RecordAnswer
<1>5. StateType' /\ BreakerBounded'
  <2> HIDE DEF n
  <2> QED
    BY <1>1, <1>2, <1>3, <1>4, SuccessEffect, FailureEffect
<1>6. /\ pc' = [pc EXCEPT ![c] = "done"] \/ pc' = [pc EXCEPT ![c] = "clock"]
      /\ result' = result \/ result' = [result EXCEPT ![c] = answer[c]]
      /\ attempt' = attempt \/ attempt' = [attempt EXCEPT ![c] = @ + 1]
  BY DEF RecordAnswer, Return
<1>7. /\ pc' \in [Call -> {"clock", "scan", "take", "await", "record", "done"}]
      /\ result' \in [Call -> Outcome \cup {"noTargets"}]
      /\ attempt' \in [Call -> Nat]
  BY <1>6 DEF UpstreamInv, TypeOK
<1>8. TypeOK'
  BY <1>1, <1>5, <1>7 DEF UpstreamInv, TypeOK, StateType
<1>9. TargetSet' /\ FirstPick'
  BY <1>1, <1>6 DEF UpstreamInv, TypeOK, TargetSet, FirstPick
<1>10. AlwaysATarget'
  BY <1>1, <1>6 DEF UpstreamInv, TypeOK, AlwaysATarget, Outcome
<1> QED
  BY <1>5, <1>8, <1>9, <1>10 DEF UpstreamInv

(* The health loop (manager.go:110-143).                                    *)
LEMMA ProbePreserves ==
  ASSUME UpstreamInv, HealthLoop
  PROVE  UpstreamInv'
<1>1. CASE ProbeTick \/ ProbeReply
  <2>1. /\ UNCHANGED <<now, failures, openUntil, rr, pc, attempt, tried, seen,
                       cand, target, answer, result, healthy, faulted, cancelled>>
        /\ \/ probe' = 1 /\ probeAnswer' = probeAnswer
           \/ probe' = probe /\ probe # 0 /\ probeAnswer' \in {"2xx", "failed"}
    BY <1>1 DEF ProbeTick, ProbeReply, manager, loop, environment
  <2>2. TypeOK' /\ TargetSet'
    BY <2>1, IndexRange DEF UpstreamInv, TypeOK, TargetSet
  <2> QED
    BY <2>1, <2>2 DEF UpstreamInv, BreakerBounded, FirstPick, AlwaysATarget
<1>2. CASE ProbeRecord
  <2> DEFINE n == NameOf(probe)
  <2>1. /\ UNCHANGED <<now, rr, pc, attempt, tried, seen, cand, target, answer,
                       result, healthy, faulted, cancelled>>
        /\ probeAnswer # "none" /\ probeAnswer' = "none"
        /\ probe' = IF probe = Len(Targets) THEN 0 ELSE probe + 1
        /\ RecordSuccess(n) \/ RecordFailure(n)
    BY <1>2 DEF ProbeRecord, loop, environment
  <2>2. probe \in Index /\ n \in Name
    BY <2>1, IndexRange DEF UpstreamInv, TargetSet
  <2>3. StateType /\ BreakerBounded
    BY DEF UpstreamInv, TypeOK, StateType
  <2>4. StateType' /\ BreakerBounded'
    <3> HIDE DEF n
    <3> QED
      BY <2>1, <2>2, <2>3, SuccessEffect, FailureEffect
  <2>5. probe' \in Index \cup {0}
    BY <2>1, <2>2, IndexRange
  <2>6. TypeOK'
    BY <2>1, <2>4, <2>5 DEF UpstreamInv, TypeOK, StateType
  <2> QED
    BY <2>1, <2>4, <2>6
       DEF UpstreamInv, TargetSet, FirstPick, AlwaysATarget
<1> QED
  BY <1>1, <1>2 DEF HealthLoop

LEMMA UpstreamInductive == UpstreamInv /\ [Next]_vars => UpstreamInv'
<1> SUFFICES ASSUME UpstreamInv, [Next]_vars PROVE UpstreamInv'
  OBVIOUS
<1>1. ASSUME NEW c \in Call, CallStep(c) PROVE UpstreamInv'
  BY <1>1, ScanPreserves, TakePreserves, RecordPreserves DEF CallStep
<1>2. CASE Tick
  <2>1. /\ now' = now + 1
        /\ UNCHANGED <<failures, openUntil, rr, pc, attempt, tried, seen, cand,
                       target, answer, result, probe, probeAnswer, healthy,
                       faulted, cancelled>>
    BY <1>2 DEF Tick, manager, loop, prober, environment
  <2> QED
    BY <2>1, ConfigAssumption
       DEF UpstreamInv, TypeOK, BreakerBounded, TargetSet, FirstPick,
           AlwaysATarget
<1>3. CASE \/ \E k \in Index : Break(k) \/ Repair(k)
           \/ \E c \in Call : Cancel(c)
           \/ UNCHANGED vars
  <2>1. /\ UNCHANGED <<now, failures, openUntil, rr, pc, attempt, tried, seen,
                       cand, target, answer, result, probe, probeAnswer>>
        /\ healthy' \in SUBSET Index /\ faulted' \in SUBSET Index
        /\ cancelled' \in SUBSET Call
    BY <1>3
       DEF Break, Repair, Cancel, vars, manager, loop, prober, environment,
           UpstreamInv, TypeOK
  <2> QED
    BY <2>1
       DEF UpstreamInv, TypeOK, BreakerBounded, TargetSet, FirstPick,
           AlwaysATarget
<1> QED
  BY <1>1, <1>2, <1>3, ProbePreserves DEF Next, Forward, ForwardRead

(* Every variable keeps its type (manager.go:16-28, server.go:330-463).     *)
THEOREM UpstreamTypeCorrect == Spec => []TypeOK
<1>1. UpstreamInv => TypeOK
  BY DEF UpstreamInv
<1> QED
  BY <1>1, UpstreamInitial, UpstreamInductive, PTL DEF Spec

(* No interleaving of late failures, probes and successes opens a circuit   *)
(* for longer than one cooldown (manager.go:81-99).                         *)
THEOREM BreakerIsBounded == Spec => []BreakerBounded
<1>1. UpstreamInv => BreakerBounded
  BY DEF UpstreamInv
<1> QED
  BY <1>1, UpstreamInitial, UpstreamInductive, PTL DEF Spec

(* Whatever circuits are open and whatever weights are configured, forward  *)
(* and forwardRead make at least one attempt (manager.go:49-79,             *)
(* server.go:374-376).                                                      *)
THEOREM AlwaysFindsATarget == Spec => []AlwaysATarget
<1>1. UpstreamInv => AlwaysATarget
  BY DEF UpstreamInv
<1> QED
  BY <1>1, UpstreamInitial, UpstreamInductive, PTL DEF Spec

-----------------------------------------------------------------------------
(* Counting attempts.  A call holds one name in tried for each attempt it   *)
(* has made, because a scan only finds names that are not in it; until it   *)
(* returns it has attempts left.                                            *)
Tally(c) ==
  /\ IsFiniteSet(tried[c])
  /\ pc[c] # "done" => result[c] = "none" /\ attempt[c] < Attempts
  /\ pc[c] \in {"clock", "scan", "take"} =>
       Cardinality(tried[c]) = attempt[c]
  /\ pc[c] = "take" => \A k \in cand[c] : NameOf(k) \notin tried[c]
  /\ pc[c] \in {"await", "record"} =>
       /\ Cardinality(tried[c]) = attempt[c] + 1
       /\ NameOf(target[c]) \in tried[c]

Tallies == \A c \in Call : Tally(c)

(* A step of one call leaves the variables of the others alone.             *)
LEMMA OthersKept ==
  ASSUME TypeOK, NEW c \in Call, CallStep(c)
  PROVE  /\ UNCHANGED <<now, probe, probeAnswer, healthy, faulted, cancelled>>
         /\ \A d \in Call \ {c} :
              UNCHANGED <<pc[d], attempt[d], tried[d], cand[d], target[d],
                          answer[d], result[d]>>
<1> USE DEF TypeOK, prober, environment
<1>1. CASE ReadClock(c)
  BY <1>1 DEF ReadClock
<1>2. CASE Scan(c)
  BY <1>2 DEF Scan, Return
<1>3. CASE Take(c)
  BY <1>3 DEF Take
<1>4. CASE Answer(c)
  BY <1>4 DEF Answer
<1>5. CASE RecordAnswer(c)
  BY <1>5 DEF RecordAnswer, Return
<1> QED
  BY <1>1, <1>2, <1>3, <1>4, <1>5 DEF CallStep

(* Everything but the calls leaves the calls alone.                         *)
LEMMA CallsKept ==
  ASSUME \/ HealthLoop \/ Tick \/ UNCHANGED vars
         \/ \E k \in Index : Break(k) \/ Repair(k)
         \/ \E c \in Call : Cancel(c)
  PROVE  UNCHANGED <<pc, attempt, tried, cand, target, answer, result>>
BY DEF HealthLoop, ProbeTick, ProbeReply, ProbeRecord, Tick, Break, Repair,
       Cancel, vars, loop

LEMMA AddNew ==
  ASSUME NEW S, IsFiniteSet(S), NEW x, x \notin S
  PROVE  /\ IsFiniteSet(S \cup {x})
         /\ Cardinality(S \cup {x}) = Cardinality(S) + 1
BY FS_AddElement

LEMMA AttemptsType == Attempts \in Nat \ {0}
BY ConfigAssumption DEF Attempts

LEMMA TallyKept ==
  ASSUME UpstreamInv, NEW c \in Call, Tally(c), CallStep(c)
  PROVE  Tally(c)'
<1> USE DEF UpstreamInv, TypeOK, Tally
<1>1. CASE ReadClock(c)
  <2>1. pc'[c] = "scan"
    BY <1>1 DEF ReadClock
  <2>2. UNCHANGED <<attempt, tried, cand, target, result>>
    BY <1>1 DEF ReadClock
  <2> QED
    BY <1>1, <2>1, <2>2 DEF ReadClock
<1>2. CASE Scan(c)
  <2> DEFINE K == Candidates(tried[c], seen[c])
  <2>1. UNCHANGED <<attempt, tried, target>> /\ pc[c] = "scan"
    BY <1>2 DEF Scan
  <2>2. \A k \in K : NameOf(k) \notin tried[c]
    BY CandidatesType DEF Untried
  <2>3. \/ pc'[c] = "done"
        \/ pc'[c] = "take" /\ cand'[c] = K /\ result'[c] = result[c]
    <3> HIDE DEF K
    <3>1. \/ pc' = [pc EXCEPT ![c] = "done"]
          \/ /\ pc' = [pc EXCEPT ![c] = "take"] /\ result' = result
             /\ cand' = [cand EXCEPT ![c] = K]
      BY <1>2 DEF Scan, Return, K
    <3> QED
      BY <3>1
  <2> QED
    BY <2>1, <2>2, <2>3
<1>3. CASE Take(c)
  <2>1. PICK k \in Picks(cand[c], NextTicket(rr)) :
          /\ target' = [target EXCEPT ![c] = k]
          /\ tried' = [tried EXCEPT ![c] = @ \cup {NameOf(k)}]
    BY <1>3 DEF Take
  <2>2. /\ pc[c] = "take" /\ pc'[c] = "await"
        /\ UNCHANGED <<attempt, result>>
    BY <1>3 DEF Take
  <2>3. k \in cand[c] /\ target'[c] = k
    BY <2>1, PicksCandidate
  <2>4. NameOf(k) \notin tried[c]
    BY <2>2, <2>3
  <2>5. tried'[c] = tried[c] \cup {NameOf(k)}
    BY <2>1
  <2>6. /\ IsFiniteSet(tried'[c])
        /\ Cardinality(tried'[c]) = Cardinality(tried[c]) + 1
    BY <2>4, <2>5, AddNew
  <2> QED
    BY <2>2, <2>3, <2>5, <2>6
<1>4. CASE Answer(c)
  <2>1. /\ pc[c] = "await" /\ pc'[c] = "record"
        /\ UNCHANGED <<attempt, tried, cand, target, result>>
    BY <1>4 DEF Answer
  <2> QED
    BY <2>1
<1>5. CASE RecordAnswer(c)
  <2>1. UNCHANGED tried /\ pc[c] = "record"
    BY <1>5 DEF RecordAnswer
  <2>2. \/ pc'[c] = "done"
        \/ /\ pc'[c] = "clock" /\ result' = result
           /\ attempt'[c] = attempt[c] + 1 /\ attempt[c] + 1 < Attempts
    BY <1>5 DEF RecordAnswer, Return
  <2> QED
    BY <2>1, <2>2
<1> QED
  BY <1>1, <1>2, <1>3, <1>4, <1>5 DEF CallStep

(* What a call returns, and after how many attempts.                        *)
LEMMA ReturnExhausted ==
  ASSUME UpstreamInv, NEW c \in Call, Tally(c), CallStep(c)
  PROVE  \/ UNCHANGED <<result[c]>> /\ pc'[c] # "done" /\ pc[c] # "done"
         \/ /\ pc'[c] = "done" /\ result'[c] = "below500"
         \/ /\ pc'[c] = "done"
            /\ Cardinality(tried'[c]) = attempt'[c]
            /\ attempt'[c] = Attempts \/ \A k \in Index : NameOf(k) \in tried'[c]
<1> USE DEF UpstreamInv, TypeOK
<1>1. CASE ReadClock(c) \/ Take(c) \/ Answer(c)
  BY <1>1 DEF ReadClock, Take, Answer
<1>2. CASE Scan(c)
  <2> DEFINE K == Candidates(tried[c], seen[c])
  <2>1. UNCHANGED <<attempt, tried>> /\ pc[c] = "scan"
    BY <1>2 DEF Scan
  <2>2. CASE Slots(K) # {}
    <3>1. pc' = [pc EXCEPT ![c] = "take"] /\ result' = result
      BY <1>2, <2>2 DEF Scan
    <3> QED
      BY <2>1, <3>1
  <2>3. CASE Slots(K) = {}
    <3>1. pc'[c] = "done"
      BY <1>2, <2>3 DEF Scan, Return
    <3>2. Untried(tried[c]) = {}
      <4>1. Slots(Untried(tried[c])) = {}
        BY <2>3 DEF Candidates
      <4> QED
        BY <4>1, SlotPerTarget, CandidatesType
    <3>3. \A k \in Index : NameOf(k) \in tried'[c]
      BY <2>1, <3>2 DEF Untried
    <3> QED
      BY <2>1, <3>1, <3>3 DEF Tally
  <2> QED
    BY <2>2, <2>3
<1>3. CASE RecordAnswer(c)
  <2>1. UNCHANGED tried /\ pc[c] = "record"
    BY <1>3 DEF RecordAnswer
  <2>2. \/ pc'[c] = "done" /\ result'[c] = "below500"
        \/ pc'[c] = "clock" /\ result' = result
        \/ /\ pc'[c] = "done" /\ attempt'[c] = attempt[c] + 1
           /\ ~(attempt[c] + 1 < Attempts)
    BY <1>3 DEF RecordAnswer, Return
  <2>3. attempt[c] < Attempts /\ Cardinality(tried[c]) = attempt[c] + 1
    BY <2>1 DEF Tally
  <2> QED
    BY <2>1, <2>2, <2>3, AttemptsType
<1> QED
  BY <1>1, <1>2, <1>3 DEF CallStep

LEMMA ExhaustedInductive ==
  ASSUME UpstreamInv, Tallies, FailsOnlyWhenExhausted, [Next]_vars
  PROVE  Tallies' /\ FailsOnlyWhenExhausted'
<1>1. ASSUME NEW c \in Call, CallStep(c)
      PROVE  Tallies' /\ FailsOnlyWhenExhausted'
  <2>0. TypeOK
    BY DEF UpstreamInv
  <2>1. ASSUME NEW d \in Call \ {c} PROVE Tally(d)'
    <3>1. UNCHANGED <<pc[d], attempt[d], tried[d], cand[d], target[d],
                      result[d]>>
      BY <1>1, <2>0, <2>1, OthersKept
    <3> QED
      BY <2>1, <3>1 DEF Tallies, Tally
  <2>2. Tally(c)'
    BY <1>1, TallyKept DEF Tallies
  <2>3. Tallies'
    BY <2>1, <2>2 DEF Tallies
  <2>4. Tally(c)
    BY DEF Tallies
  <2>5. pc'[c] # "done" => result'[c] = "none"
    BY <2>2 DEF Tally
  <2> QED
    BY <1>1, <2>0, <2>3, <2>4, <2>5, OthersKept, ReturnExhausted
       DEF FailsOnlyWhenExhausted
<1>2. CASE \/ HealthLoop \/ Tick \/ UNCHANGED vars
           \/ \E k \in Index : Break(k) \/ Repair(k)
           \/ \E c \in Call : Cancel(c)
  BY <1>2, CallsKept DEF Tallies, Tally, FailsOnlyWhenExhausted
<1> QED
  BY <1>1, <1>2 DEF Next, Forward, ForwardRead

LEMMA ExhaustedInitial == Init => Tallies /\ FailsOnlyWhenExhausted
BY FS_EmptySet, AttemptsType DEF Init, Tallies, Tally, FailsOnlyWhenExhausted

(* For any targets, retries and interleaving, a call that fails has used    *)
(* up its attempts or has tried every configured name, and it has charged   *)
(* as many names as it made attempts, none twice (server.go:338-343).       *)
THEOREM FailsExhausted == Spec => []FailsOnlyWhenExhausted
BY UpstreamInitial, UpstreamInductive, ExhaustedInitial, ExhaustedInductive,
   PTL DEF Spec

-----------------------------------------------------------------------------
(* Who has charged a name.  A cancelled call that is done with its attempt  *)
(* at n may have added one to n's failure count, and it will not attempt n  *)
(* again.  As long as the targets of n are never unhealthy nobody else has. *)
InFlight(c, n) == pc[c] \in {"await", "record"} /\ NameOf(target[c]) = n
Charged(n) == {c \in cancelled : n \in tried[c] /\ ~InFlight(c, n)}

Blame ==
  /\ Index \ healthy \subseteq faulted
  /\ probeAnswer = "failed" => probe \in faulted
  /\ \A c \in Call :
       pc[c] = "record" /\ answer[c] # "below500" /\ target[c] \notin faulted
         => c \in cancelled
  /\ \A n \in Name :
       NeverFaulted(n) => failures[n] <= Cardinality(Charged(n))

BlameInv == UpstreamInv /\ Tallies /\ Blame /\ HealthyOpensOnlyByCancel

LEMMA BlameInitial == Init => Blame /\ HealthyOpensOnlyByCancel
<1> SUFFICES ASSUME Init PROVE Blame /\ HealthyOpensOnlyByCancel
  OBVIOUS
<1>1. \A n \in Name : Charged(n) = {} /\ failures[n] = 0 /\ openUntil[n] = 0
  BY DEF Init, Charged
<1>2. \A n \in Name : failures[n] <= Cardinality(Charged(n))
  BY <1>1, FS_EmptySet
<1> QED
  BY <1>1, <1>2 DEF Init, Blame, HealthyOpensOnlyByCancel

LEMMA ChargedFinite ==
  ASSUME TypeOK, NEW n \in Name
  PROVE  /\ IsFiniteSet(Charged(n)) /\ Cardinality(Charged(n)) \in Nat
         /\ IsFiniteSet(cancelled) /\ Cardinality(cancelled) \in Nat
         /\ Cardinality(Charged(n)) <= Cardinality(cancelled)
<1>1. IsFiniteSet(cancelled)
  BY FS_Subset, ConfigAssumption DEF TypeOK
<1>2. Charged(n) \in SUBSET cancelled
  BY DEF Charged
<1> QED
  BY <1>1, <1>2, FS_Subset, FS_CardinalityType

(* No step of a call takes a charge back.                                   *)
LEMMA ChargesStay ==
  ASSUME UpstreamInv, Tallies, NEW c \in Call, CallStep(c), NEW n \in Name
  PROVE  Charged(n) \subseteq Charged(n)'
<1>0. TypeOK
  BY DEF UpstreamInv
<1> SUFFICES ASSUME NEW d \in Charged(n) PROVE d \in Charged(n)'
  OBVIOUS
<1>1. d \in cancelled' /\ d \in Call /\ n \in tried[d] /\ ~InFlight(d, n)
  BY <1>0, OthersKept DEF Charged, TypeOK
<1>2. CASE d # c
  BY <1>0, <1>1, <1>2, OthersKept DEF Charged, InFlight
<1>3. CASE d = c
  <2> SUFFICES n \in tried'[c] /\ ~InFlight(c, n)'
    BY <1>1, <1>3 DEF Charged
  <2>1. CASE ReadClock(c) \/ Scan(c) \/ RecordAnswer(c)
    <3>1. pc'[c] \in {"scan", "take", "clock", "done"}
      BY <1>0, <2>1 DEF ReadClock, Scan, RecordAnswer, Return, TypeOK
    <3>2. tried' = tried
      BY <2>1 DEF ReadClock, Scan, RecordAnswer
    <3> QED
      BY <1>1, <1>3, <3>1, <3>2 DEF InFlight
  <2>2. CASE Take(c)
    <3>1. PICK k \in Picks(cand[c], NextTicket(rr)) :
            /\ target' = [target EXCEPT ![c] = k]
            /\ tried' = [tried EXCEPT ![c] = @ \cup {NameOf(k)}]
      BY <2>2 DEF Take
    <3>2. NameOf(k) \notin tried[c]
      BY <2>2, <3>1, PicksCandidate DEF Take, Tallies, Tally
    <3>3. target'[c] = k /\ tried'[c] = tried[c] \cup {NameOf(k)}
      BY <1>0, <3>1 DEF TypeOK
    <3> QED
      BY <1>1, <1>3, <3>2, <3>3 DEF InFlight
  <2>3. CASE Answer(c)
    BY <1>0, <1>1, <1>3, <2>3 DEF Answer, InFlight, TypeOK
  <2> QED
    BY <2>1, <2>2, <2>3 DEF CallStep
<1> QED
  BY <1>2, <1>3

(* A failure that no unhealthy target explains is the first charge of a     *)
(* cancelled call.                                                          *)
LEMMA FailureCharges ==
  ASSUME UpstreamInv, Tallies, Blame, NEW c \in Call, RecordAnswer(c),
         answer[c] # "below500", NEW n \in Name, n = NameOf(target[c]),
         NeverFaulted(n)
  PROVE  /\ Cardinality(Charged(n)') >= Cardinality(Charged(n)) + 1
         /\ Cardinality(cancelled') >= failures[n] + 1
<1>0. TypeOK /\ CallStep(c) /\ TypeOK'
  BY RecordPreserves DEF UpstreamInv, CallStep
<1>1. pc[c] = "record" /\ n \in tried[c] /\ tried' = tried
  BY DEF RecordAnswer, Tallies, Tally
<1>2. target[c] \notin faulted
  BY <1>0 DEF NeverFaulted
<1>3. c \in cancelled /\ cancelled' = cancelled
  BY <1>0, <1>1, <1>2, OthersKept DEF Blame
<1>4. c \notin Charged(n)
  BY <1>1 DEF Charged, InFlight
<1>5. pc'[c] \in {"clock", "done"}
  BY <1>0 DEF RecordAnswer, Return, TypeOK
<1>6. Charged(n) \cup {c} \in SUBSET Charged(n)'
  <2>1. c \in Charged(n)'
    BY <1>1, <1>3, <1>5 DEF Charged, InFlight
  <2> QED
    BY <1>0, <2>1, ChargesStay
<1>7. /\ IsFiniteSet(Charged(n)) /\ Cardinality(Charged(n)) \in Nat
      /\ IsFiniteSet(cancelled)
  BY <1>0, ChargedFinite
<1>8. Charged(n)' \in SUBSET cancelled
  BY <1>3 DEF Charged
<1>9. /\ IsFiniteSet(Charged(n)') /\ Cardinality(Charged(n)') \in Nat
      /\ Cardinality(Charged(n)') <= Cardinality(cancelled)
      /\ Cardinality(cancelled) \in Nat
  BY <1>7, <1>8, FS_Subset, FS_CardinalityType
<1>10. /\ Cardinality(Charged(n) \cup {c}) = Cardinality(Charged(n)) + 1
       /\ Cardinality(Charged(n) \cup {c}) <= Cardinality(Charged(n)')
  BY <1>4, <1>6, <1>7, <1>9, FS_Subset, AddNew
<1>11. failures[n] <= Cardinality(Charged(n)) /\ failures[n] \in Int
  BY <1>0 DEF Blame, TypeOK
<1> QED
  BY <1>3, <1>7, <1>9, <1>10, <1>11

(* What the two writers do to the account of a name.                        *)
LEMMA SuccessAccount ==
  ASSUME TypeOK, NEW m \in Name, RecordSuccess(m), NEW n \in Name
  PROVE  \/ failures'[n] = 0 /\ openUntil'[n] = 0
         \/ UNCHANGED <<failures[n], openUntil[n]>>
BY DEF RecordSuccess, TypeOK

LEMMA FailureAccount ==
  ASSUME TypeOK, NEW m \in Name, RecordFailure(m), NEW n \in Name
  PROVE  \/ UNCHANGED <<failures[n], openUntil[n]>>
         \/ /\ n = m
            /\ \/ failures'[n] = 0 /\ failures[n] + 1 >= BreakerFailures
               \/ failures'[n] = failures[n] + 1 /\ UNCHANGED <<openUntil[n]>>
BY DEF RecordFailure, TypeOK

LEMMA CallBlame ==
  ASSUME BlameInv, NEW c \in Call, CallStep(c)
  PROVE  Blame' /\ HealthyOpensOnlyByCancel'
<1>0. TypeOK /\ UpstreamInv /\ Tallies /\ Blame /\ HealthyOpensOnlyByCancel
  BY DEF BlameInv, UpstreamInv
<1>1. UNCHANGED <<probe, probeAnswer, healthy, faulted, cancelled>>
  BY <1>0, OthersKept
<1>2. ASSUME NEW d \in Call, pc'[d] = "record", answer'[d] # "below500",
             target'[d] \notin faulted
      PROVE  d \in cancelled
  <2>1. CASE d # c
    BY <1>0, <1>2, <2>1, OthersKept DEF Blame
  <2>2. CASE d = c
    <3>1. Answer(c)
      BY <1>0, <1>2, <2>2
         DEF CallStep, ReadClock, Scan, Take, RecordAnswer, Return, TypeOK
    <3>2. pc[c] = "await" /\ target' = target
      BY <3>1 DEF Answer
    <3>3. target[c] \in healthy
      BY <1>0, <1>2, <2>2, <3>2 DEF Blame, UpstreamInv, TargetSet
    <3>4. answer'[c] \in AnswersOf(target[c], c)
      BY <1>0, <3>1 DEF Answer, TypeOK
    <3> QED
      BY <1>2, <2>2, <3>3, <3>4 DEF AnswersOf
  <2> QED
    BY <2>1, <2>2
<1>3. ASSUME NEW n \in Name, NeverFaulted(n)
      PROVE  /\ failures'[n] <= Cardinality(Charged(n)')
             /\ openUntil'[n] # 0 => Cardinality(cancelled') >= BreakerFailures
  <2>1. /\ Cardinality(Charged(n)) \in Nat /\ Cardinality(cancelled) \in Nat
        /\ IsFiniteSet(cancelled) /\ failures[n] \in Int
    BY <1>0, ChargedFinite DEF TypeOK
  <2>2. Charged(n)' \in SUBSET cancelled
    BY <1>1 DEF Charged
  <2>3. /\ IsFiniteSet(Charged(n)') /\ Cardinality(Charged(n)') \in Nat
        /\ Cardinality(Charged(n)) <= Cardinality(Charged(n)')
    <3>1. IsFiniteSet(Charged(n)')
      BY <2>1, <2>2, FS_Subset
    <3>2. Charged(n) \in SUBSET (Charged(n)')
      BY <1>0, ChargesStay
    <3> QED
      BY <3>1, <3>2, FS_Subset, FS_CardinalityType
  <2>4. /\ failures[n] <= Cardinality(Charged(n))
        /\ openUntil[n] # 0 => Cardinality(cancelled) >= BreakerFailures
    BY <1>0, <1>3 DEF Blame, HealthyOpensOnlyByCancel
  <2>5. CASE UNCHANGED <<failures[n], openUntil[n]>>
    BY <1>1, <2>1, <2>3, <2>4, <2>5
  <2>6. CASE failures'[n] = 0 /\ openUntil'[n] = 0
    BY <2>3, <2>6
  <2>7. CASE ~UNCHANGED <<failures[n], openUntil[n]>>
             /\ ~(failures'[n] = 0 /\ openUntil'[n] = 0)
    <3>1. RecordAnswer(c)
      BY <2>7 DEF CallStep, ReadClock, Scan, Take, Answer, manager
    <3>2. NameOf(target[c]) \in Name
      BY <1>0, <3>1, IndexRange DEF RecordAnswer, UpstreamInv, TargetSet
    <3>3. answer[c] # "below500" /\ RecordFailure(NameOf(target[c]))
      BY <1>0, <2>7, <3>1, <3>2, SuccessAccount DEF RecordAnswer
    <3>4. /\ n = NameOf(target[c])
          /\ \/ failures'[n] = 0 /\ failures[n] + 1 >= BreakerFailures
             \/ failures'[n] = failures[n] + 1 /\ UNCHANGED <<openUntil[n]>>
      BY <1>0, <2>7, <3>2, <3>3, FailureAccount
    <3>5. /\ Cardinality(Charged(n)') >= Cardinality(Charged(n)) + 1
          /\ Cardinality(cancelled') >= failures[n] + 1
      BY <1>0, <1>3, <3>1, <3>3, <3>4, FailureCharges
    <3> QED
      BY <1>1, <2>1, <2>3, <2>4, <3>4, <3>5, ConfigAssumption
  <2> QED
    BY <2>5, <2>6, <2>7
<1>4. \A n \in Name : NeverFaulted(n)' <=> NeverFaulted(n)
  BY <1>1 DEF NeverFaulted
<1> QED
  BY <1>0, <1>1, <1>2, <1>3, <1>4 DEF Blame, HealthyOpensOnlyByCancel

(* A failed probe is of a target that has been unhealthy.                   *)
LEMMA ProbeBlame ==
  ASSUME BlameInv, HealthLoop
  PROVE  Blame' /\ HealthyOpensOnlyByCancel'
<1>0. TypeOK /\ UpstreamInv /\ Blame /\ HealthyOpensOnlyByCancel
  BY DEF BlameInv, UpstreamInv
<1>1. UNCHANGED <<healthy, faulted, cancelled, pc, tried, target, answer>>
  BY DEF HealthLoop, ProbeTick, ProbeReply, ProbeRecord, loop, environment
<1>2. probeAnswer' = "failed" => probe' \in faulted
  <2>1. CASE ProbeTick
    BY <1>0, <2>1, IndexRange DEF ProbeTick, UpstreamInv, TargetSet
  <2>2. CASE ProbeReply
    BY <1>0, <2>2 DEF ProbeReply, Blame, TypeOK
  <2>3. CASE ProbeRecord
    BY <2>3 DEF ProbeRecord
  <2> QED
    BY <2>1, <2>2, <2>3 DEF HealthLoop
<1>3. \A n \in Name : /\ Charged(n)' = Charged(n)
                      /\ NeverFaulted(n)' <=> NeverFaulted(n)
  BY <1>1 DEF Charged, InFlight, NeverFaulted
<1>4. ASSUME NEW n \in Name, NeverFaulted(n)
      PROVE  \/ UNCHANGED <<failures[n], openUntil[n]>>
             \/ failures'[n] = 0 /\ openUntil'[n] = 0
  <2>1. CASE ProbeTick \/ ProbeReply
    BY <2>1 DEF ProbeTick, ProbeReply, manager
  <2>2. CASE ProbeRecord
    <3>1. probe \in Index /\ NameOf(probe) \in Name
      BY <1>0, <2>2, IndexRange DEF ProbeRecord, UpstreamInv, TargetSet
    <3>2. CASE RecordSuccess(NameOf(probe))
      BY <1>0, <3>1, <3>2, SuccessAccount
    <3>3. CASE ~RecordSuccess(NameOf(probe))
      <4>1. RecordFailure(NameOf(probe)) /\ probe \in faulted
        BY <1>0, <2>2, <3>3 DEF ProbeRecord, Blame, TypeOK
      <4>2. n # NameOf(probe)
        BY <1>4, <4>1 DEF NeverFaulted
      <4> QED
        BY <1>0, <3>1, <4>1, <4>2, FailureAccount
    <3> QED
      BY <3>2, <3>3
  <2> QED
    BY <2>1, <2>2 DEF HealthLoop
<1>5. \A n \in Name : Cardinality(Charged(n)) \in Nat
  BY <1>0, ChargedFinite
<1>6. Blame'
  BY <1>0, <1>1, <1>2, <1>3, <1>4, <1>5 DEF Blame
<1>7. HealthyOpensOnlyByCancel'
  BY <1>0, <1>1, <1>3, <1>4 DEF HealthyOpensOnlyByCancel
<1> QED
  BY <1>6, <1>7

(* Time, targets and clients.                                               *)
LEMMA EnvironmentBlame ==
  ASSUME BlameInv,
         \/ Tick \/ UNCHANGED vars
         \/ \E k \in Index : Break(k) \/ Repair(k)
         \/ \E c \in Call : Cancel(c)
  PROVE  Blame' /\ HealthyOpensOnlyByCancel'
<1>0. TypeOK /\ Blame /\ HealthyOpensOnlyByCancel
  BY DEF BlameInv, UpstreamInv
<1>1. UNCHANGED <<failures, openUntil, pc, tried, target, answer, probe,
                  probeAnswer>>
  BY DEF Tick, vars, Break, Repair, Cancel, loop, manager, prober
<1>2. /\ Index \ healthy' \subseteq faulted'
      /\ faulted \subseteq faulted' /\ cancelled \subseteq cancelled'
      /\ cancelled' \in SUBSET Call
  BY <1>0 DEF Tick, vars, Break, Repair, Cancel, environment, Blame, TypeOK
<1>3. IsFiniteSet(cancelled') /\ IsFiniteSet(cancelled)
  BY <1>0, <1>2, ConfigAssumption, FS_Subset DEF TypeOK
<1>4. /\ Cardinality(cancelled) \in Nat /\ Cardinality(cancelled') \in Nat
      /\ Cardinality(cancelled) <= Cardinality(cancelled')
  BY <1>2, <1>3, FS_Subset, FS_CardinalityType
<1>5. ASSUME NEW n \in Name
      PROVE  /\ Cardinality(Charged(n)) <= Cardinality(Charged(n)')
             /\ Cardinality(Charged(n)) \in Nat
             /\ Cardinality(Charged(n)') \in Nat
             /\ NeverFaulted(n)' => NeverFaulted(n)
  <2>1. /\ Charged(n) \in SUBSET (Charged(n)')
        /\ Charged(n)' \in SUBSET cancelled'
    BY <1>1, <1>2 DEF Charged, InFlight
  <2>2. IsFiniteSet(Charged(n)')
    BY <1>3, <2>1, FS_Subset
  <2>3. NeverFaulted(n)' => NeverFaulted(n)
    BY <1>2 DEF NeverFaulted
  <2> QED
    BY <2>1, <2>2, <2>3, FS_Subset, FS_CardinalityType
<1>6. \A n \in Name : failures[n] \in Int
  BY <1>0 DEF TypeOK
<1>7. Blame'
  BY <1>0, <1>1, <1>2, <1>5, <1>6 DEF Blame
<1>8. HealthyOpensOnlyByCancel'
  BY <1>0, <1>1, <1>4, <1>5, ConfigAssumption DEF HealthyOpensOnlyByCancel
<1> QED
  BY <1>7, <1>8

(* For any number of clients and any interleaving, a circuit over targets   *)
(* that never failed opens only after BreakerFailures clients have gone     *)
(* away: one call charges a name at most once (server.go:343,353,           *)
(* manager.go:88-99).                                                       *)
THEOREM OpensOnlyByCancel == Spec => []HealthyOpensOnlyByCancel
<1> DEFINE Inv == BlameInv /\ FailsOnlyWhenExhausted
<1>1. Init => Inv
  BY UpstreamInitial, ExhaustedInitial, BlameInitial DEF BlameInv
<1>2. ASSUME Inv, [Next]_vars PROVE Inv'
  <2>1. UpstreamInv' /\ Tallies' /\ FailsOnlyWhenExhausted'
    BY <1>2, UpstreamInductive, ExhaustedInductive DEF BlameInv
  <2>2. Blame' /\ HealthyOpensOnlyByCancel'
    BY <1>2, CallBlame, ProbeBlame, EnvironmentBlame
       DEF Next, Forward, ForwardRead
  <2> QED
    BY <2>1, <2>2 DEF BlameInv
<1>3. Inv => HealthyOpensOnlyByCancel
  BY DEF BlameInv
<1> QED
  BY <1>1, <1>2, <1>3, PTL DEF Spec
=============================================================================
