----------------------------- MODULE QueryBench -----------------------------
(***************************************************************************)
(* The query benchmark, cmd/querybench/main.go: a warm-up inside the       *)
(* deadline, workers that send queries until it passes, one goroutine that *)
(* aggregates the results they put in a bounded channel, and main, which   *)
(* waits for both, reports and chooses the exit status.                    *)
(*                                                                         *)
(* An answer of the gateway is its status (0 for a transport error), the   *)
(* headers that are counted ("" when absent) and the time it took.         *)
(* Percentiles are taken in integers: for the ranks the report uses, the   *)
(* rounding of the code's floating-point product never crosses an integer. *)
(***************************************************************************)
EXTENDS Integers, SequencesExt, Sums

CONSTANTS
  Worker,       \* concurrency
  Warmup,       \* warmup requests
  ResultsCap,   \* capacity of the results channel, 4096 in the code
  Answer,       \* what the gateway may answer
  MaxRequests   \* bound on the timed requests of a behaviour

Header == {a[h] : a \in Answer, h \in {"cache", "live", "target"}}
Label == (Header \ {""}) \cup {"UNKNOWN"}
Status == {a.status : a \in Answer}

ASSUME BenchAssumption ==
  /\ IsFiniteSet(Worker) /\ Worker # {}
  /\ Warmup \in Nat
  /\ ResultsCap \in Nat \ {0}
  /\ MaxRequests \in Nat
  /\ IsFiniteSet(Answer)
  /\ \A a \in Answer : a.status \in Nat /\ a.millis \in Nat

VARIABLES
  main,      \* "warmup", "wait", "drain", "report" or "exited"
  warmed,    \* warm-up requests answered so far
  expired,   \* the deadline of ctx has passed
  pc,        \* where a worker is
  res,       \* the result a worker is about to send
  results,   \* the channel
  closed,    \* close(results) was called
  agg,       \* what the aggregating goroutine has collected
  doneAgg,   \* it has ended
  exit,      \* the exit status, -1 while running
  answered,  \* history: how often the gateway gave each answer
  overtime   \* history: timed requests answered after the deadline

vars == <<main, warmed, expired, pc, res, results, closed, agg, doneAgg, exit,
          answered, overtime>>

Succeeded(a) == a.status >= 200 /\ a.status < 300
BugLabelled(header) == header
Labelled(header) == IF header = "" THEN "UNKNOWN" ELSE header
ServedBy(a) == Labelled(IF a.live = "" THEN a.target ELSE a.live)

DoReq(a) ==
  [err |-> ~Succeeded(a), status |-> a.status, millis |-> a.millis,
   cache |-> Labelled(a.cache), target |-> ServedBy(a)]

Goto(w, next) == pc' = [pc EXCEPT ![w] = next]
NoResult == [err |-> TRUE, status |-> 0, millis |-> 0,
             cache |-> "UNKNOWN", target |-> "UNKNOWN"]

Init ==
  /\ main = "warmup" /\ warmed = 0 /\ expired = FALSE
  /\ pc = [w \in Worker |-> "check"]
  /\ res = [w \in Worker |-> NoResult]
  /\ results = <<>> /\ closed = FALSE
  /\ agg = [latencies |-> <<>>, errors |-> 0,
            statusCounts |-> [s \in Status |-> 0],
            cacheCounts |-> [l \in Label |-> 0],
            targetCounts |-> [l \in Label |-> 0]]
  /\ doneAgg = FALSE /\ exit = -1
  /\ answered = [a \in Answer |-> 0] /\ overtime = 0

-----------------------------------------------------------------------------
(* The warm-up does not look at the deadline, and its results are dropped.  *)
WarmUp ==
  /\ main = "warmup"
  /\ \/ warmed < Warmup /\ warmed' = warmed + 1 /\ UNCHANGED main
     \/ warmed = Warmup /\ main' = "wait" /\ UNCHANGED warmed
  /\ UNCHANGED <<expired, pc, res, results, closed, agg, doneAgg, exit,
                 answered, overtime>>

Answers == SumOf(answered)
InFlight == Cardinality({w \in Worker : pc[w] = "request"})

(* The worker's select: it leaves once ctx is done.                         *)
BugCheck(w) ==
  /\ pc[w] = "check" /\ main # "warmup"
  /\ \/ expired /\ Goto(w, "left")
     \/ Answers + InFlight < MaxRequests /\ Goto(w, "request")
  /\ UNCHANGED <<main, warmed, expired, res, results, closed, agg, doneAgg,
                 exit, answered, overtime>>

Check(w) ==
  /\ pc[w] = "check" /\ main # "warmup"
  /\ \/ expired /\ Goto(w, "left")
     \/ ~expired /\ Answers + InFlight < MaxRequests /\ Goto(w, "request")
  /\ UNCHANGED <<main, warmed, expired, res, results, closed, agg, doneAgg,
                 exit, answered, overtime>>

(* The deadline does not cut a request short.                               *)
Request(w) ==
  /\ pc[w] = "request"
  /\ \E a \in Answer :
       /\ res' = [res EXCEPT ![w] = DoReq(a)]
       /\ answered' = [answered EXCEPT ![a] = @ + 1]
  /\ overtime' = IF expired THEN overtime + 1 ELSE overtime
  /\ Goto(w, "send")
  /\ UNCHANGED <<main, warmed, expired, results, closed, agg, doneAgg, exit>>

(* results <- res blocks while the channel is full.                         *)
Send(w) ==
  /\ pc[w] = "send" /\ Len(results) < ResultsCap
  /\ results' = Append(results, res[w])
  /\ Goto(w, "check")
  /\ UNCHANGED <<main, warmed, expired, res, closed, agg, doneAgg, exit,
                 answered, overtime>>

WorkerStep(w) == Check(w) \/ Request(w) \/ Send(w)

(* The body of the range over results.                                      *)
Collect(r) ==
  IF r.err
  THEN [latencies |-> agg.latencies, errors |-> agg.errors + 1,
        statusCounts |-> agg.statusCounts, cacheCounts |-> agg.cacheCounts,
        targetCounts |-> agg.targetCounts]
  ELSE [latencies |-> Append(agg.latencies, r.millis), errors |-> agg.errors,
        statusCounts |-> [agg.statusCounts EXCEPT ![r.status] = @ + 1],
        cacheCounts |-> [agg.cacheCounts EXCEPT ![r.cache] = @ + 1],
        targetCounts |-> [agg.targetCounts EXCEPT ![r.target] = @ + 1]]

Aggregate ==
  /\ ~doneAgg
  /\ \/ /\ results # <<>>
        /\ agg' = Collect(Head(results))
        /\ results' = Tail(results)
        /\ UNCHANGED doneAgg
     \/ /\ results = <<>> /\ closed
        /\ doneAgg' = TRUE
        /\ UNCHANGED <<agg, results>>
  /\ UNCHANGED <<main, warmed, expired, pc, res, closed, exit, answered,
                 overtime>>

(* wg.Wait and close(results).                                              *)
BugWait ==
  /\ main = "wait"
  /\ \A w \in Worker : pc[w] = "left"
  /\ main' = "drain"
  /\ UNCHANGED <<warmed, expired, pc, res, results, closed, agg, doneAgg, exit,
                 answered, overtime>>
Wait ==
  /\ main = "wait"
  /\ \A w \in Worker : pc[w] = "left"
  /\ closed' = TRUE /\ main' = "drain"
  /\ UNCHANGED <<warmed, expired, pc, res, results, agg, doneAgg, exit,
                 answered, overtime>>

(* <-doneAgg.                                                               *)
BugDrain ==
  /\ main = "drain"
  /\ main' = "report"
  /\ UNCHANGED <<warmed, expired, pc, res, results, closed, agg, doneAgg, exit,
                 answered, overtime>>
Drain ==
  /\ main = "drain" /\ doneAgg
  /\ main' = "report"
  /\ UNCHANGED <<warmed, expired, pc, res, results, closed, agg, doneAgg, exit,
                 answered, overtime>>

-----------------------------------------------------------------------------
(* sort.Float64s: the latencies in an ascending order of their positions.   *)
Ascending(s, q) == \A i, j \in DOMAIN s : i <= j => s[q[i]] <= s[q[j]]

Sorted ==
  LET s == agg.latencies
      q == CHOOSE q \in Bijection(DOMAIN s, DOMAIN s) : Ascending(s, q)
  IN  [i \in DOMAIN s |-> s[q[i]]]

(* p is one of the ranks main asks for, so 0 < p < 100 and the clamps of    *)
(* the code never apply; idx is the rounded up rank, counted from one.      *)
BugPercentile(sorted, p) == sorted[(p * Len(sorted)) \div 100 + 1]
Percentile(sorted, p) == sorted[(p * Len(sorted) + 99) \div 100]

Total == Len(agg.latencies) + agg.errors
Exceeded ==
  /\ agg.latencies # <<>>
  /\ Percentile(Sorted, 99) > 5000 \/ agg.errors * 100 > Total

(* log.Fatal exits with 1, exceeded thresholds with 2.                      *)
Report ==
  /\ main = "report"
  /\ exit' = IF Total = 0 THEN 1 ELSE IF Exceeded THEN 2 ELSE 0
  /\ main' = "exited"
  /\ UNCHANGED <<warmed, expired, pc, res, results, closed, agg, doneAgg,
                 answered, overtime>>

Main == WarmUp \/ Wait \/ Drain \/ Report

(* The context's timer.                                                     *)
Expire ==
  /\ ~expired /\ expired' = TRUE
  /\ UNCHANGED <<main, warmed, pc, res, results, closed, agg, doneAgg, exit,
                 answered, overtime>>

Next ==
  \/ Main \/ Aggregate \/ Expire
  \/ \E w \in Worker : WorkerStep(w)

Spec == Init /\ [][Next]_vars

(* Goroutines are scheduled, the timer fires, and the client's own timeout  *)
(* ends every request.                                                      *)
FairSpec ==
  /\ Spec
  /\ WF_vars(Main) /\ WF_vars(Aggregate) /\ WF_vars(Expire)
  /\ \A w \in Worker : WF_vars(WorkerStep(w))

-----------------------------------------------------------------------------
Result == [err: BOOLEAN, status: Nat, millis: Nat, cache: Label,
           target: Label]

TypeOK ==
  /\ main \in {"warmup", "wait", "drain", "report", "exited"}
  /\ warmed \in 0..Warmup
  /\ expired \in BOOLEAN /\ closed \in BOOLEAN /\ doneAgg \in BOOLEAN
  /\ pc \in [Worker -> {"check", "request", "send", "left"}]
  /\ res \in [Worker -> Result]
  /\ results \in Seq(Result) /\ Len(results) <= ResultsCap
  /\ agg \in [latencies: Seq(Nat), errors: Nat,
              statusCounts: [Status -> Nat], cacheCounts: [Label -> Nat],
              targetCounts: [Label -> Nat]]
  /\ exit \in -1..2
  /\ answered \in [Answer -> Nat] /\ overtime \in Nat

(* The report counts every timed request once: as an error, or with its     *)
(* latency, its status, its cache header and the target that served its     *)
(* live part (main.go:107-127, 146-150).                                    *)
Given(A) == SumOf([a \in A |-> answered[a]])
Good == {a \in Answer : Succeeded(a)}

ReportComplete ==
  main \in {"report", "exited"} =>
    /\ agg.errors = Given(Answer \ Good)
    /\ \A s \in Status :
         agg.statusCounts[s] = Given({a \in Good : a.status = s})
    /\ \A l \in Label :
         /\ agg.cacheCounts[l]
              = Given({a \in Good : l = Labelled(a.cache)})
         /\ agg.targetCounts[l]
              = Given({a \in Good :
                   l = Labelled(IF a.live # "" THEN a.live ELSE a.target)})
    /\ \A n \in {a.millis : a \in Answer} :
         Cardinality({i \in DOMAIN agg.latencies : agg.latencies[i] = n})
           = Given({a \in Good : a.millis = n})

(* throughput_rps divides by the duration although requests answered after  *)
(* the deadline are counted: there is at most one of them for each worker   *)
(* (main.go:133-141, 165).                                                  *)
OvertimeBounded == overtime <= Cardinality(Worker)

(* A percentile of the report is the smallest latency that at least p% of   *)
(* the successful requests did not exceed, and when the exit status is 0    *)
(* after a success, 99% of them stayed within 5 s (main.go:187, 229-247).   *)
AtMost(n) == Cardinality({i \in DOMAIN agg.latencies : agg.latencies[i] <= n})
Reaches(n, p) == AtMost(n) * 100 >= p * Len(agg.latencies)

NearestRank ==
  main = "exited" /\ agg.latencies # <<>> =>
    /\ exit = 0 => Reaches(5000, 99)
    /\ \A p \in {50, 90, 95, 99} :
         LET n == Percentile(Sorted, p)
         IN  /\ Reaches(n, p)
             /\ \A x \in ToSet(agg.latencies) : Reaches(x, p) => n <= x

(* A benchmark ends: no worker stays blocked on the channel and nobody      *)
(* waits for a goroutine that has gone (main.go:129-148).                   *)
BenchEnds == <>(main = "exited")
=============================================================================
