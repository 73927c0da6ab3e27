--------------------------- MODULE QueryPathProofs --------------------------
(***************************************************************************)
(* Theorems about QueryPath, for any queries, points, windows and number   *)
(* of calls.                                                               *)
(***************************************************************************)
EXTENDS QueryPath, TLAPS

-----------------------------------------------------------------------------
(* The operators.                                                           *)
LEMMA CutoffType == ASSUME NEW at \in Nat PROVE SplitCutoff(at) \in Int
BY QueryAssumption DEF SplitCutoff

(* A relative expression only moves forward (split.go:10-19).               *)
LEMMA ValueMonotone ==
  ASSUME NEW e \in Expr, NEW s \in Int, NEW t \in Int, s <= t
  PROVE  /\ Value(e, s) \in Int /\ Value(e, t) \in Int
         /\ Value(e, s) <= Value(e, t)
         /\ e.kind = "abs" => Value(e, s) = e.t
BY DEF Expr, Value

LEMMA AbsValue ==
  ASSUME NEW i \in Int, NEW at \in Int
  PROVE  Abs(i) \in Expr /\ Value(Abs(i), at) = i
BY DEF Abs, Expr, Value

(* The rewriting gives bodies again, and the cached segment reaches at      *)
(* least as far back as the range that was asked for (split.go:21-57).      *)
LEMMA SplitType ==
  ASSUME NEW b \in Body, NEW cut \in Int
  PROVE  SplitNowQuery(b, cut) \in SplitRecord
<1>1. CachedStart(b, cut) \in Expr
  BY DEF CachedStart, Abs, Body, Expr
<1>2. Abs(cut) \in Expr
  BY DEF Abs, Expr
<1>3. Splits(b, cut) \in BOOLEAN
  BY DEF Splits
<1> QED
  BY <1>1, <1>2, <1>3 DEF SplitNowQuery, SplitRecord, Body

LEMMA NotSplitType == ASSUME NEW b \in Body PROVE NotSplit(b) \in SplitRecord
BY DEF NotSplit, SplitRecord

LEMMA CachedReachesBack ==
  ASSUME NEW b \in Body, NEW cut \in Int, Splits(b, cut),
         NEW s \in Int, NEW t \in Int, s <= t
  PROVE  Value(CachedStart(b, cut), s) <= Value(b.start, t)
<1>1. b.start \in Expr /\ b.stop \in Expr
  BY DEF Body
<1>2. CASE b.stop.kind = "abs" /\ b.start.kind = "abs" /\ b.start.t < b.stop.t
  <2>1. cut < b.stop.t
    BY <1>2 DEF Splits
  <2>2. b.start.t \in Int /\ b.stop.t \in Int
    BY <1>1 DEF Expr
  <2>3. Value(CachedStart(b, cut), s) = cut - (b.stop.t - b.start.t)
    BY <1>2, <2>2, AbsValue DEF CachedStart
  <2>4. Value(b.start, t) = b.start.t
    BY <1>1, <1>2, ValueMonotone
  <2> QED
    BY <2>1, <2>2, <2>3, <2>4
<1>3. CASE ~(b.stop.kind = "abs" /\ b.start.kind = "abs"
               /\ b.start.t < b.stop.t)
  BY <1>1, <1>3, ValueMonotone DEF CachedStart
<1> QED
  BY <1>2, <1>3

LEMMA QueryBody ==
  ASSUME TypeOK, NEW c \in Call
  PROVE  query[c].flux \in Body
<1>1. NoQuery.flux \in Body
  BY DEF NoQuery, Body, Abs, Expr
<1> QED
  BY <1>1, QueryAssumption DEF TypeOK

-----------------------------------------------------------------------------
(* Type correctness.                                                        *)
LEMMA InitialTypes == Init => TypeOK
<1> SUFFICES ASSUME Init PROVE TypeOK
  OBVIOUS
<1>1. NoQuery.flux \in Body
  BY DEF NoQuery, Body, Abs, Expr
<1>2. split \in [Call -> SplitRecord]
  BY <1>1, NotSplitType DEF Init
<1> QED
  BY <1>2 DEF Init, TypeOK, Fetch!Pending

LEMMA RespondType ==
  ASSUME TypeOK, NEW c \in Call, NEW result \in SUBSET Point,
         NEW st \in {"2xx", "400", "401", "405", "502", "upstream"},
         Respond(c, st, result)
  PROVE  /\ pc' \in [Call -> {"idle", "fetch", "live", "done"}]
         /\ rows' \in [Call -> SUBSET Point]
         /\ status' \in [Call -> {"none", "2xx", "400", "401", "405", "502",
                                  "upstream"}]
         /\ ended' \in [Call -> Nat]
BY DEF TypeOK, Respond

LEMMA TypesKept == ASSUME TypeOK, [Next]_vars PROVE TypeOK'
<1> USE DEF TypeOK
<1>1. ASSUME NEW c \in Call, Reject(c) PROVE TypeOK'
  <2>1. PICK q \in Query : /\ query' = [query EXCEPT ![c] = q]
                           /\ Respond(c, RejectStatus(q.flaw), {})
    BY <1>1 DEF Reject
  <2>2. RejectStatus(q.flaw) \in {"400", "401", "405"}
    BY DEF RejectStatus
  <2>3. query' \in [Call -> Query \cup {NoQuery}]
    BY <2>1
  <2> QED
    BY <1>1, <2>1, <2>2, <2>3, RespondType DEF Reject
<1>2. ASSUME NEW c \in Call, Begin(c) PROVE TypeOK'
  <2>1. PICK q \in Query :
          /\ query' = [query EXCEPT ![c] = q]
          /\ \/ split' = [split EXCEPT ![c] =
                            SplitNowQuery(q.flux, SplitCutoff(now))]
             \/ split' = [split EXCEPT ![c] = NotSplit(q.flux)]
    BY <1>2 DEF Begin
  <2>2. q.flux \in Body
    BY QueryAssumption
  <2>3. split' \in [Call -> SplitRecord]
    BY <2>1, <2>2, SplitType, NotSplitType, CutoffType
  <2>4. query' \in [Call -> Query \cup {NoQuery}]
    BY <2>1
  <2> QED
    BY <1>2, <2>3, <2>4 DEF Begin
<1>3. ASSUME NEW c \in Call, FetchAnswered(c) PROVE TypeOK'
  <2>1. PICK b \in Sent, t \in 1..now : /\ Fetch!Give(c, t)
                                        /\ Fetched(c, Evaluate(b, t))
    BY <1>3 DEF FetchAnswered
  <2>2. Evaluate(b, t) \in SUBSET Point
    BY DEF Evaluate
  <2>3. answer' \in [Call -> [state: {"pending", "failed", "given"}, at: Nat]]
    BY <2>1 DEF Fetch!Give, Fetch!Given
  <2>4. CASE split[c].ok
    <3>1. rows' \in [Call -> SUBSET Point]
      BY <2>1, <2>2, <2>4 DEF Fetched
    <3>2. pc' \in [Call -> {"idle", "fetch", "live", "done"}]
      BY <2>1, <2>4 DEF Fetched
    <3>3. UNCHANGED <<status, ended>>
      BY <2>1, <2>4 DEF Fetched
    <3> QED
      BY <1>3, <2>3, <3>1, <3>2, <3>3 DEF FetchAnswered
  <2>5. CASE ~split[c].ok
    BY <1>3, <2>1, <2>2, <2>3, <2>5, RespondType DEF FetchAnswered, Fetched
  <2> QED
    BY <2>4, <2>5
<1>4. ASSUME NEW c \in Call, FetchFails(c) PROVE TypeOK'
  <2>1. answer' \in [Call -> [state: {"pending", "failed", "given"}, at: Nat]]
    BY <1>4 DEF FetchFails, Fetch!Fail, Fetch!Failed
  <2>2. Respond(c, "502", {}) \/ Respond(c, "upstream", {})
    BY <1>4 DEF FetchFails
  <2> QED
    BY <1>4, <2>1, <2>2, RespondType DEF FetchFails
<1>5. ASSUME NEW c \in Call, Live(c) \/ LiveFails(c) PROVE TypeOK'
  <2>1. rows[c] \cup Evaluate(split[c].live, now) \in SUBSET Point
    BY DEF Evaluate
  <2>2. \/ Respond(c, "502", {}) \/ Respond(c, "upstream", {})
        \/ Respond(c, "2xx", rows[c] \cup Evaluate(split[c].live, now))
    BY <1>5 DEF Live, LiveFails
  <2> QED
    BY <1>5, <2>1, <2>2, RespondType DEF Live, LiveFails
<1>6. ASSUME NEW p \in Point, Write(p) PROVE TypeOK'
  BY <1>6 DEF Write
<1>7. CASE Tick
  BY <1>7 DEF Tick
<1>8. CASE UNCHANGED vars
  BY <1>8 DEF vars
<1> QED
  BY <1>1, <1>2, <1>3, <1>4, <1>5, <1>6, <1>7, <1>8 DEF Next, HandleQuery

(* Every variable of the query handler keeps its type: whatever the ranges  *)
(* and the window, the rewritten bodies are ranges and the status is one    *)
(* handleQuery can send.                                                    *)
THEOREM QueryTypeCorrect == Spec => []TypeOK
BY InitialTypes, TypesKept, PTL DEF Spec

-----------------------------------------------------------------------------
(* The inductive invariant.  A call's bodies are those of its own query and *)
(* of its own reading of the clock, and the statuses are given at the end.  *)
SplitKept(c) ==
  /\ began[c] <= now
  /\ pc[c] \in {"idle", "fetch", "live"} => status[c] = "none"
  /\ pc[c] = "idle" => ~split[c].ok
  /\ pc[c] = "live" => split[c].ok
  /\ Answered(c) => began[c] <= ended[c]
  /\ split[c].ok =>
       split[c] = SplitNowQuery(query[c].flux, SplitCutoff(began[c]))
  /\ ~split[c].ok /\ (pc[c] = "fetch" \/ Answered(c)) =>
       split[c] = NotSplit(query[c].flux)

(* Between its two fetches a call holds every row before the cutoff that    *)
(* was written MaxAge before it began: the start of a relative range only   *)
(* moves forward until the call returns.                                    *)
CachedRows(c) ==
  pc[c] = "live" =>
    \A p \in Point :
      /\ writtenAt[p] # 0 /\ writtenAt[p] <= began[c] - MaxAge
      /\ Value(query[c].flux.start, now) <= p /\ p < SplitCutoff(began[c])
      => p \in rows[c]

QueryInv == TypeOK /\ \A c \in Call : SplitKept(c) /\ CachedRows(c)

-----------------------------------------------------------------------------
(* A step of handleQuery changes nothing of another call.                   *)
LEMMA OthersKept ==
  ASSUME TypeOK, NEW c \in Call, HandleQuery(c)
  PROVE  /\ UNCHANGED <<now, writtenAt>>
         /\ \A d \in Call \ {c} :
              UNCHANGED <<pc[d], query[d], began[d], split[d], rows[d],
                          status[d], ended[d]>>
<1> USE DEF TypeOK
<1>1. CASE Reject(c)
  BY <1>1 DEF Reject, Respond
<1>2. CASE Begin(c)
  BY <1>2 DEF Begin
<1>3. CASE FetchAnswered(c)
  BY <1>3 DEF FetchAnswered, Fetched, Respond
<1>4. CASE FetchFails(c)
  BY <1>4 DEF FetchFails, Respond
<1>5. CASE Live(c)
  BY <1>5 DEF Live, Respond
<1>6. CASE LiveFails(c)
  BY <1>6 DEF LiveFails, Respond
<1> QED
  BY <1>1, <1>2, <1>3, <1>4, <1>5, <1>6 DEF HandleQuery

(* What the steps do to their own call.                                     *)
LEMMA BeginStep ==
  ASSUME TypeOK, NEW c \in Call, Begin(c)
  PROVE  /\ pc'[c] = "fetch" /\ began'[c] = now
         /\ UNCHANGED <<now, status[c]>> /\ pc[c] = "idle"
         /\ \/ /\ split'[c].ok
               /\ split'[c] =
                    SplitNowQuery(query'[c].flux, SplitCutoff(began'[c]))
            \/ /\ ~split'[c].ok
               /\ split'[c] = NotSplit(query'[c].flux)
BY DEF TypeOK, Begin, NotSplit

LEMMA FailStep ==
  ASSUME TypeOK, NEW c \in Call,
         Reject(c) \/ FetchFails(c) \/ LiveFails(c)
  PROVE  /\ pc'[c] = "done" /\ status'[c] # "2xx"
         /\ UNCHANGED <<now, began[c], split[c]>>
         /\ split'[c].ok => query'[c] = query[c] \/ pc[c] = "idle"
BY DEF TypeOK, Reject, FetchFails, LiveFails, Respond, RejectStatus

LEMMA FetchStep ==
  ASSUME TypeOK, NEW c \in Call, FetchAnswered(c)
  PROVE  /\ UNCHANGED <<now, writtenAt, query[c], began[c], split[c]>>
         /\ pc[c] = "fetch"
         /\ \E t \in Nat :
              /\ now - MaxAge < t /\ t <= now
              /\ rows'[c] = Evaluate(split[c].cached, t)
         /\ split[c].ok => pc'[c] = "live" /\ UNCHANGED status[c]
         /\ ~split[c].ok =>
              pc'[c] = "done" /\ status'[c] = "2xx" /\ ended'[c] = now
<1> USE DEF TypeOK
<1>1. PICK b \in Sent, t \in 1..now :
        /\ CacheKey(b) = CacheKey(split[c].cached)
        /\ Fetch!Give(c, t)
        /\ Fetched(c, Evaluate(b, t))
  BY DEF FetchAnswered
<1>2. t \in Nat /\ now - MaxAge < t /\ t <= now
  BY <1>1 DEF Fetch!Give
<1>3. b = split[c].cached
  BY <1>1 DEF CacheKey
<1>4. rows'[c] = Evaluate(split[c].cached, t)
  BY <1>1, <1>3 DEF Fetched, Respond
<1>5. /\ split[c].ok => pc'[c] = "live" /\ UNCHANGED status[c]
      /\ ~split[c].ok =>
           pc'[c] = "done" /\ status'[c] = "2xx" /\ ended'[c] = now
  BY <1>1 DEF Fetched, Respond
<1> QED
  BY <1>2, <1>4, <1>5 DEF FetchAnswered

LEMMA LiveStep ==
  ASSUME TypeOK, NEW c \in Call, Live(c)
  PROVE  /\ UNCHANGED <<now, writtenAt, query[c], began[c], split[c]>>
         /\ pc[c] = "live" /\ pc'[c] = "done" /\ status'[c] = "2xx"
         /\ ended'[c] = now
         /\ rows'[c] = rows[c] \cup Evaluate(split[c].live, now)
BY DEF TypeOK, Live, Respond

-----------------------------------------------------------------------------
LEMMA InitialSplits == Init => \A c \in Call : SplitKept(c) /\ CachedRows(c)
<1> SUFFICES ASSUME Init, NEW c \in Call PROVE SplitKept(c) /\ CachedRows(c)
  OBVIOUS
<1>1. /\ pc[c] = "idle" /\ status[c] = "none" /\ began[c] = 0 /\ now = 1
      /\ split[c] = NotSplit(NoQuery.flux)
  BY DEF Init
<1>2. ~split[c].ok
  BY <1>1 DEF NotSplit
<1> QED
  BY <1>1, <1>2 DEF SplitKept, CachedRows, Answered

LEMMA SplitsKept ==
  ASSUME QueryInv, [Next]_vars, NEW d \in Call
  PROVE  SplitKept(d)'
<1> USE DEF QueryInv
<1>0. now \in Nat /\ began[d] \in Nat
  BY DEF TypeOK
<1>1. ASSUME NEW c \in Call, HandleQuery(c), c # d PROVE SplitKept(d)'
  BY <1>1, OthersKept DEF SplitKept, Answered
<1>2. CASE Begin(d)
  BY <1>0, <1>2, BeginStep DEF SplitKept, Answered
<1>3. CASE Reject(d) \/ FetchFails(d) \/ LiveFails(d)
  <2>1. split[d].ok => UNCHANGED query[d]
    BY <1>3 DEF SplitKept, Reject, FetchFails, LiveFails
  <2> QED
    BY <1>3, <2>1, FailStep DEF SplitKept, Answered
<1>4. CASE FetchAnswered(d)
  BY <1>4, FetchStep DEF SplitKept, Answered
<1>5. CASE Live(d)
  BY <1>5, LiveStep DEF SplitKept, Answered
<1>6. ASSUME NEW p \in Point, Write(p) PROVE SplitKept(d)'
  BY <1>6 DEF Write, SplitKept, Answered
<1>7. CASE Tick
  BY <1>0, <1>7 DEF Tick, SplitKept, Answered
<1>8. CASE UNCHANGED vars
  BY <1>8 DEF vars, SplitKept, Answered
<1> QED
  BY <1>1, <1>2, <1>3, <1>4, <1>5, <1>6, <1>7, <1>8 DEF Next, HandleQuery

(* A cached segment evaluated less than MaxAge ago holds every row before   *)
(* the cutoff that was there MaxAge before the call began.                  *)
LEMMA CachedSegmentComplete ==
  ASSUME QueryInv, NEW c \in Call, split[c].ok,
         NEW t \in Nat, now - MaxAge < t, t <= now,
         NEW p \in Point,
         writtenAt[p] # 0, writtenAt[p] <= began[c] - MaxAge,
         Value(query[c].flux.start, now) <= p, p < SplitCutoff(began[c])
  PROVE  p \in Evaluate(split[c].cached, t)
<1> DEFINE b == query[c].flux
           cut == SplitCutoff(began[c])
<1>1. b \in Body /\ b.start \in Expr /\ cut \in Int /\ p \in Int
  BY QueryBody, CutoffType, QueryAssumption DEF QueryInv, TypeOK, Body
<1>2. split[c] = SplitNowQuery(b, cut) /\ began[c] <= now
  BY DEF QueryInv, SplitKept
<1>3. Splits(b, cut)
  BY <1>2 DEF SplitNowQuery
<1>4. /\ split[c].cached.start = CachedStart(b, cut)
      /\ split[c].cached.stop = Abs(cut)
  BY <1>2 DEF SplitNowQuery
<1>5. t \in Int /\ now \in Int /\ began[c] \in Int /\ writtenAt[p] \in Int
  BY DEF QueryInv, TypeOK
<1>6. Value(CachedStart(b, cut), t) <= Value(b.start, now)
  BY <1>1, <1>3, <1>5, CachedReachesBack
<1>7. Value(CachedStart(b, cut), t) \in Int /\ Value(b.start, now) \in Int
  <2>1. CachedStart(b, cut) \in Expr
    BY <1>1 DEF CachedStart, Body, Expr, Abs
  <2> QED
    BY <1>1, <1>5, <2>1, ValueMonotone
<1>8. Value(CachedStart(b, cut), t) <= p
  BY <1>1, <1>6, <1>7
<1>9. Value(Abs(cut), t) = cut
  BY <1>1, <1>5, AbsValue
<1>10. writtenAt[p] <= t
  BY <1>2, <1>5, QueryAssumption
<1> QED
  BY <1>4, <1>8, <1>9, <1>10 DEF Evaluate, Within

LEMMA CachedRowsKept ==
  ASSUME QueryInv, [Next]_vars, NEW d \in Call
  PROVE  CachedRows(d)'
<1> USE DEF QueryInv
<1>0. /\ now \in Nat /\ began[d] \in Nat /\ query[d].flux.start \in Expr
      /\ MaxAge \in Nat \ {0} /\ Point \subseteq Nat
  BY QueryBody, QueryAssumption DEF TypeOK, Body
<1>1. ASSUME NEW c \in Call, HandleQuery(c), c # d PROVE CachedRows(d)'
  BY <1>1, OthersKept DEF CachedRows
<1>2. CASE Begin(d)
  BY <1>2, BeginStep DEF CachedRows
<1>3. CASE Reject(d) \/ FetchFails(d) \/ LiveFails(d)
  BY <1>3, FailStep DEF CachedRows
<1>4. CASE FetchAnswered(d)
  <2>1. PICK t \in Nat : /\ now - MaxAge < t /\ t <= now
                         /\ rows'[d] = Evaluate(split[d].cached, t)
    BY <1>4, FetchStep
  <2>2. CASE split[d].ok
    BY <1>4, <2>1, <2>2, FetchStep, CachedSegmentComplete DEF CachedRows
  <2>3. CASE ~split[d].ok
    BY <1>4, <2>3, FetchStep DEF CachedRows
  <2> QED
    BY <2>2, <2>3
<1>5. CASE Live(d)
  BY <1>5, LiveStep DEF CachedRows
<1>6. ASSUME NEW w \in Point, Write(w) PROVE CachedRows(d)'
  <2>1. /\ UNCHANGED <<now, pc, query, began, rows>>
        /\ writtenAt' = [writtenAt EXCEPT ![w] = now]
    BY <1>6 DEF Write
  <2>2. writtenAt'[w] = now /\ ~(now <= began[d] - MaxAge)
    BY <1>0, <2>1 DEF SplitKept, TypeOK
  <2>3. \A p \in Point \ {w} : writtenAt'[p] = writtenAt[p]
    BY <2>1 DEF TypeOK
  <2> QED
    BY <2>1, <2>2, <2>3 DEF CachedRows
<1>7. CASE Tick
  <2>1. /\ UNCHANGED <<writtenAt, pc, query, began, rows>> /\ now' = now + 1
    BY <1>7 DEF Tick
  <2>2. /\ Value(query[d].flux.start, now) \in Int
        /\ Value(query[d].flux.start, now + 1) \in Int
        /\ Value(query[d].flux.start, now) <=
             Value(query[d].flux.start, now + 1)
    BY <1>0, ValueMonotone
  <2>3. \A p \in Point : Value(query[d].flux.start, now + 1) <= p =>
                           Value(query[d].flux.start, now) <= p
    BY <1>0, <2>2
  <2> QED
    BY <2>1, <2>3 DEF CachedRows
<1>8. CASE UNCHANGED vars
  BY <1>8 DEF vars, CachedRows
<1> QED
  BY <1>1, <1>2, <1>3, <1>4, <1>5, <1>6, <1>7, <1>8 DEF Next, HandleQuery

LEMMA QueryInvariant == Spec => []QueryInv
<1>1. Init => QueryInv
  BY InitialTypes, InitialSplits DEF QueryInv
<1>2. QueryInv /\ [Next]_vars => QueryInv'
  BY TypesKept, SplitsKept, CachedRowsKept DEF QueryInv
<1> QED
  BY <1>1, <1>2, PTL DEF Spec

-----------------------------------------------------------------------------
(* The rows of the answer to a query.                                       *)
LEMMA LiveBody ==
  ASSUME QueryInv, NEW c \in Call, pc[c] = "live"
  PROVE  /\ split[c].live.start = Abs(SplitCutoff(began[c]))
         /\ split[c].live.stop = query[c].flux.stop
<1>1. split[c] = SplitNowQuery(query[c].flux, SplitCutoff(began[c]))
  BY DEF QueryInv, SplitKept
<1> QED
  BY <1>1 DEF SplitNowQuery

LEMMA NothingLostKept ==
  ASSUME QueryInv, NothingLost, [Next]_vars
  PROVE  NothingLost'
<1> USE DEF QueryInv
<1> DEFINE Asked(c, p) ==
      /\ writtenAt[p] # 0 /\ writtenAt[p] <= began[c] - MaxAge
      /\ Value(query[c].flux.start, ended[c]) <= p
      /\ p < Value(query[c].flux.stop, began[c] - MaxAge)
<1> SUFFICES ASSUME NEW d \in Call, Answered(d)', NEW p \in Point, Asked(d, p)'
             PROVE  p \in rows'[d]
  BY DEF NothingLost
<1>0. /\ now \in Int /\ began[d] \in Int /\ MaxAge \in Nat \ {0}
      /\ began[d] - MaxAge \in Int
      /\ p \in Int /\ writtenAt[p] \in Int /\ SplitCutoff(began[d]) \in Int
      /\ query[d].flux.start \in Expr /\ query[d].flux.stop \in Expr
  BY QueryBody, CutoffType, QueryAssumption DEF TypeOK, Body
<1>1. Answered(d) /\ Asked(d, p) => p \in rows[d]
  BY DEF NothingLost
<1>2. ASSUME NEW c \in Call, HandleQuery(c), c # d PROVE p \in rows'[d]
  BY <1>1, <1>2, OthersKept DEF Answered
<1>3. CASE Begin(d)
  BY <1>3, BeginStep DEF Answered
<1>4. CASE Reject(d) \/ FetchFails(d) \/ LiveFails(d)
  BY <1>4, FailStep DEF Answered
<1>5. CASE FetchAnswered(d)
  <2>1. PICK t \in Nat : /\ now - MaxAge < t /\ t <= now
                         /\ rows'[d] = Evaluate(split[d].cached, t)
    BY <1>5, FetchStep
  <2>2. ~split[d].ok /\ ended'[d] = now
    BY <1>5, FetchStep DEF Answered
  <2>3. split[d].cached = query[d].flux
    <3>1. split[d] = NotSplit(query[d].flux)
      BY <1>5, <2>2, FetchStep DEF SplitKept
    <3> QED
      BY <3>1 DEF NotSplit
  <2>4. UNCHANGED <<now, writtenAt, query[d], began[d]>>
    BY <1>5, FetchStep
  <2>5. /\ began[d] - MaxAge < t /\ began[d] <= now /\ t \in Int
    BY <1>0, <2>1 DEF SplitKept
  <2>6. /\ Value(query[d].flux.start, t) <= p
        /\ p < Value(query[d].flux.stop, t)
    <3>1. /\ Value(query[d].flux.start, t) \in Int
          /\ Value(query[d].flux.start, now) \in Int
          /\ Value(query[d].flux.start, t) <= Value(query[d].flux.start, now)
      BY <1>0, <2>1, <2>5, ValueMonotone
    <3>2. /\ Value(query[d].flux.stop, t) \in Int
          /\ Value(query[d].flux.stop, began[d] - MaxAge) \in Int
          /\ Value(query[d].flux.stop, began[d] - MaxAge) <=
               Value(query[d].flux.stop, t)
      BY <1>0, <2>1, <2>5, ValueMonotone
    <3> QED
      BY <1>0, <2>2, <2>4, <3>1, <3>2
  <2>7. writtenAt[p] # 0 /\ writtenAt[p] <= t
    BY <1>0, <2>4, <2>5
  <2> QED
    BY <2>1, <2>3, <2>6, <2>7 DEF Evaluate, Within
<1>6. CASE Live(d)
  <2>1. /\ UNCHANGED <<now, writtenAt, query[d], began[d]>>
        /\ ended'[d] = now /\ pc[d] = "live"
        /\ rows'[d] = rows[d] \cup Evaluate(split[d].live, now)
    BY <1>6, LiveStep
  <2>2. CASE p < SplitCutoff(began[d])
    BY <2>1, <2>2 DEF CachedRows
  <2>3. CASE SplitCutoff(began[d]) <= p
    <3>1. /\ split[d].live.start = Abs(SplitCutoff(began[d]))
          /\ split[d].live.stop = query[d].flux.stop
      BY <2>1, LiveBody
    <3>2. began[d] - MaxAge <= now
      BY <1>0 DEF SplitKept
    <3>3. /\ Value(query[d].flux.stop, now) \in Int
          /\ Value(query[d].flux.stop, began[d] - MaxAge) \in Int
          /\ Value(query[d].flux.stop, began[d] - MaxAge) <=
               Value(query[d].flux.stop, now)
      BY <1>0, <3>2, ValueMonotone
    <3>4. p < Value(split[d].live.stop, now)
      BY <1>0, <2>1, <3>1, <3>3
    <3>5. Value(split[d].live.start, now) <= p
      BY <1>0, <2>3, <3>1, AbsValue
    <3>6. writtenAt[p] # 0 /\ writtenAt[p] <= now
      BY <1>0, <2>1, <3>2
    <3> QED
      BY <2>1, <3>4, <3>5, <3>6 DEF Evaluate, Within
  <2> QED
    BY <1>0, <2>2, <2>3
<1>7. ASSUME NEW w \in Point, Write(w) PROVE p \in rows'[d]
  <2>1. /\ UNCHANGED <<now, pc, query, began, rows, status, ended>>
        /\ writtenAt' = [writtenAt EXCEPT ![w] = now]
    BY <1>7 DEF Write
  <2>2. writtenAt'[w] = now /\ ~(now <= began[d] - MaxAge)
    BY <1>0, <2>1 DEF SplitKept, TypeOK
  <2>3. p # w /\ writtenAt'[p] = writtenAt[p]
    BY <2>1, <2>2 DEF TypeOK
  <2> QED
    BY <1>1, <2>1, <2>3 DEF Answered
<1>8. CASE Tick
  BY <1>1, <1>8 DEF Tick, Answered
<1>9. CASE UNCHANGED vars
  BY <1>1, <1>9 DEF vars, Answered
<1> QED
  BY <1>2, <1>3, <1>4, <1>5, <1>6, <1>7, <1>8, <1>9 DEF Next, HandleQuery

(* For any ranges, window, age bound and interleaving of calls and writers, *)
(* an answer lacks no row that the targets would have returned MaxAge       *)
(* before its call began: the rewriting of the range and the sharing of     *)
(* cached segments lose nothing (split.go:21-57, server.go:156-236).        *)
THEOREM AnswersComplete == Spec => []NothingLost
<1>1. Init => NothingLost
  BY DEF Init, NothingLost, Answered
<1>2. QueryInv /\ NothingLost /\ [Next]_vars => NothingLost'
  BY NothingLostKept
<1> QED
  BY <1>1, <1>2, QueryInvariant, PTL DEF Spec

-----------------------------------------------------------------------------
LEMMA LiveTailKept ==
  ASSUME QueryInv, LiveTailFresh, [Next]_vars
  PROVE  LiveTailFresh'
<1> USE DEF QueryInv
<1> DEFINE Asked(c, p) ==
      /\ writtenAt[p] # 0 /\ writtenAt[p] < began[c]
      /\ SplitCutoff(began[c]) <= p
      /\ Value(query[c].flux.start, ended[c]) <= p
      /\ p < Value(query[c].flux.stop, began[c])
<1> SUFFICES ASSUME NEW d \in Call, Answered(d)', split'[d].ok,
                    NEW p \in Point, Asked(d, p)'
             PROVE  p \in rows'[d]
  BY DEF LiveTailFresh
<1>0. /\ now \in Int /\ began[d] \in Int /\ p \in Int /\ writtenAt[p] \in Int
      /\ SplitCutoff(began[d]) \in Int /\ query[d].flux.stop \in Expr
  BY QueryBody, CutoffType, QueryAssumption DEF TypeOK, Body
<1>1. Answered(d) /\ split[d].ok /\ Asked(d, p) => p \in rows[d]
  BY DEF LiveTailFresh
<1>2. ASSUME NEW c \in Call, HandleQuery(c), c # d PROVE p \in rows'[d]
  BY <1>1, <1>2, OthersKept DEF Answered
<1>3. CASE Begin(d)
  BY <1>3, BeginStep DEF Answered
<1>4. CASE Reject(d) \/ FetchFails(d) \/ LiveFails(d)
  BY <1>4, FailStep DEF Answered
<1>5. CASE FetchAnswered(d)
  BY <1>5, FetchStep DEF Answered
<1>6. CASE Live(d)
  <2>1. /\ UNCHANGED <<now, writtenAt, query[d], began[d]>>
        /\ rows'[d] = rows[d] \cup Evaluate(split[d].live, now)
        /\ pc[d] = "live"
    BY <1>6, LiveStep
  <2>2. /\ split[d].live.start = Abs(SplitCutoff(began[d]))
        /\ split[d].live.stop = query[d].flux.stop
        /\ began[d] <= now
    BY <2>1, LiveBody DEF SplitKept
  <2>3. /\ Value(query[d].flux.stop, now) \in Int
        /\ Value(query[d].flux.stop, began[d]) \in Int
        /\ Value(query[d].flux.stop, began[d]) <= Value(query[d].flux.stop, now)
    BY <1>0, <2>2, ValueMonotone
  <2>4. p < Value(split[d].live.stop, now)
    BY <1>0, <2>1, <2>2, <2>3
  <2>5. Value(split[d].live.start, now) <= p
    BY <1>0, <2>1, <2>2, AbsValue
  <2>6. writtenAt[p] # 0 /\ writtenAt[p] <= now
    BY <1>0, <2>1, <2>2
  <2> QED
    BY <2>1, <2>4, <2>5, <2>6 DEF Evaluate, Within
<1>7. ASSUME NEW w \in Point, Write(w) PROVE p \in rows'[d]
  <2>1. /\ UNCHANGED <<now, pc, query, began, split, rows, status, ended>>
        /\ writtenAt' = [writtenAt EXCEPT ![w] = now]
    BY <1>7 DEF Write
  <2>2. writtenAt'[w] = now /\ ~(now < began[d])
    BY <1>0, <2>1 DEF SplitKept, TypeOK
  <2>3. p # w /\ writtenAt'[p] = writtenAt[p]
    BY <2>1, <2>2 DEF TypeOK
  <2> QED
    BY <1>1, <2>1, <2>3 DEF Answered
<1>8. CASE Tick
  BY <1>1, <1>8 DEF Tick, Answered
<1>9. CASE UNCHANGED vars
  BY <1>1, <1>9 DEF vars, Answered
<1> QED
  BY <1>2, <1>3, <1>4, <1>5, <1>6, <1>7, <1>8, <1>9 DEF Next, HandleQuery

(* Whatever the cache returned, a split answer lacks no row of the          *)
(* freshness window that was written before its call began (utils.go:52-58, *)
(* server.go:205-224).                                                      *)
THEOREM TailAlwaysFresh == Spec => []LiveTailFresh
<1>1. Init => LiveTailFresh
  BY DEF Init, LiveTailFresh, Answered
<1>2. QueryInv /\ LiveTailFresh /\ [Next]_vars => LiveTailFresh'
  BY LiveTailKept
<1> QED
  BY <1>1, <1>2, QueryInvariant, PTL DEF Spec

-----------------------------------------------------------------------------
(* Two readings of the clock in one freshness window give one cutoff.       *)
LEMMA OneCutoff ==
  ASSUME FreshnessWindow > 0, NEW s \in Nat, NEW t \in Nat,
         s \div FreshnessWindow = t \div FreshnessWindow
  PROVE  SplitCutoff(s) = SplitCutoff(t)
<1>1. FreshnessWindow \in Nat \ {0}
  BY QueryAssumption
<1>2. /\ s - (s % FreshnessWindow) = FreshnessWindow * (s \div FreshnessWindow)
      /\ t - (t % FreshnessWindow) = FreshnessWindow * (t \div FreshnessWindow)
  BY <1>1
<1> QED
  BY <1>1, <1>2 DEF SplitCutoff

(* With a freshness window, calls for one range, or for absolute ranges of  *)
(* one length, that begin in the same window look up the same cache entry   *)
(* (utils.go:56, split.go:38-44).                                           *)
THEOREM WindowsShare ==
  ASSUME FreshnessWindow > 0
  PROVE  Spec => []WindowSharesSegment
<1>1. ASSUME QueryInv PROVE WindowSharesSegment
  <2> SUFFICES ASSUME NEW c \in Call, NEW d \in Call,
                      split[c].ok, split[d].ok,
                      SameWindow(query[c].flux, query[d].flux),
                      began[c] \div FreshnessWindow =
                        began[d] \div FreshnessWindow
               PROVE  CacheKey(split[c].cached) = CacheKey(split[d].cached)
    BY DEF WindowSharesSegment
  <2> DEFINE b == query[c].flux
             e == query[d].flux
             cut == SplitCutoff(began[c])
  <2>1. SplitCutoff(began[d]) = cut
    BY <1>1, OneCutoff DEF QueryInv, TypeOK
  <2>2. /\ split[c] = SplitNowQuery(b, cut)
        /\ split[d] = SplitNowQuery(e, cut)
    BY <1>1, <2>1 DEF QueryInv, SplitKept
  <2>3. CachedStart(b, cut) = CachedStart(e, cut)
    <3>1. CASE b = e
      BY <3>1
    <3>2. CASE /\ {b.start.kind, b.stop.kind, e.start.kind, e.stop.kind} = {"abs"}
               /\ b.stop.t - b.start.t > 0
               /\ b.stop.t - b.start.t = e.stop.t - e.start.t
      <4>1. /\ b.start.kind = "abs" /\ b.stop.kind = "abs"
            /\ e.start.kind = "abs" /\ e.stop.kind = "abs"
        BY <3>2
      <4>2. /\ b.start.t \in Int /\ b.stop.t \in Int
            /\ e.start.t \in Int /\ e.stop.t \in Int
        BY <1>1, QueryBody DEF QueryInv, Body, Expr
      <4>3. b.start.t < b.stop.t /\ e.start.t < e.stop.t
        BY <3>2, <4>2
      <4> QED
        BY <3>2, <4>1, <4>3 DEF CachedStart
    <3> QED
      BY <3>1, <3>2 DEF SameWindow
  <2> QED
    BY <2>2, <2>3 DEF SplitNowQuery, CacheKey
<1> QED
  BY <1>1, QueryInvariant, PTL
=============================================================================
