------------------------------ MODULE QueryPath -----------------------------
(***************************************************************************)
(* POST /api/v2/query: handleQuery in internal/gateway/server.go with the  *)
(* rewriting of internal/flux/split.go.  A query whose range reaches to    *)
(* the present is split at a cutoff into a cached segment and a live one,  *)
(* each is fetched, and the rows are merged.                               *)
(*                                                                         *)
(* Points are identified by their timestamps and may be written late.      *)
(* Time is in units of the clock; a query is its range, since the rewrite  *)
(* touches nothing else.  fetchOrCache is its contract (FetchContract,     *)
(* which ResponseCache implements): it returns the rows of an evaluation,  *)
(* for any request with the same cache key, that is less than MaxAge old,  *)
(* or it fails.                                                            *)
(***************************************************************************)
EXTENDS Integers

CONSTANTS
  Call,             \* calls of handleQuery
  Query,            \* the requests clients send
  Point,            \* timestamps of the points that may be written
  FreshnessWindow,
  MaxAge,           \* HoldMax + CacheTTL + CacheTTLJitter of ResponseCache
  Faults,           \* whether Redis and the targets may fail
  MaxTime           \* bound on the clock

(* A time expression of Flux: "abs" an instant, "rel" a time before now(),  *)
(* "now" is now(), "var" is v.timeRangeStop with the value it is bound to.  *)
Expr == [kind: {"abs", "rel", "now", "var"}, t: Int]
Body == [start: Expr, stop: Expr]
Abs(instant) == [kind |-> "abs", t |-> instant]

(* flaw: the first check of handleQuery the request fails, if any.          *)
Flaw == {"none", "method", "auth", "org", "body"}

ASSUME QueryAssumption ==
  /\ Query \subseteq [flaw: Flaw, csv: BOOLEAN, flux: Body]
  /\ Point \subseteq Nat
  /\ FreshnessWindow \in Int
  /\ MaxAge \in Nat \ {0}
  /\ Faults \in BOOLEAN
  /\ MaxTime \in Nat

VARIABLES
  now,        \* the clock
  writtenAt,  \* when a point was written to the targets; 0 if it was not
  pc,         \* where a call is
  query,      \* its request
  began,      \* when handleQuery read the clock
  split,      \* its two bodies, when it is split
  answer,     \* what fetchOrCache gave the call
  rows,       \* rows collected, then returned
  status,     \* HTTP status returned
  ended       \* when the call returned

vars ==
  <<now, writtenAt, pc, query, began, split, answer, rows, status, ended>>

Fetch == INSTANCE FetchContract WITH Request <- Call

-----------------------------------------------------------------------------
(* SplitCutoff: the clock, truncated to the freshness window.               *)
SplitCutoff(at) ==
  IF FreshnessWindow <= 0 THEN at ELSE at - (at % FreshnessWindow)

(* SplitNowQuery on the range of a query.  now() and v.timeRangeStop split  *)
(* always, an absolute stop when it lies after the cutoff; then the cached  *)
(* segment of an absolute range is moved to end at the cutoff with the      *)
(* whole window's length.                                                   *)
Splits(b, cutoff) ==
  \/ b.stop.kind \in {"now", "var"}
  \/ b.stop.kind = "abs" /\ cutoff < b.stop.t

BugCachedStart(b, cutoff) == b.start

CachedStart(b, cutoff) ==
  IF b.stop.kind = "abs" /\ b.start.kind = "abs" /\ b.start.t < b.stop.t
    THEN Abs(cutoff - (b.stop.t - b.start.t))
    ELSE b.start

SplitNowQuery(b, cutoff) ==
  [ok |-> Splits(b, cutoff),
   cached |-> [start |-> CachedStart(b, cutoff), stop |-> Abs(cutoff)],
   live |-> [start |-> Abs(cutoff), stop |-> b.stop]]

NotSplit(b) == [ok |-> FALSE, cached |-> b, live |-> b]

(* The cache signature is the body sent.                                    *)
BugCacheKey(b) == b.stop
CacheKey(b) == b

-----------------------------------------------------------------------------
(* The targets, external: what a range means when it is evaluated, the rows *)
(* it selects, and that an empty range is an error.                         *)
Value(e, at) ==
  CASE e.kind = "rel" -> at - e.t
    [] e.kind = "now" -> at
    [] OTHER          -> e.t

Within(p, b, at) == Value(b.start, at) <= p /\ p < Value(b.stop, at)
ValidRange(b, at) == Value(b.start, at) < Value(b.stop, at)
Evaluate(b, at) ==
  {p \in Point : /\ writtenAt[p] # 0 /\ writtenAt[p] <= at
                 /\ Within(p, b, at)}

-----------------------------------------------------------------------------
NoQuery == [flaw |-> "none", csv |-> FALSE,
            flux |-> [start |-> Abs(0), stop |-> Abs(0)]]

Init ==
  /\ now = 1
  /\ writtenAt = [p \in Point |-> 0]
  /\ pc = [c \in Call |-> "idle"]
  /\ query = [c \in Call |-> NoQuery]
  /\ began = [c \in Call |-> 0]
  /\ split = [c \in Call |-> NotSplit(NoQuery.flux)]
  /\ answer = [c \in Call |-> Fetch!Pending]
  /\ rows = [c \in Call |-> {}]
  /\ status = [c \in Call |-> "none"]
  /\ ended = [c \in Call |-> 0]

Respond(c, st, result) ==
  /\ pc' = [pc EXCEPT ![c] = "done"]
  /\ status' = [status EXCEPT ![c] = st]
  /\ rows' = [rows EXCEPT ![c] = result]
  /\ ended' = [ended EXCEPT ![c] = now]

BugRejectStatus(flaw) ==
  CASE flaw = "method" -> "405" [] flaw = "auth" -> "403" [] OTHER -> "400"

RejectStatus(flaw) ==
  CASE flaw = "method" -> "405" [] flaw = "auth" -> "401" [] OTHER -> "400"

(* The checks at the top of handleQuery.                                    *)
Reject(c) ==
  /\ pc[c] = "idle"
  /\ \E q \in Query :
       /\ q.flaw # "none"
       /\ query' = [query EXCEPT ![c] = q]
       /\ Respond(c, RejectStatus(q.flaw), {})
  /\ UNCHANGED <<now, writtenAt, began, split, answer>>

(* handleQuery reads the clock once, and splits CSV queries.                *)
Begin(c) ==
  /\ pc[c] = "idle"
  /\ \E q \in Query :
       LET s == SplitNowQuery(q.flux, SplitCutoff(now)) IN
       /\ q.flaw = "none"
       /\ query' = [query EXCEPT ![c] = q]
       /\ split' = [split EXCEPT ![c] = IF s.ok /\ q.csv
                                          THEN s ELSE NotSplit(q.flux)]
  /\ began' = [began EXCEPT ![c] = now]
  /\ pc' = [pc EXCEPT ![c] = "fetch"]
  /\ UNCHANGED <<now, writtenAt, answer, rows, status, ended>>

(* fetchOrCache on the cached segment, or on the whole query when it is not *)
(* split, came back with 2xx and these rows.                                *)
Fetched(c, result) ==
  IF split[c].ok
    THEN /\ pc' = [pc EXCEPT ![c] = "live"]
         /\ rows' = [rows EXCEPT ![c] = result]
         /\ UNCHANGED <<status, ended>>
    ELSE Respond(c, "2xx", result)

(* The bodies that have been handed to fetchOrCache.                        *)
Sent == {split[c].cached : c \in {d \in Call : pc[d] # "idle" /\ began[d] # 0}}

FetchAnswered(c) ==
  /\ pc[c] = "fetch"
  /\ \E b \in Sent, t \in 1..now :
       /\ CacheKey(b) = CacheKey(split[c].cached)
       /\ ValidRange(b, t)
       /\ Fetch!Give(c, t)
       /\ Fetched(c, Evaluate(b, t))
  /\ UNCHANGED <<now, writtenAt, query, began, split>>

(* An error of fetchOrCache is a 502, a status other than 2xx is passed on. *)
FetchFails(c) ==
  /\ pc[c] = "fetch"
  /\ Fetch!Fail(c)
  /\ \/ Faults /\ Respond(c, "502", {})
     \/ /\ Faults \/ ~ValidRange(split[c].cached, now)
        /\ Respond(c, "upstream", {})
  /\ UNCHANGED <<now, writtenAt, query, began, split>>

(* forward on the live segment, then MergeCSV and the response.             *)
BugLive(c) ==
  LET b == [split[c].live EXCEPT !.start = Abs(SplitCutoff(now))] IN
  /\ pc[c] = "live"
  /\ ValidRange(b, now)
  /\ Respond(c, "2xx", rows[c] \cup Evaluate(b, now))
  /\ UNCHANGED <<now, writtenAt, query, began, split, answer>>

Live(c) ==
  /\ pc[c] = "live"
  /\ ValidRange(split[c].live, now)
  /\ Respond(c, "2xx", rows[c] \cup Evaluate(split[c].live, now))
  /\ UNCHANGED <<now, writtenAt, query, began, split, answer>>

LiveFails(c) ==
  /\ pc[c] = "live"
  /\ \/ Faults /\ Respond(c, "502", {})
     \/ /\ Faults \/ ~ValidRange(split[c].live, now)
        /\ Respond(c, "upstream", {})
  /\ UNCHANGED <<now, writtenAt, query, began, split, answer>>

HandleQuery(c) ==
  \/ Reject(c) \/ Begin(c) \/ FetchAnswered(c) \/ FetchFails(c)
  \/ Live(c) \/ LiveFails(c)

-----------------------------------------------------------------------------
(* Writers add points, on time or late.                                     *)
Write(p) ==
  /\ writtenAt[p] = 0
  /\ p <= now
  /\ writtenAt' = [writtenAt EXCEPT ![p] = now]
  /\ UNCHANGED <<now, pc, query, began, split, answer, rows, status, ended>>

Tick ==
  /\ now < MaxTime
  /\ now' = now + 1
  /\ UNCHANGED <<writtenAt, pc, query, began, split, answer, rows, status,
                 ended>>

Next ==
  \/ \E c \in Call : HandleQuery(c)
  \/ \E p \in Point : Write(p)
  \/ Tick

Spec == Init /\ [][Next]_vars

-----------------------------------------------------------------------------
SplitRecord == [ok: BOOLEAN, cached: Body, live: Body]

TypeOK ==
  /\ now \in Nat
  /\ writtenAt \in [Point -> Nat]
  /\ pc \in [Call -> {"idle", "fetch", "live", "done"}]
  /\ query \in [Call -> Query \cup {NoQuery}]
  /\ began \in [Call -> Nat]
  /\ split \in [Call -> SplitRecord]
  /\ answer \in [Call -> [state: {"pending", "failed", "given"}, at: Nat]]
  /\ rows \in [Call -> SUBSET Point]
  /\ status \in [Call -> {"none", "2xx", "400", "401", "405", "502",
                          "upstream"}]
  /\ ended \in [Call -> Nat]

Answered(c) == pc[c] = "done" /\ status[c] = "2xx"

(* The answer to a query lacks nothing that the targets would have returned *)
(* MaxAge before it began: neither the rewriting of the range, nor sharing  *)
(* cached segments between calls, nor the time between the two fetches      *)
(* loses a row (split.go:21-57, server.go:156-236).                         *)
NothingLost ==
  \A c \in Call : Answered(c) =>
    LET b == query[c].flux
        then == began[c] - MaxAge
    IN \A p \in Point :
         /\ writtenAt[p] # 0 /\ writtenAt[p] <= then
         /\ Value(b.start, ended[c]) <= p /\ p < Value(b.stop, then)
         => p \in rows[c]

(* Of the freshness window a split answer lacks nothing at all that was     *)
(* written before the call began, however old the cached segment is         *)
(* (utils.go:52-58, server.go:205-224).                                     *)
LiveTailFresh ==
  \A c \in Call : Answered(c) /\ split[c].ok =>
    LET b == query[c].flux IN
    \A p \in Point :
      /\ writtenAt[p] # 0 /\ writtenAt[p] < began[c]
      /\ SplitCutoff(began[c]) <= p
      /\ Value(b.start, ended[c]) <= p /\ p < Value(b.stop, began[c])
      => p \in rows[c]

(* Calls for the same range, or for absolute ranges of the same length,     *)
(* that begin in one freshness window use one cache entry: moving dashboard *)
(* windows hit the cache (utils.go:56, split.go:38-44).                     *)
SameWindow(b, d) ==
  \/ b = d
  \/ /\ {b.start.kind, b.stop.kind, d.start.kind, d.stop.kind} = {"abs"}
     /\ b.stop.t - b.start.t > 0
     /\ b.stop.t - b.start.t = d.stop.t - d.start.t

WindowSharesSegment ==
  \A c, d \in Call :
    /\ split[c].ok /\ split[d].ok
    /\ SameWindow(query[c].flux, query[d].flux)
    /\ began[c] \div FreshnessWindow = began[d] \div FreshnessWindow
    => CacheKey(split[c].cached) = CacheKey(split[d].cached)

=============================================================================
