# Verification of influx-bouncer

TLA+ modules, TLC configurations and TLAPS proofs for the read gateway in this
repository. Paths below are relative to the repository root.

## The system

The gateway takes Flux queries (`POST /api/v2/query`) and proxied reads
(`/api/v2/...`), answers them from N identical InfluxDB targets, and caches
query answers in Redis. Replicas share only Redis.

| Component | State | Operations | Talks to |
|---|---|---|---|
| Upstream manager (`internal/upstream/manager.go`) | per target name: consecutive failures and the instant its circuit is open until, behind an RWMutex; an atomic round-robin counter | `PickTarget`, `RecordSuccess`, `RecordFailure`, `healthLoop` | called by the retry loops; probes the targets |
| Retry loops (`forward`, `forwardRead` in `internal/gateway/server.go`) | attempts made, names tried, last error | one attempt per iteration | manager, targets |
| Response cache (`internal/cache/service.go`, `fetchOrCache`) | Redis: `<key>` with a jittered time to live, `<key>:lock` with `CacheLockTTL` | GET, SETNX, poll until `CacheLockWait`, SET, DEL | Redis, `forward` |
| Query handler (`handleQuery`) | per request | checks, split, two fetches, merge | `fetchOrCache`, `forward`, `internal/flux` |
| now() split (`internal/flux/split.go`, `utils.go`) | none | `SplitCutoff`, `SplitNowQuery` | |
| CSV merge (`internal/flux/merge.go`) | none | `MergeCSV` | |
| Read proxy, `/health`, `/ready` | none | method and token checks | `forwardRead`, Redis `PING` |
| Configuration (`internal/config/config.go`) | read once | `LoadConfig` (weights below 1 become 1) | |
| Load generator (`cmd/loadgen`) | job channel, first error, byte counter | `planJobs`, workers, `writeBatchToAll` with retries | targets |
| Query benchmark (`cmd/querybench`) | deadline, results channel, aggregate | warm-up, workers, aggregator, report | gateway |
| Metrics, telemetry, start-up, deployment | | | |

What is hard about it: callers scan the breakers under a read lock but draw
their ticket and record their outcome later, so every outcome is recorded on a
state that has moved on; the cache protocol is four separate Redis commands
with a lock that can expire under its holder and a release that checks no
owner; gateways crash and clients go away between any two steps; a split query
is answered from two evaluations at different times, one of them cached, whose
lines are then merged by an unstable sort; the load generator writes every batch
to several targets that may each fail, or apply a write after it was reported
failed; the tools' goroutines meet in bounded channels that others close.
`PROJECT.json` lists the hazards at their lines with the properties aimed at
them.

What makes each part correct:

* manager and retry loops: a call always finds a target, fails only after its
  attempts or the targets are used up, charges a target once; a circuit is open
  for at most one cooldown, closes once its targets recover, and is not opened
  over healthy targets by fewer than `BreakerFailures` abandoned calls; load
  follows the weights;
* response cache: a key has one holder, and one more at most for each lock that
  was dropped under its holder; the lock is given back on every path; the cache
  goes back only where a lock was dropped, and by one tenure at most; nothing
  outlives its time to live, every call ends;
* query handler: an answer loses no row the cache's age does not excuse and
  none of the live tail; queries in one freshness window share a cache entry;
* CSV merge: every row of both segments once, in time order where the responses
  agree on the header, and readable as a table again;
* load generator: a load that completes leaves the targets identical and reports
  the bytes they hold; otherwise they differ by one batch per worker at most;
* query benchmark: every timed request is reported once, percentiles are
  nearest ranks, and both tools always end.

## Modules

| Module | Models | Checked by |
|---|---|---|
| `WeightedTargets` | `cfg.Targets`, weights, candidate list, ticket | (extended below) |
| `RoundRobin` | tickets drawn from changing lists, with a history of picks | `MCRoundRobin` |
| `Upstream` | manager + retry loops + health loop, targets and clients as environment | `MCUpstream` |
| `ResponseCache` | `fetchOrCache` + `cache.Service` + Redis | `MCResponseCache` |
| `FetchContract` | what `fetchOrCache` promises: an answer less than `MaxAge` old, once, or a failure | refined by `ResponseCache`, used by `QueryPath` |
| `QueryPath` | `handleQuery` + `SplitCutoff` + `SplitNowQuery` on top of `FetchContract` | `MCQueryPath` |
| `MergeCSV` | `MergeCSV` + `parseCSVResponse` | `MCMergeCSV` |
| `Loadgen` | `cmd/loadgen`: planner, workers, fan-out, retries, targets | `MCLoadgen` |
| `QueryBench` | `cmd/querybench`: warm-up, workers, aggregator, report | `MCQueryBench` |
| `Sums` | the sum of a function, by counting units | (extended by `RoundRobin`, `Loadgen`, `QueryBench`) |
| `SumsProofs` | facts on sums, finite sets and least elements | tlapm |
| `UpstreamProofs`, `RoundRobinProofs`, `ResponseCacheProofs`, `QueryPathProofs`, `MergeCSVProofs`, `LoadgenProofs`, `QueryBenchProofs` | theorems, a module for each of the above | tlapm |

**Upstream.** A call of `forward` or `forwardRead` is a process; an iteration
of its loop is five steps, cut where another goroutine can come in: `ReadClock`
(PickTarget reads `time.Now()` before it locks), `Scan` (under the read lock),
`Take` (the atomic ticket, after the unlock, and the `tried` entry), `Answer`
(the exchange) and `RecordAnswer` (under the write lock, with the return or the
next iteration). The list that PickTarget builds is a set of slots, `Weight(k)`
per target in configuration order; the ticket selects the slot with that many
slots before it. `HealthLoop` probes one target after the other. Targets break
and recover (`Break`, `Repair`), requests are abandoned (`Cancel`) at any time.
`faulted` is history.

**ResponseCache.** A call of `fetchOrCache` is a process, one step per Redis
command or exchange: `Get`, `LockAcquired`/`LockBusy`/`LockFailed`,
`WaitForLock` (`PollHit`, `PollFailed`, `WaitTimeout`), `ForwardOnly`
(no lock) or `ForwardLocked`, `Set`, `Release`.
`since` is when SETNX answered; it gives both the deadline of the wait and the
start of a tenure. Redis keys expire by the clock. `RedisFaults` switches on
outages, lost replies (the client library sends a command again) and lost keys;
crashes and abandoned requests are always on. `HoldMax` bounds a live call's
tenure: every attempt has a client timeout. In the shipped configuration this
bound (60 s per attempt, two attempts) is far above `CacheLockTTL` (5 s), and
the runs keep it so: locks expire under live holders, and DEL removes whoever's
lock there is. `unlocked` is history: the calls under which Redis dropped the
lock (it expired, was lost, or went with a DEL whose reply was lost), forgotten
when a key has no holder left. The lock's properties are stated against it.

**FetchContract and the composition.** `FetchContract` knows only the clock and
the answer each call was given: `Give` hands over an evaluation less than
`MaxAge` old, `Fail` a failure, each call at most once. `ResponseCache`
implements it with `MaxAge = HoldMax + CacheTTL + CacheTTLJitter` and the
answer read off a finished call (`Handed`); `KeepsContract` states it, a run
checks it and `ImplementsContract` proves it. `QueryPath` takes the contract's
actions as its `fetchOrCache`, so what it shows holds for any number of calls
and any faults below it.

**QueryPath.** A query is its range; points are timestamps, written on time or
late. `Begin` reads the clock once and splits; `FetchAnswered` returns the rows
of an evaluation the contract allows, of any body that was sent with the same
cache key; `Live` fetches the second segment and merges. `Value`, `Within` and
`ValidRange` say what a Flux range means and that an empty one is refused; they
are external. Rows are a set here; `MergeCSV` is about how they are merged. What
follows the range in a query is left out: the rows are those the range selects.
For aggregates that cannot be put together from two parts of a range, such as
the `count()` of `internal/flux/split_test.go:41` or the window means of the
benchmark's default query, the properties say nothing: the merge gives one row
for each part.

**MergeCSV.** One step per line read (`ParseLine`), per row compared (`Dedup`),
per row put in its place (`Sort`), and one for writing (`Emit`). A line is its
cells, of which only the label `_time` and readable times matter, and its
carriage return: `TrimSpace` removes the one at the end of the body only.
`sort.Slice` may give any order of the rows that is ascending in time: `Sort`
leaves any one of the earliest remaining rows at the next position, which
reaches all of them. `Headers` and `Rows` are the reference the result is
compared with: the first text line, and the text lines after it. `OrderedTable`
asks that the segments agree on the header, line ends aside; `ReadsBack` leaves
out a header that is a line with only a carriage return, which `TrimSpace`
removes when the annotations before it are lost and it comes to stand first.

**Loadgen.** Job numbers are consecutive, so the channel is the interval between
`taken` and `planned`. A batch is its job and a draw, because points carry
`time.Now()` and generating one twice gives another batch. Each goroutine of
`writeBatchToAll` is a step (`WriteBatch`); a write that gets no 204 may have
happened, may happen later (`LateWrite`) or never. `GiveUp` and `StoreErr` are
separate: `firstErr` is loaded and then stored. When `main` ends, `planJobs`
may still be blocked on the channel; the process takes it down.

**QueryBench.** Each worker checks the deadline, sends a request and puts its
result in the channel in three steps; the aggregator takes them; `main` waits
for the workers, closes the channel, waits for the aggregator and reports.
`answered` and `overtime` are history; sums over them are counts (`Sums`).
`sort.Float64s` is an order of the positions in which the latencies ascend
(`Sorted`). The counter `sent` is never read and is
left out. Floating point is replaced by integers: `ceil(p/100*n)` is exact for
the four ranks used for every n up to 3 million (computed), and a rate of
exactly 1% is not above 1.0.

Definitions whose names start with `Bug` are mutated forms of the definition
that follows, the ones `PROJECT.json` lists under `mutants`; nothing else uses
them.

## Runs

| Run | Instance | Shows |
|---|---|---|
| `round_robin` | 3 targets of weights 3, 0 (raised to 1) and 2, counter of 16, every starting value | shares follow weights within a list; counting starts again when the list changes or the counter wraps |
| `upstream_routing` | 3 targets under 2 names, a query and a proxied read, 3 attempts, threshold 2, cooldown 2, time to 4, counter of 4 | abandoned calls, breakers and exhaustion |
| `upstream_recovery` | 2 targets, 1 call, health loop on, fair | bounded breakers, always a target, recovery, termination |
| `cache_exclusion` | 4 calls (one bypasses), 1 key, tenure 2 > lock time 1, time to 3 | bounded number of holders, release, bounded regress |
| `cache_liveness` | 2 calls, all faults, tenure not below lock time, fair, jitter above the time to live | every call ends, staleness and holders bounded whatever fails |
| `query_rows` | 2 calls, every form of range, two absolute ranges of one length, a point, window 2, answers younger than 2, time to 6 | nothing lost, fresh tail, shared segments |
| `merge_csv` | every pair of 49 responses: empty, one or two tables, each with up to 2 rows, with annotations, short rows, other columns, blank lines, `\n` or `\r\n` | rows kept, ordered, read back; the merge always ends |
| `loadgen` | 2 workers, 2 targets, 4 jobs (the last one short), channel of 1, 1 retry, a retryable and a final error, fair | identical targets, bounded divergence, bytes, termination |
| `querybench` | 2 workers, 4 timed requests, 1 warm-up, channel of 1, answers that succeed fast, slowly, with and without headers, or fail, fair | complete report, overtime, percentiles, termination |

`cache_liveness` also checks the refinement of `FetchContract`.

Runs expected to be violated, each a disagreement between the code and what
the repository says of it (`findings` in `PROJECT.json`):

| Run | Statement refuted |
|---|---|
| `cache_one_miss` | at most one MISS per refresh window (`README.md:60`) |
| `cache_format` | Arrow pass-through with cache (`README.md:132`) |
| `query_range` | the cache signature avoids cross-range collisions (`server.go:192`) |

Differences met while modelling that need no run, since they can be read off one
definition:

* `docs/query-rewrite-and-merge.md:4` says only `stop: now()` is split;
  `split.go:27-33` also splits `v.timeRangeStop` and absolute stops after the
  cutoff (`Splits`).
* `docs/query-rewrite-and-merge.md:39-40` promise the upstream's status when a
  segment fails; `forward` moves on from a 5xx while attempts are left, and when
  no untried target exists the status becomes a 502 (`RecordAnswer`, `Return`).
* `docs/query-rewrite-and-merge.md:33-34` have one lock holder fill the cache;
  with `CacheLockTTL` at 5 s and up to 60 s per attempt the lock expires under
  its holder and nothing renews it. `BoundedStampede` says how many holders
  there can be then.
* `LoadConfig` accepts a `CACHE_TTL_SECONDS` of zero; without jitter Redis then
  stores entries that never expire (`service.go:103`). `CacheAssumption` leaves
  this out.
* A query that starts inside the freshness window becomes a cached segment whose
  start is not before its stop (`SplitNowQuery`); the targets refuse it.
* The merged body is sent with the live segment's headers (`server.go:225`). If
  a target sent Content-Length, the longer body would not fit it.
* `MergeCSV` takes the headers of further tables, and lines that hold only a
  carriage return, for rows of 1970 and sorts them to the front; rows of the
  live segment stand under the cached segment's header even when its columns
  differ (`Read`, `RowTime`; `OrderedTable` therefore goes by the `_time` column
  of the result's header and assumes that both segments have that header).
* The load generator's `-seed` is described as deterministic
  (`cmd/loadgen/main.go:62`), but points carry the time they were made.
* The benchmark checks its thresholds only if a request succeeded: when all fail
  it exits with 0 (`Exceeded`). A 2xx answer whose body breaks off counts as a
  success.

**Bounds.** `MaxTime` bounds the clock, `MaxServed` the tickets drawn from one
list, `CounterRange` stands for 2^64. Two calls are enough for every race of two
callers on one breaker with a threshold of 2, and two targets for one retry
elsewhere. A third holder of a lock is what an owner-blind DEL lets in, so
`cache_exclusion` has three contenders: all three hold the key at once, a holder
is robbed of its lock by another's DEL, and an entry is replaced by an older
one. In `upstream_routing` there are more attempts than names, so calls run out
of targets, and one name stands for two. In `query_rows` the clock crosses three
window boundaries, so segments are cached, shared, outdated and cut at different
cutoffs, and two different windows of one length share a segment; the properties
speak of one point at a time and no operation relates two, so one is enough, and
it lies on either side of a cutoff. In `loadgen` a worker writes a second and a
third batch while the other one is still retrying, and the planner blocks. In
`querybench` both workers block on the channel around the deadline;
`MaxRequests` bounds the timed requests, and two of four samples make the 50th
percentile fall between ranks. Calls are interchangeable where the
configurations use symmetry. Runs whose calls or processes all finish have
nothing left to do, so their configurations switch the deadlock check off;
`upstream_*` and `merge_csv` keep it.

**Fairness.** `Upstream!FairSpec`: each call and the health loop keep taking
steps that are enabled (the Go scheduler, the HTTP client's timeout and the
probe's three seconds); nothing is assumed of targets, clients or the clock.
`ResponseCache!FairSpec`: each call keeps taking steps and time passes; Redis
need not come back, and a wait may not count on a poll that fails.
`Loadgen!FairSpec` and `QueryBench!FairSpec`: every goroutine that can go on
does (the Go scheduler; the HTTP clients' 30 s timeouts end each exchange), and
the benchmark's timer fires; nothing is assumed of what targets or gateway
answer.

## Proofs

Every invariant, every action property and the refinement that the passing runs
check is also proved, for every value of the constants. What a proof assumes of
the constants is listed at the end of this section.

**Upstream.** `UpstreamTypeCorrect`, `BreakerIsBounded` and `AlwaysFindsATarget`
hold for every list of targets, any weights, any number of calls and any
configuration. The inductive invariant `UpstreamInv` adds that outcomes are
recorded for existing targets (`TargetSet`) and that a call without an answer
has tried nothing (`FirstPick`): a first scan then has all targets as fallback,
and each has a slot because weights are at least 1. `FailsExhausted` adds
`Tallies`: a call holds one name in `tried` for each attempt, because a scan
finds only names outside it, and has attempts left until it returns.
`OpensOnlyByCancel` adds `Blame`: while the targets of a name were never
unhealthy, its failure count is at most the number of abandoned calls that are
done with their attempt at it (`Charged`). A call enters that set once, when
`RecordFailure` counts it, so the threshold needs as many calls.

**RoundRobin.** `RoundTypeCorrect` and `RoundShares` hold for any targets,
weights, counter range and bound on tickets. The invariant `Shared` says what
has been served since the list changed: d full turns and the way from the
position b where counting began to the position r of the counter, target by
target (`Through` counts the slots of a target up to a position). A ticket moves
r by one, and past the end of the list turns into one turn more;
`ShareFollows` reads the bounds off it. A wrap of the counter moves the position
and starts the count again, as in the model.

**ResponseCache.** `TypeCorrect` and `StalenessBounded` hold with every fault,
from `StaleInv`: a live holder is within its tenure, what it is about to store
was computed in it, and entries expire accordingly. `HoldersBounded` and
`RegressBounded` also hold with every fault, for tenures of any length, from
`HolderInv`. Of the holders of a key one may own its lock, some have lost theirs
to Redis (`unlocked`), and the rest were robbed: another call's DEL removed
their lock (`Robbed`). The bound is not inductive by itself, because a call that
was robbed robs the next one when it releases. `RobbedBound` says that no more
holders are robbed than calls that lost their lock have left (`Gone`): a call
that robs was either robbed itself, and leaves, or had lost its lock, and is
then gone; an owner deletes its own. `Shape` is what any step does to these
sets, and `Exchange` the fact on cardinalities it comes down to. Where no lock
was dropped nobody is robbed, so every holder owns the lock and the entry it
will replace is older than its tenure (`EntryBeforeTenure`): only elsewhere can
the cache go back, and a tenure bounds by how much. `LockReleased` assumes that
Redis answers (`RedisFaults` has lost keys at most) and nothing of tenures.
`LeakInv` says that locks belong to calls for their key, so the DEL of an owner
removes its own. `ImplementsContract` proves the refinement with every fault.
`ContractInv` adds to `StaleInv` that a call has a payload only from the step
that ends it or from its own fetch (`EmptyHanded`), so that each step is a
`Give`, a `Fail`, a `Tick` or a stutter; what a hit hands over is young by
`BoundedStaleness` (`HitIsYoung`), what a holder hands over by its tenure.

**QueryPath.** `QueryTypeCorrect`, `AnswersComplete`, `TailAlwaysFresh` and
`WindowsShare` hold for any ranges, points, calls and times, on top of the
contract. `QueryInv` says that a call's two bodies are the split of its own
query at its own cutoff (`SplitKept`), and that between the two fetches it holds
every row before the cutoff that was written `MaxAge` before it began
(`CachedRows`): calls with equal keys sent equal bodies, the cached segment
reaches at least as far back as the range asked for (`CachedReachesBack`), and
relative starts only move forward (`ValueMonotone`). `WindowsShare` assumes a
positive freshness window; without one the code cuts at the instant of the call
and there is no window to share.

**MergeCSV.** `MergeTypeCorrect`, `MergeKeepsRows`, `MergeOrdersRows` and
`MergeReadsBack` hold for any two responses of any length. `MergeInv` has one
part per loop: what the lines read so far parse to (`ParseInv`), that `merged`
has each of the rows compared so far once (`Chosen`), that the sorted part is
ascending and nothing after it is earlier (`SortedTo`). `MergeReadsBack` follows
the output through `Lines` again: only its last line loses a carriage return,
and blank lines at its end are only those of rows that are blank.

**Loadgen.** `LoadTypeCorrect`, `LoadIdentical`, `DivergenceBounded` and
`BytesAreReported` hold for any workers, targets, sizes and errors. `LoadInv`
says where every stored or late batch comes from (`AllAccounted`: it is on every
target, or some worker is writing it), that a job is taken once and has one
batch (`OwnJob`, `JobTaken`, `OneBatch`), that a taken job is held by a worker,
stored everywhere or given up (`NoJobLost`), and that a worker that returned
with a batch in hand left `firstErr` set (`Locals`, `Reported`), so that
`complete` means nobody did. `BytesAreReported` adds that `bytesSent` is the sum
over the batches no worker holds any more (`BytesCounted`) and that no job is
empty (`NoEmptyJob`); the sizes of all jobs add up to `TotalBytes` at least
(`JobSizes`).

**QueryBench.** `BenchTypeCorrect`, `BenchOvertime`, `BenchReports` and
`BenchPercentiles` hold for any workers, answers, requests and channel.
`Overtime`: after the deadline, requests answered late and requests still out
together are at most the workers, since nobody starts another. `Counted`: each
counter of the report holds what the gateway returned of its kind, less what
waits in the channel or with a sender; `Phases` says both are empty once `main`
reports. `BenchPercentiles` shows that an ascending order of any latencies
exists, that the element at the rounded up rank has enough below it and nothing
smaller does, and that the exit status was decided on the same aggregate
(`Verdict`).

**How induction is done.** The library's induction theorems take an operator and
cannot be used here. Where an argument needs induction (sums, the sizes of jobs,
the existence of an ascending order) it goes by contradiction instead: the set
of numbers at which the fact fails, if not empty, has a least member (`Least`,
from the well-foundedness of the order on Nat), and the fact carries over from
its predecessor. `Sums` defines a sum as a number of units for the same reason:
a cardinality can be reasoned about with the library's facts, a fold cannot.

**Assumptions on constants.** `TargetsAssumption` (at least one target, as
`LoadConfig` demands), `ConfigAssumption`, `ServedAssumption` (the bound on
tickets is a number), `CacheAssumption` (times to live of at least a second:
Redis treats zero as no expiry, and `LoadConfig` does not refuse it),
`QueryAssumption`, `MergeAssumption` (responses are sequences of lines),
`LoadAssumption`, `BenchAssumption`; and the hypotheses of single theorems named
above.

**Only model-checked.** Liveness: `RecoveredCloses`, `CallsReturn`, `CallsEnd`,
`LoadEnds` and `BenchEnds`. They need reasoning about fairness and ENABLED,
which this prover does not do.

## Plan

1. Done: `Upstream`, `RoundRobin`, `ResponseCache`, `QueryPath`, `MergeCSV`,
   `Loadgen`, `QueryBench`, their runs, `FetchContract` with its refinement, and
   theorems for all of their safety properties.
2. Next: the safety half of the liveness properties, that is invariants from
   which it can be read off that no state before the end is stuck (a worker
   blocked on a channel always has somebody to take from it).

## Not modelled

Metrics, tracing, logs and the tools' progress reports (nothing reads them
back), what a generated point contains, the HTTP headers and tokens sent
upstream, JSON bodies (the rewritten query is put back in place of the
original), parsing of the environment, start-up (no shutdown protocol),
manifests and scripts. A Redis error other than a miss fails the query with 502;
that is the code's choice and only its termination is stated.
