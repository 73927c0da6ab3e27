--------------------------- MODULE ResponseCache ----------------------------
(***************************************************************************)
(* The read path around the Redis cache: fetchOrCache in                   *)
(* internal/gateway/server.go with the operations of cache.Service         *)
(* (internal/cache/service.go).                                            *)
(*                                                                         *)
(* Every call of fetchOrCache is a process, of any replica of the gateway; *)
(* they share only Redis.  A Redis command is one atomic step.  Between    *)
(* two steps of a call other calls run, time passes, the client may        *)
(* abandon the request and the gateway may crash.  The exchange with the   *)
(* targets (module Upstream) is one step here: a 2xx payload, another      *)
(* status, or an error.                                                    *)
(***************************************************************************)
EXTENDS Integers, FiniteSets

CONSTANTS
  Request,         \* calls of fetchOrCache
  Key,             \* cache keys
  KeyOf,           \* cache.Key(org, cacheSig) of every call
  AcceptOf,        \* the format its Accept header asks for
  NoOne,           \* owner of a lock that does not exist
  CacheTTL, CacheTTLJitter, CacheLockTTL, CacheLockWait,
  HoldMax,         \* longest time from SETNX to DEL for a call that lives
  RedisFaults,     \* which faults of Redis this instance includes
  MaxTime          \* bound on the clock, except while a call waits

(* An absent Accept header counts as "csv"; "other" names neither format.   *)
Format == {"csv", "arrow", "other"}

ASSUME CacheAssumption ==
  /\ KeyOf \in [Request -> Key]
  /\ AcceptOf \in [Request -> Format]
  /\ NoOne \notin Request
  /\ CacheTTL \in Nat \ {0}
  /\ CacheTTLJitter \in Nat
  /\ CacheLockTTL \in Nat \ {0}
  /\ CacheLockWait \in Nat
  /\ HoldMax \in Nat
  /\ RedisFaults \subseteq {"outage", "replyLoss", "dataLoss"}
  /\ MaxTime \in Nat

VARIABLES
  now,       \* the clock, in seconds
  entry,     \* Redis: the cached payload of every key and when it expires
  lock,      \* Redis: <key>:lock, its owner and when it expires
  redisUp,   \* Redis answers
  pc,        \* where a call is
  since,     \* when SETNX answered a call that waits or holds the lock
  payload,   \* the 2xx payload a call has, and the time it was computed
  source,    \* the X-Cache value a call returns, or "error"
  cancelled, \* running calls whose request context has been cancelled
  unlocked   \* history: calls that held a key when their lock expired or
             \* Redis lost it, since the key was last without a holder

redis == <<entry, lock, redisUp>>
vars == <<now, redis, pc, since, payload, source, cancelled, unlocked>>

NoPayload == [format |-> "none", at |-> 0]
NoEntry == [val |-> NoPayload, expires |-> 0]
NoLock == [owner |-> NoOne, expires |-> 0]

(* Redis drops a key when its time to live has passed.                      *)
Live(e) == now < e.expires

(* A command fails when Redis is down or its replies stay lost, and with    *)
(* the request's context also when that is cancelled (a command already     *)
(* sent may still succeed).                                                 *)
RedisFails == ~redisUp \/ "replyLoss" \in RedisFaults
MayFail(r) == RedisFails \/ r \in cancelled

Goto(r, next) == pc' = [pc EXCEPT ![r] = next]

(* A call that holds its key's lock, as far as it knows, and one that does. *)
Holder(r) == pc[r] \in {"fill", "set", "release"}
Owns(r) ==
  Holder(r) /\ lock[KeyOf[r]].owner = r /\ Live(lock[KeyOf[r]])

(* History: a call stops holding its key.                                   *)
Leave(r) ==
  unlocked' = IF \E q \in Request \ {r} : Holder(q) /\ KeyOf[q] = KeyOf[r]
                THEN unlocked
                ELSE {q \in unlocked : KeyOf[q] # KeyOf[r]}

Cacheable(accept) == accept \in {"csv", "arrow"}

(* The Content-Type a call puts on a payload that came from the cache.      *)
DefaultCachedHeader(accept) == IF accept = "arrow" THEN "arrow" ELSE "csv"

(* The times to live Set may draw, never below one second.                  *)
BugJitteredTTL == CacheTTL..(CacheTTL + 2 * CacheTTLJitter)
BugUnclampedTTL == (CacheTTL - CacheTTLJitter)..(CacheTTL + CacheTTLJitter)

JitteredTTL ==
  IF CacheTTLJitter <= 0
    THEN {CacheTTL}
    ELSE {IF CacheTTL + d < 1 THEN 1 ELSE CacheTTL + d :
            d \in (-CacheTTLJitter)..CacheTTLJitter}

-----------------------------------------------------------------------------
Init ==
  /\ now = 1
  /\ entry = [k \in Key |-> NoEntry]
  /\ lock = [k \in Key |-> NoLock]
  /\ redisUp = TRUE
  /\ pc = [r \in Request |-> "start"]
  /\ since = [r \in Request |-> 0]
  /\ payload = [r \in Request |-> NoPayload]
  /\ source = [r \in Request |-> "none"]
  /\ cancelled = {} /\ unlocked = {}

Return(r, src) ==
  /\ Goto(r, "done")
  /\ source' = [source EXCEPT ![r] = src]
  /\ since' = [since EXCEPT ![r] = 0]
  /\ cancelled' = cancelled \ {r}

(* A payload found in the cache ends the call.                              *)
ReturnCached(r, src) ==
  /\ payload' = [payload EXCEPT ![r] = entry[KeyOf[r]].val]
  /\ Return(r, src)

Bypass(r) ==
  /\ pc[r] = "start"
  /\ ~Cacheable(AcceptOf[r])
  /\ Goto(r, "forward")
  /\ UNCHANGED <<now, redis, since, payload, source, cancelled, unlocked>>

(* cache.Get: a hit, redis.Nil, or an error that ends the call.             *)
Get(r) ==
  /\ pc[r] = "start"
  /\ Cacheable(AcceptOf[r])
  /\ \/ /\ redisUp /\ Live(entry[KeyOf[r]])
        /\ ReturnCached(r, "HIT")
     \/ /\ redisUp /\ ~Live(entry[KeyOf[r]])
        /\ Goto(r, "setnx")
        /\ UNCHANGED <<since, payload, source, cancelled>>
     \/ /\ MayFail(r)
        /\ Return(r, "error")
        /\ UNCHANGED payload
  /\ UNCHANGED <<now, redis, unlocked>>

(* cache.AcquireLock: SETNX <key>:lock with CacheLockTTL.  When the reply   *)
(* of a SETNX that took effect is lost, the client library sends it again   *)
(* and is refused by the call's own lock, or gives up with an error.        *)
BugLockAcquired(r) ==
  /\ pc[r] = "setnx"
  /\ redisUp
  /\ lock' = [lock EXCEPT ![KeyOf[r]] =
                [owner |-> r, expires |-> now + CacheLockTTL]]
  /\ Goto(r, "fill")
  /\ since' = [since EXCEPT ![r] = now]
  /\ UNCHANGED <<now, entry, redisUp, payload, source, cancelled, unlocked>>

LockAcquired(r) ==
  /\ pc[r] = "setnx"
  /\ redisUp /\ ~Live(lock[KeyOf[r]])
  /\ lock' = [lock EXCEPT ![KeyOf[r]] =
                [owner |-> r, expires |-> now + CacheLockTTL]]
  /\ \/ /\ \/ Goto(r, "fill")
           \/ "replyLoss" \in RedisFaults /\ Goto(r, "wait")
        /\ since' = [since EXCEPT ![r] = now]
        /\ UNCHANGED <<source, cancelled>>
     \/ "replyLoss" \in RedisFaults /\ Return(r, "error")
  /\ UNCHANGED <<now, entry, redisUp, payload, unlocked>>

LockBusy(r) ==
  /\ pc[r] = "setnx"
  /\ redisUp /\ Live(lock[KeyOf[r]])
  /\ Goto(r, "wait")
  /\ since' = [since EXCEPT ![r] = now]
  /\ UNCHANGED <<now, redis, payload, source, cancelled, unlocked>>

LockFailed(r) ==
  /\ pc[r] = "setnx"
  /\ MayFail(r)
  /\ Return(r, "error")
  /\ UNCHANGED <<now, redis, payload, unlocked>>

AcquireLock(r) == LockAcquired(r) \/ LockBusy(r) \/ LockFailed(r)

(* cache.WaitForLock polls the payload key until its deadline; a poll that  *)
(* finds nothing sleeps and polls again.  On an error, as on a timeout, the *)
(* call goes to the targets itself, without the lock.                       *)
WaitUntil(r) == since[r] + CacheLockWait

StopWaiting(r) ==
  /\ Goto(r, "forward")
  /\ since' = [since EXCEPT ![r] = 0]
  /\ UNCHANGED <<now, redis, payload, source, cancelled, unlocked>>

PollHit(r) ==
  /\ pc[r] = "wait" /\ now < WaitUntil(r)
  /\ redisUp /\ Live(entry[KeyOf[r]])
  /\ ReturnCached(r, "HIT_WAIT")
  /\ UNCHANGED <<now, redis, unlocked>>

PollFailed(r) ==
  /\ pc[r] = "wait" /\ now < WaitUntil(r)
  /\ MayFail(r)
  /\ StopWaiting(r)

BugWaitTimeout(r) ==
  /\ pc[r] = "wait" /\ now >= WaitUntil(r)
  /\ r \in cancelled
  /\ StopWaiting(r)

WaitTimeout(r) ==
  /\ pc[r] = "wait" /\ now >= WaitUntil(r)
  /\ StopWaiting(r)

WaitForLock(r) == PollHit(r) \/ PollFailed(r) \/ WaitTimeout(r)

(* What forward may return (module Upstream has its steps): a 2xx payload   *)
(* computed now, another status, or an error.                               *)
Outcomes == {"2xx", "non2xx", "error"}
PayloadOf(r, outcome) ==
  IF outcome = "2xx" THEN [format |-> AcceptOf[r], at |-> now] ELSE NoPayload

(* forward without the lock: nothing is cached.                             *)
BugForwardOnly(r) ==
  /\ pc[r] = "forward"
  /\ payload' = [payload EXCEPT ![r] = entry[KeyOf[r]].val]
  /\ Return(r, "MISS_RACE")
  /\ UNCHANGED <<now, redis, unlocked>>

ForwardOnly(r) ==
  /\ pc[r] = "forward"
  /\ \E o \in Outcomes :
       /\ payload' = [payload EXCEPT ![r] = PayloadOf(r, o)]
       /\ Return(r, IF o = "error" THEN "error"
                    ELSE IF Cacheable(AcceptOf[r]) THEN "MISS_RACE"
                    ELSE "BYPASS")
  /\ UNCHANGED <<now, redis, unlocked>>

(* forward with the lock.  A 2xx payload is cached first; the deferred      *)
(* release runs in every case.                                              *)
BugForwardLocked(r) ==
  /\ pc[r] = "fill"
  /\ \E o \in Outcomes :
       /\ payload' = [payload EXCEPT ![r] = PayloadOf(r, o)]
       /\ source' = [source EXCEPT ![r] = IF o = "error" THEN o ELSE "MISS"]
       /\ Goto(r, IF o = "error" THEN "done" ELSE "set")
  /\ UNCHANGED <<now, redis, since, cancelled, unlocked>>

ForwardLocked(r) ==
  /\ pc[r] = "fill"
  /\ \E o \in Outcomes :
       /\ payload' = [payload EXCEPT ![r] = PayloadOf(r, o)]
       /\ source' = [source EXCEPT ![r] = IF o = "error" THEN o ELSE "MISS"]
       /\ Goto(r, IF o = "2xx" THEN "set" ELSE "release")
  /\ UNCHANGED <<now, redis, since, cancelled, unlocked>>

(* cache.Set; its error is ignored, and sending it again changes nothing.   *)
Set(r) ==
  /\ pc[r] = "set"
  /\ \/ /\ redisUp
        /\ \E ttl \in JitteredTTL :
             entry' = [entry EXCEPT ![KeyOf[r]] =
                         [val |-> payload[r], expires |-> now + ttl]]
     \/ /\ MayFail(r)
        /\ UNCHANGED entry
  /\ Goto(r, "release")
  /\ UNCHANGED <<now, lock, redisUp, since, payload, source, cancelled,
                 unlocked>>

(* The deferred cache.ReleaseLock: DEL <key>:lock, whoever owns it, with a  *)
(* context of its own; its error is ignored.  After a lost reply it is sent *)
(* again and may then delete a lock taken in between.                       *)
Release(r) ==
  /\ pc[r] = "release"
  /\ \/ /\ redisUp
        /\ lock' = [lock EXCEPT ![KeyOf[r]] = NoLock]
        /\ \/ Return(r, source[r]) /\ Leave(r)
           \/ /\ "replyLoss" \in RedisFaults
              /\ unlocked' = unlocked \cup
                   {q \in Request : Owns(q) /\ KeyOf[q] = KeyOf[r]}
              /\ UNCHANGED <<pc, since, source, cancelled>>
     \/ /\ RedisFails
        /\ Return(r, source[r]) /\ Leave(r)
        /\ UNCHANGED lock
  /\ UNCHANGED <<now, entry, redisUp, payload>>

FetchOrCache(r) ==
  \/ Bypass(r) \/ Get(r) \/ AcquireLock(r) \/ WaitForLock(r)
  \/ ForwardOnly(r) \/ ForwardLocked(r) \/ Set(r) \/ Release(r)

-----------------------------------------------------------------------------
(* Time.  The client timeout of every attempt and the timeouts of the Redis *)
(* client bound how long a live call is between SETNX and DEL; HoldMax is   *)
(* that bound.                                                              *)
Tick ==
  /\ \/ now < MaxTime
     \/ \E r \in Request : pc[r] = "wait" /\ now < WaitUntil(r)
  /\ \A r \in Request : Holder(r) => now < since[r] + HoldMax
  /\ now' = now + 1
  /\ unlocked' = unlocked \cup
       {r \in Request : Owns(r) /\ lock[KeyOf[r]].expires <= now'}
  /\ UNCHANGED <<redis, pc, since, payload, source, cancelled>>

Cancel(r) ==
  /\ pc[r] \notin {"done", "dead"}
  /\ r \notin cancelled
  /\ cancelled' = cancelled \cup {r}
  /\ UNCHANGED <<now, redis, pc, since, payload, source, unlocked>>

(* The gateway process dies: its calls stop where they are and no deferred  *)
(* release runs.                                                            *)
Crash(r) ==
  /\ pc[r] \notin {"done", "dead"}
  /\ Goto(r, "dead")
  /\ since' = [since EXCEPT ![r] = 0]
  /\ payload' = [payload EXCEPT ![r] = NoPayload]
  /\ source' = [source EXCEPT ![r] = "none"]
  /\ cancelled' = cancelled \ {r}
  /\ Leave(r)
  /\ UNCHANGED <<now, redis>>

(* Redis: outages, and restarts that lose every key.                        *)
Outage ==
  /\ "outage" \in RedisFaults
  /\ redisUp' = ~redisUp
  /\ UNCHANGED <<now, entry, lock, pc, since, payload, source, cancelled,
                 unlocked>>

DataLoss ==
  /\ "dataLoss" \in RedisFaults
  /\ entry' = [k \in Key |-> NoEntry]
  /\ lock' = [k \in Key |-> NoLock]
  /\ unlocked' = unlocked \cup {r \in Request : Owns(r)}
  /\ UNCHANGED <<now, redisUp, pc, since, payload, source, cancelled>>

Next ==
  \/ \E r \in Request : FetchOrCache(r) \/ Cancel(r) \/ Crash(r)
  \/ Tick \/ Outage \/ DataLoss

Spec == Init /\ [][Next]_vars

(* Goroutines are scheduled, every exchange with Redis and the targets      *)
(* ends, and time passes.  Nothing is assumed of Redis coming back, nor of  *)
(* a poll ever failing.                                                     *)
Fairness ==
  /\ WF_vars(Tick)
  /\ \A r \in Request : WF_vars(FetchOrCache(r) /\ ~PollFailed(r))

FairSpec == Spec /\ Fairness

-----------------------------------------------------------------------------
Payload == [format: Format \cup {"none"}, at: Nat]

TypeOK ==
  /\ now \in Nat
  /\ entry \in [Key -> [val: Payload, expires: Nat]]
  /\ lock \in [Key -> [owner: Request \cup {NoOne}, expires: Nat]]
  /\ redisUp \in BOOLEAN
  /\ pc \in [Request -> {"start", "setnx", "wait", "forward", "fill", "set",
                         "release", "done", "dead"}]
  /\ since \in [Request -> Nat]
  /\ payload \in [Request -> Payload]
  /\ source \in [Request -> {"none", "BYPASS", "HIT", "HIT_WAIT", "MISS",
                             "MISS_RACE", "error"}]
  /\ cancelled \in SUBSET Request
  /\ unlocked \in SUBSET Request

(* How far the anti-stampede lock gives way (server.go:293-327).  It does   *)
(* give way: it expires under a slow holder, and DEL removes whoever's lock *)
(* there is, so that one holder that was overtaken can let in another, and  *)
(* that one the next.  Even so each lock that Redis dropped under its       *)
(* holder adds at most one to the holders a key has at a time, and when a   *)
(* key has had no holder the lock excludes again.                           *)
Holders(k) == {r \in Request : Holder(r) /\ KeyOf[r] = k}
Unlocked(k) == {r \in unlocked : KeyOf[r] = k}

BoundedStampede ==
  \A k \in Key : Cardinality(Holders(k)) <= 1 + Cardinality(Unlocked(k))

(* While Redis answers, a lock outlives its holder only when the gateway    *)
(* crashed: error returns, non-2xx answers and abandoned requests all       *)
(* release it (server.go:315-317).                                          *)
NoLeakedLock ==
  \A k \in Key :
    Live(lock[k]) => \E r \in Request :
      /\ lock[k].owner = r
      /\ Holder(r) \/ pc[r] = "dead"

(* A slow holder may replace a payload by one that was computed earlier,    *)
(* but only on a key whose holders have lost a lock, and then the cache     *)
(* goes back by one tenure at most (server.go:319-324).                     *)
BoundedRegress ==
  [][\A k \in Key :
       \/ entry'[k] = NoEntry
       \/ entry'[k].val.at >= entry[k].val.at
       \/ /\ Unlocked(k) # {}
          /\ entry'[k].val.at + HoldMax >= entry[k].val.at]_vars

(* What a GET may return was computed at most one time to live, jitter      *)
(* included, plus one lock tenure ago: neither a slow holder nor a restart  *)
(* keeps a payload alive for longer (service.go:57-62,99-111).              *)
BoundedStaleness ==
  \A k \in Key :
    Live(entry[k]) =>
      now < entry[k].val.at + HoldMax + CacheTTL + CacheTTLJitter

(* The implementation of the abstract specification.  What a caller gets: a *)
(* 2xx payload, or anything else; a call that died got nothing.             *)
Handed(r) ==
  IF pc[r] # "done" THEN [state |-> "pending", at |-> 0]
  ELSE IF payload[r].format = "none" THEN [state |-> "failed", at |-> 0]
  ELSE [state |-> "given", at |-> payload[r].at]

Contract == INSTANCE FetchContract
  WITH MaxAge <- HoldMax + CacheTTL + CacheTTLJitter,
       answer <- [r \in Request |-> Handed(r)]

(* fetchOrCache keeps its contract: a caller is answered once, with a       *)
(* payload no older than MaxAge, whichever of hit, wait, race or miss the   *)
(* call ends as, and whatever fails on the way (server.go:270-328).         *)
KeepsContract == Contract!Spec

(* Every call of fetchOrCache ends, whatever the holder it waits for, Redis *)
(* and the client do.                                                       *)
CallsEnd == \A r \in Request : <>(pc[r] \in {"done", "dead"})

(* README.md:60 expects "at most one MISS per cache key refresh window": an *)
(* entry would be replaced only after it has expired.                       *)
OneMissPerWindow ==
  [][\A k \in Key : Live(entry[k]) => entry'[k] = entry[k]]_vars

(* README.md:132 has "Arrow pass-through with cache": a call returns the    *)
(* format its client asked for and its Content-Type names.                  *)
FormatPreserved ==
  \A r \in Request :
    source[r] \in {"HIT", "HIT_WAIT"}
      => payload[r].format = DefaultCachedHeader(AcceptOf[r])
=============================================================================
