------------------------- MODULE ResponseCacheProofs ------------------------
(***************************************************************************)
(* Theorems about ResponseCache, for every set of calls and keys and every *)
(* configuration.                                                          *)
(*                                                                         *)
(* Staleness, the contract, the number of holders of a key and how far     *)
(* the cache goes back need nothing of Redis, nor of how a tenure compares *)
(* with CacheLockTTL.  That locks are given back needs a Redis that        *)
(* answers.                                                                *)
(***************************************************************************)
EXTENDS ResponseCache, FiniteSetTheorems, TLAPS

-----------------------------------------------------------------------------
(* The inductive invariant behind BoundedStaleness.                         *)

(* A live holder is within its tenure.                                      *)
Tenure == \A r \in Request :
  Holder(r) => since[r] <= now /\ now <= since[r] + HoldMax

(* What a holder is about to store or return was computed in its tenure.    *)
FreshFill == \A r \in Request :
  pc[r] = "set" \/ (pc[r] = "release" /\ payload[r].format # "none")
    => since[r] <= payload[r].at /\ payload[r].at <= now

(* An entry expires one tenure and one time to live after its payload was   *)
(* computed, at the latest, and was not computed in the future.             *)
EntryAge == \A k \in Key :
  /\ entry[k].val.at <= now
  /\ entry[k].expires
       <= entry[k].val.at + HoldMax + CacheTTL + CacheTTLJitter

StaleInv == TypeOK /\ Tenure /\ FreshFill /\ EntryAge

-----------------------------------------------------------------------------
(* Every time to live that Set draws is at least one second and at most the *)
(* configured one plus the jitter (jitteredTTL, service.go:99-111).         *)
LEMMA TTLBounds ==
  ASSUME NEW ttl \in JitteredTTL
  PROVE  ttl \in Nat /\ 1 <= ttl /\ ttl <= CacheTTL + CacheTTLJitter
<1>1. CASE CacheTTLJitter <= 0
  BY <1>1, CacheAssumption DEF JitteredTTL
<1>2. CASE ~(CacheTTLJitter <= 0)
  <2>1. PICK d \in (-CacheTTLJitter)..CacheTTLJitter :
          ttl = IF CacheTTL + d < 1 THEN 1 ELSE CacheTTL + d
    BY <1>2 DEF JitteredTTL
  <2> QED
    BY <2>1, CacheAssumption
<1> QED
  BY <1>1, <1>2

(* What forward returns is a payload (server.go:330-379).                   *)
LEMMA PayloadType ==
  ASSUME TypeOK, NEW r \in Request, NEW o
  PROVE  PayloadOf(r, o) \in Payload
BY CacheAssumption DEF TypeOK, PayloadOf, Payload, NoPayload, Format

LEMMA TypeInductive == TypeOK /\ [Next]_vars => TypeOK'
<1> SUFFICES ASSUME TypeOK, [Next]_vars PROVE TypeOK'
  OBVIOUS
<1> USE CacheAssumption DEF TypeOK
<1>1. ASSUME NEW r \in Request, Bypass(r) PROVE TypeOK'
  BY <1>1 DEF Bypass, Goto, redis
<1>2. ASSUME NEW r \in Request, Get(r) PROVE TypeOK'
  <2>1. entry[KeyOf[r]].val \in Payload
    OBVIOUS
  <2>2. UNCHANGED <<now, redis, unlocked>>
    BY <1>2 DEF Get
  <2>3. CASE ReturnCached(r, "HIT")
    BY <2>1, <2>2, <2>3 DEF ReturnCached, Return, Goto, redis
  <2>4. CASE /\ Goto(r, "setnx")
             /\ UNCHANGED <<since, payload, source, cancelled>>
    BY <2>2, <2>4 DEF Goto, redis
  <2>5. CASE Return(r, "error") /\ UNCHANGED payload
    BY <2>2, <2>5 DEF Return, Goto, redis
  <2> QED
    BY <1>2, <2>3, <2>4, <2>5, Zenon DEF Get
<1>3. ASSUME NEW r \in Request, AcquireLock(r) PROVE TypeOK'
  <2>1. CASE LockAcquired(r)
    <3>1. /\ lock' = [lock EXCEPT ![KeyOf[r]] =
                        [owner |-> r, expires |-> now + CacheLockTTL]]
          /\ UNCHANGED <<now, entry, redisUp, payload, unlocked>>
      BY <2>1 DEF LockAcquired
    <3>2. ASSUME NEW next \in {"fill", "wait"}, Goto(r, next),
                 since' = [since EXCEPT ![r] = now],
                 UNCHANGED <<source, cancelled>>
          PROVE  TypeOK'
      BY <3>1, <3>2 DEF Goto
    <3>3. CASE Return(r, "error")
      BY <3>1, <3>3 DEF Return, Goto
    <3> QED
      BY <2>1, <3>2, <3>3, Zenon DEF LockAcquired
  <2>2. CASE LockBusy(r)
    BY <2>2 DEF LockBusy, Goto, redis
  <2>3. CASE LockFailed(r)
    BY <2>3 DEF LockFailed, Return, Goto, redis
  <2> QED
    BY <1>3, <2>1, <2>2, <2>3 DEF AcquireLock
<1>4. ASSUME NEW r \in Request, WaitForLock(r) PROVE TypeOK'
  <2>1. entry[KeyOf[r]].val \in Payload
    OBVIOUS
  <2>2. CASE PollHit(r)
    BY <2>1, <2>2 DEF PollHit, ReturnCached, Return, Goto, redis
  <2>3. CASE StopWaiting(r)
    BY <2>3 DEF StopWaiting, Goto, redis
  <2> QED
    BY <1>4, <2>2, <2>3 DEF WaitForLock, PollFailed, WaitTimeout
<1>5. ASSUME NEW r \in Request, ForwardOnly(r) PROVE TypeOK'
  BY <1>5, PayloadType DEF ForwardOnly, Return, Goto, redis
<1>6. ASSUME NEW r \in Request, ForwardLocked(r) PROVE TypeOK'
  BY <1>6, PayloadType DEF ForwardLocked, Goto, redis, Outcomes
<1>7. ASSUME NEW r \in Request, Set(r) PROVE TypeOK'
  <2>1. \A ttl \in JitteredTTL : now + ttl \in Nat
    BY TTLBounds
  <2>2. /\ Goto(r, "release")
        /\ UNCHANGED <<now, lock, redisUp, since, payload, source, cancelled,
                       unlocked>>
    BY <1>7 DEF Set
  <2>3. ASSUME NEW ttl \in JitteredTTL,
               entry' = [entry EXCEPT ![KeyOf[r]] =
                           [val |-> payload[r], expires |-> now + ttl]]
        PROVE  TypeOK'
    BY <2>1, <2>2, <2>3 DEF Goto
  <2>4. CASE UNCHANGED entry
    BY <2>2, <2>4 DEF Goto
  <2> QED
    BY <1>7, <2>3, <2>4, Zenon DEF Set
<1>8. ASSUME NEW r \in Request, Release(r) PROVE TypeOK'
  <2>1. /\ \/ lock' = [lock EXCEPT ![KeyOf[r]] = NoLock]
           \/ UNCHANGED lock
        /\ UNCHANGED <<now, entry, redisUp, payload>>
    BY <1>8, Zenon DEF Release
  <2> lock' \in [Key -> [owner: Request \cup {NoOne}, expires: Nat]]
    BY <2>1 DEF NoLock
  <2>2. CASE Return(r, source[r]) /\ Leave(r)
    <3>1. unlocked' \in SUBSET Request
      BY <2>2 DEF Leave
    <3> QED
      BY <2>1, <2>2, <3>1 DEF Return, Goto
  <2>3. CASE /\ unlocked' = unlocked \cup
                  {q \in Request : Owns(q) /\ KeyOf[q] = KeyOf[r]}
             /\ UNCHANGED <<pc, since, source, cancelled>>
    <3>1. unlocked' \in SUBSET Request
      BY <2>3
    <3> QED
      BY <2>1, <2>3, <3>1
  <2> QED
    BY <1>8, <2>2, <2>3, Zenon DEF Release
<1>9. ASSUME NEW r \in Request, Cancel(r) PROVE TypeOK'
  BY <1>9 DEF Cancel, redis
<1>10. ASSUME NEW r \in Request, Crash(r) PROVE TypeOK'
  BY <1>10 DEF Crash, Goto, redis, NoPayload, Payload, Leave
<1>11. CASE Tick
  BY <1>11 DEF Tick, redis
<1>12. CASE Outage
  BY <1>12 DEF Outage
<1>13. CASE DataLoss
  BY <1>13 DEF DataLoss, NoEntry, NoLock, NoPayload, Payload
<1>14. CASE UNCHANGED vars
  BY <1>14 DEF vars, redis
<1> QED
  BY <1>1, <1>2, <1>3, <1>4, <1>5, <1>6, <1>7, <1>8, <1>9, <1>10, <1>11,
     <1>12, <1>13, <1>14 DEF Next, FetchOrCache

LEMMA TypeInitial == Init => TypeOK
BY CacheAssumption DEF Init, TypeOK, NoEntry, NoLock, NoPayload, Payload

(* Every variable keeps its type, whatever Redis and the clients do         *)
(* (fetchOrCache, server.go:270-328).                                       *)
THEOREM TypeCorrect == Spec => []TypeOK
BY TypeInitial, TypeInductive, PTL DEF Spec

-----------------------------------------------------------------------------
(* A step of one call leaves the clock and the other calls alone.           *)
LEMMA OtherCalls ==
  ASSUME TypeOK, NEW r \in Request,
         FetchOrCache(r) \/ Cancel(r) \/ Crash(r)
  PROVE  /\ now' = now
         /\ \A q \in Request \ {r} : /\ pc'[q] = pc[q]
                                     /\ since'[q] = since[q]
                                     /\ payload'[q] = payload[q]
<1> USE DEF TypeOK, Goto, Return, ReturnCached
<1>1. CASE Bypass(r)
  BY <1>1 DEF Bypass
<1>2. CASE Get(r)
  BY <1>2 DEF Get
<1>3. CASE LockAcquired(r)
  BY <1>3 DEF LockAcquired
<1>4. CASE LockBusy(r) \/ LockFailed(r)
  BY <1>4 DEF LockBusy, LockFailed
<1>5. CASE WaitForLock(r)
  BY <1>5 DEF WaitForLock, PollHit, PollFailed, WaitTimeout, StopWaiting
<1>6. CASE ForwardOnly(r) \/ ForwardLocked(r)
  BY <1>6 DEF ForwardOnly, ForwardLocked
<1>7. CASE Set(r)
  BY <1>7 DEF Set
<1>8. CASE Release(r)
  BY <1>8 DEF Release
<1>9. CASE Cancel(r) \/ Crash(r)
  BY <1>9 DEF Cancel, Crash
<1> QED
  BY <1>1, <1>2, <1>3, <1>4, <1>5, <1>6, <1>7, <1>8, <1>9
     DEF FetchOrCache, AcquireLock

(* The steps of a call that has not got the lock, and a crash.              *)
Outside(r) ==
  \/ Bypass(r) \/ Get(r) \/ LockBusy(r) \/ LockFailed(r) \/ WaitForLock(r)
  \/ ForwardOnly(r) \/ Crash(r)

LEMMA OutsideSteps ==
  ASSUME TypeOK, NEW r \in Request, Outside(r)
  PROVE  /\ pc'[r] \notin {"fill", "set", "release"}
         /\ pc[r] \notin {"fill", "set", "release", "dead"} \/ pc'[r] = "dead"
         /\ UNCHANGED redis
<1> USE DEF TypeOK, Goto, Return, ReturnCached
<1>1. CASE Bypass(r)
  BY <1>1 DEF Bypass
<1>2. CASE Get(r)
  BY <1>2 DEF Get
<1>3. CASE LockBusy(r) \/ LockFailed(r)
  BY <1>3 DEF LockBusy, LockFailed
<1>4. CASE WaitForLock(r)
  BY <1>4 DEF WaitForLock, PollHit, PollFailed, WaitTimeout, StopWaiting
<1>5. CASE ForwardOnly(r)
  BY <1>5 DEF ForwardOnly
<1>6. CASE Crash(r)
  BY <1>6 DEF Crash
<1> QED
  BY <1>1, <1>2, <1>3, <1>4, <1>5, <1>6 DEF Outside

LEMMA StaleInductive == StaleInv /\ [Next]_vars => StaleInv'
<1> SUFFICES ASSUME StaleInv, [Next]_vars PROVE StaleInv'
  OBVIOUS
<1> USE CacheAssumption
<1>1. TypeOK /\ TypeOK'
  BY TypeInductive DEF StaleInv
<1>2. ASSUME NEW r \in Request, Outside(r) PROVE StaleInv'
  <2>1. /\ now' = now /\ entry' = entry
        /\ \A q \in Request \ {r} : /\ pc'[q] = pc[q]
                                    /\ since'[q] = since[q]
                                    /\ payload'[q] = payload[q]
    BY <1>1, <1>2, OtherCalls, OutsideSteps
       DEF Outside, FetchOrCache, AcquireLock, redis
  <2>2. pc'[r] \notin {"fill", "set", "release"}
    BY <1>1, <1>2, OutsideSteps
  <2> QED
    BY <1>1, <2>1, <2>2 DEF StaleInv, Tenure, FreshFill, EntryAge, Holder
<1>3. ASSUME NEW r \in Request, LockAcquired(r) PROVE StaleInv'
  <2>1. /\ now' = now
        /\ \A q \in Request \ {r} : /\ pc'[q] = pc[q]
                                    /\ since'[q] = since[q]
                                    /\ payload'[q] = payload[q]
    BY <1>1, <1>3, OtherCalls DEF FetchOrCache, AcquireLock
  <2>2. /\ entry' = entry
        /\ \/ pc'[r] = "fill" /\ since'[r] = now
           \/ pc'[r] \in {"wait", "done"}
    BY <1>1, <1>3 DEF LockAcquired, TypeOK, Goto, Return
  <2>3. now \in Nat /\ since[r] \in Nat
    BY <1>1 DEF TypeOK
  <2> QED
    BY <1>1, <2>1, <2>2, <2>3
       DEF StaleInv, Tenure, FreshFill, EntryAge, Holder
<1>4. ASSUME NEW r \in Request, ForwardLocked(r) PROVE StaleInv'
  <2>1. /\ now' = now
        /\ \A q \in Request \ {r} : /\ pc'[q] = pc[q]
                                    /\ since'[q] = since[q]
                                    /\ payload'[q] = payload[q]
    BY <1>1, <1>4, OtherCalls DEF FetchOrCache
  <2>2. /\ entry' = entry /\ since' = since
        /\ pc[r] = "fill"
        /\ \/ pc'[r] = "set" /\ payload'[r].at = now
           \/ pc'[r] = "release" /\ payload'[r].format = "none"
    BY <1>1, <1>4
       DEF ForwardLocked, TypeOK, Goto, PayloadOf, NoPayload, redis
  <2>3. now \in Nat /\ since[r] \in Nat
    BY <1>1 DEF TypeOK
  <2> QED
    BY <1>1, <2>1, <2>2, <2>3
       DEF StaleInv, Tenure, FreshFill, EntryAge, Holder
<1>5. ASSUME NEW r \in Request, Set(r) PROVE StaleInv'
  <2>1. /\ now' = now
        /\ \A q \in Request \ {r} : /\ pc'[q] = pc[q]
                                    /\ since'[q] = since[q]
                                    /\ payload'[q] = payload[q]
    BY <1>1, <1>5, OtherCalls DEF FetchOrCache
  <2>2. /\ since' = since /\ payload' = payload
        /\ pc[r] = "set" /\ pc'[r] = "release"
    BY <1>1, <1>5 DEF Set, TypeOK, Goto
  <2>3. Tenure' /\ FreshFill'
    BY <1>1, <2>1, <2>2 DEF StaleInv, Tenure, FreshFill, Holder, TypeOK
  <2>4. ASSUME NEW ttl \in JitteredTTL,
               entry' = [entry EXCEPT ![KeyOf[r]] =
                           [val |-> payload[r], expires |-> now + ttl]]
        PROVE  EntryAge'
    <3>1. /\ payload[r].at \in Nat /\ since[r] \in Nat /\ now \in Nat
          /\ ttl \in Nat /\ ttl <= CacheTTL + CacheTTLJitter
      BY <1>1, TTLBounds DEF TypeOK, Payload
    <3>2. payload[r].at <= now /\ now <= payload[r].at + HoldMax
      BY <2>2, <3>1 DEF StaleInv, Tenure, FreshFill, Holder
    <3>3. now + ttl <= payload[r].at + HoldMax + CacheTTL + CacheTTLJitter
      BY <3>1, <3>2
    <3> QED
      BY <1>1, <2>1, <2>4, <3>2, <3>3 DEF StaleInv, EntryAge, TypeOK
  <2>5. CASE UNCHANGED entry
    BY <2>1, <2>3, <2>5, <1>1 DEF StaleInv, EntryAge
  <2> QED
    BY <1>1, <1>5, <2>3, <2>4, <2>5, Zenon DEF Set, StaleInv
<1>6. ASSUME NEW r \in Request, Release(r) PROVE StaleInv'
  <2>1. /\ now' = now
        /\ \A q \in Request \ {r} : /\ pc'[q] = pc[q]
                                    /\ since'[q] = since[q]
                                    /\ payload'[q] = payload[q]
    BY <1>1, <1>6, OtherCalls DEF FetchOrCache
  <2>2. /\ entry' = entry /\ payload' = payload
        /\ pc[r] = "release"
        /\ pc'[r] = "done" \/ (pc'[r] = "release" /\ since'[r] = since[r])
    BY <1>1, <1>6 DEF Release, TypeOK, Goto, Return
  <2>3. now \in Nat /\ since[r] \in Nat
    BY <1>1 DEF TypeOK
  <2> QED
    BY <1>1, <2>1, <2>2, <2>3
       DEF StaleInv, Tenure, FreshFill, EntryAge, Holder
<1>7. CASE Tick
  BY <1>1, <1>7
     DEF Tick, StaleInv, Tenure, FreshFill, EntryAge, Holder, redis, TypeOK,
         Payload
<1>8. CASE DataLoss
  BY <1>1, <1>8
     DEF DataLoss, StaleInv, Tenure, FreshFill, EntryAge, Holder, NoEntry,
         NoPayload, TypeOK
<1>9. CASE \/ \E r \in Request : Cancel(r)
           \/ Outage
           \/ UNCHANGED vars
  BY <1>1, <1>9
     DEF Cancel, Outage, vars, redis, StaleInv, Tenure, FreshFill, EntryAge,
         Holder
<1> QED
  BY <1>2, <1>3, <1>4, <1>5, <1>6, <1>7, <1>8, <1>9
     DEF Next, FetchOrCache, AcquireLock, Outside

(* A GET returns nothing that was computed longer ago than one tenure, one  *)
(* time to live and the jitter, for every number of calls, with outages,    *)
(* lost replies, lost keys, crashes and abandoned requests                  *)
(* (service.go:57-62,99-111 and server.go:319-324).                         *)
THEOREM StalenessBounded == Spec => []BoundedStaleness
<1>1. Init => StaleInv
  BY TypeInitial, CacheAssumption
     DEF Init, StaleInv, Tenure, FreshFill, EntryAge, Holder, NoEntry, NoPayload
<1>2. StaleInv => BoundedStaleness
  BY CacheAssumption DEF StaleInv, EntryAge, BoundedStaleness, Live, TypeOK,
     Payload
<1> QED
  BY <1>1, <1>2, StaleInductive, PTL DEF Spec

-----------------------------------------------------------------------------
(* The refinement.  Before it reaches the targets or a hit, a call has      *)
(* nothing to hand over.                                                    *)
EmptyHanded == \A r \in Request :
  pc[r] \in {"start", "setnx", "wait", "forward", "fill"}
    => payload[r] = NoPayload

LEMMA EmptyInductive ==
  ASSUME TypeOK, EmptyHanded, [Next]_vars
  PROVE  EmptyHanded'
<1> USE DEF TypeOK, EmptyHanded, Goto, Return
<1>1. ASSUME NEW r \in Request, FetchOrCache(r) \/ Cancel(r) \/ Crash(r),
             \/ pc'[r] \in {"set", "release", "done", "dead"}
             \/ /\ payload' = payload
                /\ pc[r] \in {"start", "setnx", "wait", "forward", "fill"}
      PROVE  EmptyHanded'
  BY <1>1, OtherCalls
<1>2. ASSUME NEW r \in Request, Bypass(r) \/ AcquireLock(r) PROVE EmptyHanded'
  BY <1>1, <1>2 DEF FetchOrCache, Bypass, AcquireLock, LockAcquired, LockBusy,
     LockFailed
<1>3. ASSUME NEW r \in Request, Get(r) PROVE EmptyHanded'
  BY <1>1, <1>3 DEF FetchOrCache, Get, ReturnCached
<1>4. ASSUME NEW r \in Request, WaitForLock(r) PROVE EmptyHanded'
  BY <1>1, <1>4 DEF FetchOrCache, WaitForLock, PollHit, PollFailed,
     WaitTimeout, StopWaiting, ReturnCached
<1>5. ASSUME NEW r \in Request,
             \/ ForwardOnly(r) \/ ForwardLocked(r) \/ Set(r) \/ Release(r)
             \/ Crash(r)
      PROVE  EmptyHanded'
  BY <1>1, <1>5 DEF FetchOrCache, ForwardOnly, ForwardLocked, Set, Release,
     Crash
<1>6. CASE \/ \E r \in Request : Cancel(r)
           \/ Tick \/ Outage \/ DataLoss \/ UNCHANGED vars
  BY <1>6 DEF Cancel, Tick, Outage, DataLoss, vars
<1> QED
  BY <1>2, <1>3, <1>4, <1>5, <1>6 DEF Next, FetchOrCache

ContractInv == StaleInv /\ EmptyHanded

(* What may be handed over now.                                             *)
Young(t) ==
  t \in Nat /\ t <= now /\ now < t + HoldMax + CacheTTL + CacheTTLJitter

LEMMA HitIsYoung ==
  ASSUME StaleInv, NEW r \in Request, Live(entry[KeyOf[r]])
  PROVE  Young(entry[KeyOf[r]].val.at)
BY CacheAssumption DEF StaleInv, EntryAge, Live, Young, TypeOK, Payload

(* A call that ends has nothing to hand over, or something young.           *)
LEMMA EndsYoung ==
  ASSUME ContractInv, NEW r \in Request,
         FetchOrCache(r) \/ Cancel(r) \/ Crash(r)
  PROVE  \/ pc'[r] = pc[r] /\ payload'[r] = payload[r]
         \/ /\ pc[r] # "done"
            /\ pc'[r] = "done" =>
                 payload'[r].format = "none" \/ Young(payload'[r].at)
<1>1. TypeOK /\ StaleInv
  BY DEF ContractInv, StaleInv
<1> USE CacheAssumption DEF TypeOK, Goto, Return
<1>2. pc[r] \in {"start", "setnx", "wait", "forward", "fill"}
        => payload[r].format = "none"
  BY DEF ContractInv, EmptyHanded, NoPayload
<1>3. CASE Bypass(r) \/ AcquireLock(r)
  BY <1>1, <1>2, <1>3 DEF Bypass, AcquireLock, LockAcquired, LockBusy,
     LockFailed
<1>4. CASE Get(r)
  BY <1>1, <1>2, <1>4, HitIsYoung DEF Get, ReturnCached
<1>5. CASE WaitForLock(r)
  BY <1>1, <1>2, <1>5, HitIsYoung DEF WaitForLock, PollHit, PollFailed,
     WaitTimeout, StopWaiting, ReturnCached
<1>6. CASE ForwardOnly(r)
  BY <1>1, <1>6 DEF ForwardOnly, PayloadOf, NoPayload, Young
<1>7. CASE ForwardLocked(r) \/ Set(r)
  BY <1>1, <1>7 DEF ForwardLocked, Set
<1>8. CASE Release(r)
  <2>1. payload[r].format # "none" => Young(payload[r].at)
    BY <1>1, <1>8 DEF Release, StaleInv, FreshFill, Tenure, Holder, Young,
       Payload
  <2> QED
    BY <1>1, <1>8, <2>1 DEF Release, Young
<1>9. CASE Cancel(r) \/ Crash(r)
  BY <1>1, <1>9 DEF Cancel, Crash
<1> QED
  BY <1>3, <1>4, <1>5, <1>6, <1>7, <1>8, <1>9 DEF FetchOrCache

(* fetchOrCache implements its contract, for every set of calls and keys    *)
(* and every configuration, with outages, lost replies, lost keys, crashes  *)
(* and abandoned requests: no call is answered twice, and no answer is      *)
(* older than MaxAge when it is handed over (server.go:270-328).            *)
THEOREM ImplementsContract == Spec => KeepsContract
<1> USE DEF Contract!Pending, Contract!Failed, Contract!Given
<1>1. Init => ContractInv
  BY TypeInitial, CacheAssumption
     DEF Init, ContractInv, EmptyHanded, StaleInv, Tenure, FreshFill,
         EntryAge, Holder, NoEntry, NoPayload
<1>2. ContractInv /\ [Next]_vars => ContractInv'
  BY StaleInductive, EmptyInductive DEF ContractInv, StaleInv
<1>3. Init => Contract!Init
  BY DEF Init, Contract!Init, Handed
<1>4. ContractInv /\ [Next]_vars => [Contract!Next]_(Contract!vars)
  <2> SUFFICES ASSUME ContractInv, [Next]_vars
               PROVE  Contract!Next \/ UNCHANGED Contract!vars
    OBVIOUS
  <2>1. TypeOK
    BY DEF ContractInv, StaleInv
  <2>2. ASSUME NEW r \in Request, FetchOrCache(r) \/ Cancel(r) \/ Crash(r)
        PROVE  Contract!Next \/ UNCHANGED Contract!vars
    <3> DEFINE given == [q \in Request |-> Handed(q)]
    <3>1. now' = now /\ \A q \in Request \ {r} : Handed(q)' = Handed(q)
      BY <2>1, <2>2, OtherCalls DEF Handed
    <3>2. given' = [given EXCEPT ![r] = Handed(r)']
      BY <3>1
    <3>3. CASE pc'[r] = pc[r] /\ payload'[r] = payload[r]
      <4>1. Handed(r)' = Handed(r)
        BY <3>3 DEF Handed
      <4> QED
        BY <3>1, <4>1 DEF Contract!vars
    <3>4. CASE pc[r] # "done" /\ pc'[r] # "done"
      <4>1. Handed(r)' = Handed(r)
        BY <3>4 DEF Handed
      <4> QED
        BY <3>1, <4>1 DEF Contract!vars
    <3>5. CASE pc[r] # "done" /\ pc'[r] = "done" /\ payload'[r].format = "none"
      <4>1. given[r] = Contract!Pending /\ Handed(r)' = Contract!Failed
        BY <3>5 DEF Handed
      <4> QED
        BY <3>1, <3>2, <4>1 DEF Contract!Next, Contract!Fail
    <3>6. CASE /\ pc[r] # "done" /\ pc'[r] = "done"
               /\ payload'[r].format # "none" /\ Young(payload'[r].at)
      <4> DEFINE t == payload'[r].at
      <4>1. given[r] = Contract!Pending /\ Handed(r)' = Contract!Given(t)
        BY <3>6 DEF Handed
      <4>2. /\ t \in 0..now
            /\ now - (HoldMax + CacheTTL + CacheTTLJitter) < t /\ t <= now
        BY <2>1, <3>6, CacheAssumption DEF Young, TypeOK
      <4> QED
        BY <3>1, <3>2, <4>1, <4>2 DEF Contract!Next, Contract!Give
    <3> QED
      BY <2>2, <3>3, <3>4, <3>5, <3>6, EndsYoung
  <2>3. CASE Tick
    BY <2>3 DEF Tick, Handed, Contract!Next, Contract!Tick
  <2>4. CASE Outage \/ DataLoss \/ UNCHANGED vars
    BY <2>4 DEF Outage, DataLoss, vars, Handed, Contract!vars
  <2> QED
    BY <2>2, <2>3, <2>4 DEF Next
<1> QED
  BY <1>1, <1>2, <1>3, <1>4, PTL DEF Spec, KeepsContract, Contract!Spec


-----------------------------------------------------------------------------
(* The holders of a key.  One may own the lock.  Of the others, some lost   *)
(* it to Redis (they are in unlocked); the rest were robbed: another call's *)
(* DEL removed their lock.  Whoever robs has itself been robbed, or lost    *)
(* its lock and is gone, so no more are robbed than have lost theirs and    *)
(* gone.                                                                    *)
Robbed(k) == {r \in Holders(k) : r \notin unlocked /\ ~Owns(r)}
Gone(k) == Unlocked(k) \ Holders(k)

RobbedBound == \A k \in Key :
  /\ IsFiniteSet(Holders(k))
  /\ IsFiniteSet(Unlocked(k))
  /\ Cardinality(Robbed(k)) <= Cardinality(Gone(k))

(* A call that has not asked for the lock has not lost it.                  *)
NotYet == \A r \in Request :
  pc[r] \in {"start", "setnx"} => r \notin unlocked

HolderInv == StaleInv /\ NotYet /\ RobbedBound

(* What a step may do to the holders of a key: r may come or go, and the    *)
(* owner's lock may be dropped or deleted.                                  *)
Shape(k, r) ==
  LET o == lock[k].owner IN
  /\ Holders(k)' \subseteq Holders(k) \cup {r}
  /\ Unlocked(k)' \subseteq Unlocked(k) \cup {o}
  /\ \/ Holders(k)' = {}
     \/ /\ Unlocked(k) \subseteq Unlocked(k)'
        /\ Gone(k) \subseteq Gone(k)'
        /\ \/ Robbed(k)' \subseteq Robbed(k)
           \/ /\ r \in Robbed(k)
              /\ Robbed(k)' \subseteq (Robbed(k) \ {r}) \cup {o}
           \/ /\ r \in Gone(k)' \ Gone(k)
              /\ Robbed(k)' \subseteq Robbed(k) \cup {o}

(* Steps that move no call in or out, but may drop the locks of some.       *)
LEMMA DropShape ==
  ASSUME NEW k \in Key, NEW X \in SUBSET Request,
         \A q \in X : Owns(q),
         \A q \in Request : /\ Holder(q)' <=> Holder(q)
                            /\ Owns(q)' <=> Owns(q) /\ q \notin X,
         unlocked' = unlocked \cup X
  PROVE  Shape(k, NoOne)
<1>1. \A q \in X : KeyOf[q] = k => q = lock[k].owner /\ q \in Holders(k)
  BY DEF Owns, Holders
<1>2. Holders(k)' = Holders(k)
  BY DEF Holders
<1>3. Unlocked(k)' = Unlocked(k) \cup {q \in X : KeyOf[q] = k}
  BY DEF Unlocked
<1>4. Robbed(k)' \subseteq Robbed(k)
  BY <1>2 DEF Robbed, Holders
<1>5. Gone(k)' = Gone(k)
  BY <1>1, <1>2, <1>3 DEF Gone
<1> QED
  BY <1>1, <1>2, <1>3, <1>4, <1>5 DEF Shape

(* A call gets the lock, and may or may not learn it.                       *)
LEMMA AcquireShape ==
  ASSUME TypeOK, NotYet, NEW k \in Key, NEW r \in Request, LockAcquired(r)
  PROVE  Shape(k, r)
<1> USE CacheAssumption
<1>1. /\ now' = now /\ unlocked' = unlocked
      /\ \A q \in Request \ {r} : pc'[q] = pc[q]
  BY OtherCalls DEF FetchOrCache, AcquireLock, LockAcquired
<1>2. /\ pc[r] = "setnx" /\ r \notin unlocked
      /\ ~Live(lock[KeyOf[r]])
      /\ lock' = [lock EXCEPT ![KeyOf[r]] =
                    [owner |-> r, expires |-> now + CacheLockTTL]]
  BY DEF LockAcquired, NotYet
<1>3. \A q \in Request \ {r} : /\ Holder(q)' <=> Holder(q)
                               /\ Owns(q)' <=> Owns(q)
  BY <1>1, <1>2 DEF Holder, Owns, Live, TypeOK
<1>4. ~Holder(r) /\ (Holder(r)' => Owns(r)')
  BY <1>1, <1>2 DEF Holder, Owns, Live, TypeOK
<1>5. /\ Holders(k) \subseteq Holders(k)'
      /\ Holders(k)' \subseteq Holders(k) \cup {r}
  BY <1>3, <1>4 DEF Holders
<1>6. Unlocked(k)' = Unlocked(k) /\ r \notin Unlocked(k)
  BY <1>1, <1>2 DEF Unlocked
<1>7. Robbed(k)' \subseteq Robbed(k)
  BY <1>1, <1>3, <1>4, <1>5 DEF Robbed, Holders
<1> QED
  BY <1>5, <1>6, <1>7 DEF Shape, Gone

(* A call stops holding its key, and may delete the lock there is.          *)
LEMMA LeaveShape ==
  ASSUME TypeOK, NEW k \in Key, NEW r \in Request, Leave(r), ~Holder(r)',
         \A q \in Request \ {r} : Holder(q)' <=> Holder(q),
         \/ \A q \in Request \ {r} : Owns(q)' <=> Owns(q)
         \/ /\ Holder(r)
            /\ \A q \in Request \ {r} :
                 Owns(q)' <=> Owns(q) /\ KeyOf[q] # KeyOf[r]
  PROVE  Shape(k, r)
<1>1. Holders(k)' = Holders(k) \ {r}
  BY DEF Holders
<1>2. CASE KeyOf[r] # k
  <2>1. r \notin Holders(k) /\ Unlocked(k)' = Unlocked(k)
    BY <1>2 DEF Holders, Unlocked, Leave
  <2>2. Robbed(k)' = Robbed(k)
    BY <1>1, <1>2, <2>1 DEF Robbed, Holders, Unlocked, TypeOK
  <2> QED
    BY <1>1, <2>1, <2>2 DEF Shape, Gone
<1>3. CASE KeyOf[r] = k /\ Holders(k)' = {}
  <2>1. Unlocked(k)' \subseteq Unlocked(k)
    BY DEF Unlocked, Leave
  <2> QED
    BY <1>1, <1>3, <2>1 DEF Shape
<1>4. CASE KeyOf[r] = k /\ Holders(k)' # {}
  <2>1. unlocked' = unlocked
    BY <1>1, <1>4 DEF Leave, Holders
  <2>2. Unlocked(k)' = Unlocked(k) /\ Gone(k) \subseteq Gone(k)'
    BY <1>1, <2>1 DEF Unlocked, Gone
  <2>3. \A q \in Robbed(k)' : q # r /\ q \in Holders(k) /\ q \notin unlocked
    BY <1>1, <2>1 DEF Robbed
  <2>4. CASE \A q \in Request \ {r} : Owns(q)' <=> Owns(q)
    <3>1. Robbed(k)' \subseteq Robbed(k)
      BY <2>1, <2>3, <2>4 DEF Robbed, Holders
    <3> QED
      BY <1>1, <2>2, <3>1 DEF Shape
  <2>5. CASE Holder(r)
    <3>1. Robbed(k)' \subseteq (Robbed(k) \ {r}) \cup {lock[k].owner}
      BY <2>3 DEF Robbed, Holders, Owns
    <3>2. r \in Holders(k)
      BY <1>4, <2>5 DEF Holders
    <3>3. CASE r \in unlocked
      <4>1. r \in Gone(k)' \ Gone(k)
        BY <1>1, <1>4, <2>1, <3>2, <3>3 DEF Gone, Unlocked
      <4> QED
        BY <1>1, <2>2, <3>1, <4>1 DEF Shape
    <3>4. CASE r \in Robbed(k)
      BY <1>1, <2>2, <3>1, <3>4 DEF Shape
    <3>5. CASE Owns(r)
      <4>1. \A q \in Robbed(k)' : ~Owns(q)
        BY <1>4, <2>3, <3>5 DEF Owns, Holders
      <4>2. Robbed(k)' \subseteq Robbed(k)
        BY <2>3, <4>1 DEF Robbed
      <4> QED
        BY <1>1, <2>2, <4>2 DEF Shape
    <3> QED
      BY <3>2, <3>3, <3>4, <3>5 DEF Robbed
  <2> QED
    BY <2>4, <2>5
<1> QED
  BY <1>2, <1>3, <1>4

(* The steps that leave the holders and their locks alone.                  *)
Still(r) ==
  \/ Bypass(r) \/ Get(r) \/ LockBusy(r) \/ LockFailed(r) \/ WaitForLock(r)
  \/ ForwardOnly(r) \/ ForwardLocked(r) \/ Set(r) \/ Cancel(r)

LEMMA StillSteps ==
  ASSUME TypeOK, NEW r \in Request, Still(r)
  PROVE  /\ UNCHANGED <<now, lock, unlocked>>
         /\ \A q \in Request : Holder(q)' <=> Holder(q)
<1>1. now' = now /\ \A q \in Request \ {r} : pc'[q] = pc[q]
  BY OtherCalls DEF Still, FetchOrCache, AcquireLock
<1> USE DEF TypeOK, Goto, Return, ReturnCached, Holder, redis
<1>2. CASE Bypass(r) \/ Get(r)
  BY <1>1, <1>2 DEF Bypass, Get
<1>3. CASE LockBusy(r) \/ LockFailed(r)
  BY <1>1, <1>3 DEF LockBusy, LockFailed
<1>4. CASE WaitForLock(r)
  BY <1>1, <1>4 DEF WaitForLock, PollHit, PollFailed, WaitTimeout, StopWaiting
<1>5. CASE ForwardOnly(r) \/ ForwardLocked(r)
  BY <1>1, <1>5 DEF ForwardOnly, ForwardLocked
<1>6. CASE Set(r) \/ Cancel(r)
  BY <1>1, <1>6 DEF Set, Cancel
<1> QED
  BY <1>2, <1>3, <1>4, <1>5, <1>6 DEF Still

LEMMA StepShape ==
  ASSUME TypeOK, NotYet, [Next]_vars, NEW k \in Key
  PROVE  \E r \in Request \cup {NoOne} : Shape(k, r)
<1> USE CacheAssumption
<1>1. ASSUME UNCHANGED <<now, lock, unlocked>>,
             \A q \in Request : Holder(q)' <=> Holder(q)
      PROVE  Shape(k, NoOne)
  <2>1. \A q \in Request : Owns(q)' <=> Owns(q)
    BY <1>1 DEF Owns, Live
  <2> DEFINE X == {}
  <2>2. /\ X \in SUBSET Request
        /\ \A q \in X : Owns(q)
        /\ \A q \in Request : Owns(q)' <=> Owns(q) /\ q \notin X
        /\ unlocked' = unlocked \cup X
    BY <1>1, <2>1
  <2> HIDE DEF X
  <2> QED
    BY <1>1, <2>2, DropShape
<1>2. ASSUME NEW r \in Request, Still(r) PROVE Shape(k, NoOne)
  BY <1>1, <1>2, StillSteps
<1>3. CASE Outage \/ UNCHANGED vars
  BY <1>1, <1>3 DEF Outage, vars, redis, Holder
<1>4. ASSUME NEW r \in Request, LockAcquired(r) PROVE Shape(k, r)
  BY <1>4, AcquireShape
<1>5. ASSUME NEW r \in Request, Crash(r) PROVE Shape(k, r)
  <2>1. /\ now' = now /\ lock' = lock /\ pc'[r] = "dead"
        /\ \A q \in Request \ {r} : pc'[q] = pc[q]
    BY <1>5, OtherCalls DEF Crash, redis, Goto, TypeOK
  <2>2. /\ ~Holder(r)'
        /\ \A q \in Request \ {r} : /\ Holder(q)' <=> Holder(q)
                                    /\ Owns(q)' <=> Owns(q)
    BY <2>1 DEF Holder, Owns, Live
  <2> QED
    BY <1>5, <2>2, LeaveShape DEF Crash
<1>6. ASSUME NEW r \in Request, Release(r)
      PROVE  \E q \in {r, NoOne} : Shape(k, q)
  <2>1. /\ now' = now /\ Holder(r)
        /\ \A q \in Request \ {r} : pc'[q] = pc[q]
    BY <1>6, OtherCalls DEF FetchOrCache, Release, Holder
  <2>2. \A q \in Request \ {r} : Holder(q)' <=> Holder(q)
    BY <2>1 DEF Holder
  <2>3. ASSUME lock' = [lock EXCEPT ![KeyOf[r]] = NoLock],
               \A q \in Request : Holder(q)' <=> Holder(q)
        PROVE  \A q \in Request : Owns(q)' <=> Owns(q) /\ KeyOf[q] # KeyOf[r]
    BY <2>1, <2>3 DEF Owns, Live, NoLock, TypeOK
  <2>4. CASE Return(r, source[r]) /\ Leave(r)
    <3>1. ~Holder(r)'
      BY <2>4 DEF Return, Goto, Holder, TypeOK
    <3>2. CASE lock' = [lock EXCEPT ![KeyOf[r]] = NoLock]
      <4>1. \A q \in Request \ {r} :
              Owns(q)' <=> Owns(q) /\ KeyOf[q] # KeyOf[r]
        BY <2>1, <2>2, <3>2 DEF Owns, Live, NoLock, TypeOK
      <4> QED
        BY <2>1, <2>2, <2>4, <3>1, <4>1, LeaveShape
    <3>3. CASE lock' = lock
      <4>1. \A q \in Request \ {r} : Owns(q)' <=> Owns(q)
        BY <2>1, <2>2, <3>3 DEF Owns, Live
      <4> QED
        BY <2>2, <2>4, <3>1, <4>1, LeaveShape
    <3> QED
      BY <1>6, <3>2, <3>3, Zenon DEF Release
  <2>5. CASE /\ lock' = [lock EXCEPT ![KeyOf[r]] = NoLock]
             /\ unlocked' = unlocked \cup
                  {q \in Request : Owns(q) /\ KeyOf[q] = KeyOf[r]}
             /\ pc' = pc
    <3>1. \A q \in Request : Holder(q)' <=> Holder(q)
      BY <2>5 DEF Holder
    <3>2. \A q \in Request : Owns(q)' <=> Owns(q) /\ KeyOf[q] # KeyOf[r]
      BY <2>3, <2>5, <3>1
    <3> DEFINE X == {q \in Request : Owns(q) /\ KeyOf[q] = KeyOf[r]}
    <3>3. /\ X \in SUBSET Request
          /\ \A q \in X : Owns(q)
          /\ \A q \in Request : Owns(q)' <=> Owns(q) /\ q \notin X
      BY <3>2
    <3> QED
      BY <2>5, <3>1, <3>3, DropShape
  <2> QED
    BY <1>6, <2>4, <2>5, Zenon DEF Release
<1>7. CASE Tick
  <2> DEFINE X == {r \in Request : Owns(r) /\ lock[KeyOf[r]].expires <= now'}
  <2>1. /\ now' = now + 1 /\ lock' = lock /\ pc' = pc
        /\ unlocked' = unlocked \cup X
    BY <1>7 DEF Tick, redis
  <2>2. \A q \in Request : Holder(q)' <=> Holder(q)
    BY <2>1 DEF Holder
  <2>3. \A q \in Request : Owns(q)' <=> Owns(q) /\ q \notin X
    BY <2>1, <2>2 DEF Owns, Live, TypeOK
  <2>4. \A q \in X : Owns(q)
    OBVIOUS
  <2> HIDE DEF X
  <2>5. X \in SUBSET Request
    BY DEF X
  <2> QED
    BY <2>1, <2>2, <2>3, <2>4, <2>5, DropShape
<1>8. CASE DataLoss
  <2> DEFINE X == {r \in Request : Owns(r)}
  <2>1. /\ now' = now /\ lock' = [j \in Key |-> NoLock] /\ pc' = pc
        /\ unlocked' = unlocked \cup X
    BY <1>8 DEF DataLoss
  <2>2. \A q \in Request : Holder(q)' <=> Holder(q)
    BY <2>1 DEF Holder
  <2>3. \A q \in Request : Owns(q)' <=> Owns(q) /\ q \notin X
    BY <2>1 DEF Owns, Live, NoLock, TypeOK
  <2>4. \A q \in X : Owns(q)
    OBVIOUS
  <2> HIDE DEF X
  <2>5. X \in SUBSET Request
    BY DEF X
  <2> QED
    BY <2>1, <2>2, <2>3, <2>4, <2>5, DropShape
<1> QED
  BY <1>2, <1>3, <1>4, <1>5, <1>6, <1>7, <1>8
     DEF Next, FetchOrCache, AcquireLock, Still

(* One set stays no larger than another while elements are exchanged.       *)
LEMMA Exchange ==
  ASSUME NEW A, NEW B, NEW C, NEW D, NEW o, NEW r,
         IsFiniteSet(A), IsFiniteSet(D), B \subseteq D,
         Cardinality(A) <= Cardinality(B),
         \/ C \subseteq A
         \/ r \in A /\ C \subseteq (A \ {r}) \cup {o}
         \/ r \in D \ B /\ C \subseteq A \cup {o}
  PROVE  Cardinality(C) <= Cardinality(D)
<1>1. /\ IsFiniteSet(B) /\ Cardinality(B) <= Cardinality(D)
      /\ Cardinality(A) \in Nat /\ Cardinality(B) \in Nat
      /\ Cardinality(D) \in Nat
  BY FS_Subset, FS_CardinalityType
<1>2. CASE C \subseteq A
  <2>1. Cardinality(C) \in Nat /\ Cardinality(C) <= Cardinality(A)
    BY <1>2, FS_Subset, FS_CardinalityType
  <2> QED
    BY <1>1, <2>1
<1>3. CASE r \in A /\ C \subseteq (A \ {r}) \cup {o}
  <2>1. IsFiniteSet(A \ {r}) /\ Cardinality(A \ {r}) = Cardinality(A) - 1
    BY <1>3, FS_RemoveElement
  <2>2. /\ IsFiniteSet((A \ {r}) \cup {o})
        /\ Cardinality((A \ {r}) \cup {o}) <= Cardinality(A)
    <3>1. /\ IsFiniteSet((A \ {r}) \cup {o})
          /\ Cardinality((A \ {r}) \cup {o}) =
               IF o \in A \ {r} THEN Cardinality(A \ {r})
                               ELSE Cardinality(A \ {r}) + 1
      BY <2>1, FS_AddElement, Zenon
    <3> QED
      BY <1>1, <2>1, <3>1
  <2>3. /\ Cardinality(C) \in Nat
        /\ Cardinality(C) <= Cardinality((A \ {r}) \cup {o})
    BY <1>3, <2>2, FS_Subset, FS_CardinalityType
  <2>4. Cardinality((A \ {r}) \cup {o}) \in Nat
    BY <2>2, FS_CardinalityType
  <2> QED
    BY <1>1, <2>2, <2>3, <2>4
<1>4. CASE r \in D \ B /\ C \subseteq A \cup {o}
  <2>1. /\ IsFiniteSet(A \cup {o})
        /\ Cardinality(A \cup {o}) <= Cardinality(A) + 1
    <3>1. /\ IsFiniteSet(A \cup {o})
          /\ Cardinality(A \cup {o}) =
               IF o \in A THEN Cardinality(A) ELSE Cardinality(A) + 1
      BY FS_AddElement, Zenon
    <3> QED
      BY <1>1, <3>1
  <2>2. /\ Cardinality(C) \in Nat
        /\ Cardinality(C) <= Cardinality(A \cup {o})
        /\ Cardinality(A \cup {o}) \in Nat
    BY <1>4, <2>1, FS_Subset, FS_CardinalityType
  <2>3. B # D /\ Cardinality(D) # Cardinality(B)
    BY <1>4, FS_Subset
  <2> QED
    BY <1>1, <2>1, <2>2, <2>3
<1> QED
  BY <1>2, <1>3, <1>4

LEMMA NotYetInductive ==
  ASSUME TypeOK, NotYet, [Next]_vars
  PROVE  NotYet'
<1> SUFFICES ASSUME NEW q \in Request, pc'[q] \in {"start", "setnx"}
             PROVE  q \notin unlocked'
  BY DEF NotYet
<1>1. pc[q] \in {"start", "setnx"} /\ ~Holder(q)
  <2>1. ASSUME NEW r \in Request, FetchOrCache(r) \/ Cancel(r) \/ Crash(r)
        PROVE  pc[q] \in {"start", "setnx"}
    <3>1. q # r => pc[q] = pc'[q]
      BY <2>1, OtherCalls
    <3>2. CASE q = r /\ pc'[q] # pc[q]
      BY <2>1, <3>2
         DEF FetchOrCache, Bypass, Get, AcquireLock, LockAcquired, LockBusy,
             LockFailed, WaitForLock, PollHit, PollFailed, WaitTimeout,
             StopWaiting, ForwardOnly, ForwardLocked, Set, Release, Cancel,
             Crash, Goto, Return, ReturnCached, TypeOK
    <3> QED
      BY <3>1, <3>2
  <2>2. CASE Tick \/ Outage \/ DataLoss \/ UNCHANGED vars
    <3>1. pc' = pc
      BY <2>2, Zenon DEF Tick, Outage, DataLoss, vars
    <3> QED
      BY <3>1 DEF Holder
  <2>3. pc[q] \in {"start", "setnx"}
    BY <2>1, <2>2 DEF Next
  <2> QED
    BY <2>3 DEF Holder
<1>2. q \notin unlocked /\ ~Owns(q)
  BY <1>1 DEF NotYet, Owns
<1>3. ASSUME NEW r \in Request, Still(r) \/ LockAcquired(r)
      PROVE  unlocked' = unlocked
  BY <1>3, StillSteps DEF LockAcquired
<1>4. ASSUME NEW r \in Request, Release(r) \/ Crash(r)
      PROVE  q \notin unlocked'
  <2>1. CASE Leave(r)
    BY <1>2, <2>1 DEF Leave
  <2>2. CASE unlocked' = unlocked \cup
               {x \in Request : Owns(x) /\ KeyOf[x] = KeyOf[r]}
    BY <1>2, <2>2
  <2> QED
    <3>1. \/ Leave(r)
          \/ unlocked' = unlocked \cup
               {x \in Request : Owns(x) /\ KeyOf[x] = KeyOf[r]}
      BY <1>4 DEF Release, Crash
    <3> QED
      BY <2>1, <2>2, <3>1
<1>5. CASE Tick \/ Outage \/ DataLoss \/ UNCHANGED vars
  BY <1>2, <1>5 DEF Tick, Outage, DataLoss, vars
<1> QED
  BY <1>2, <1>3, <1>4, <1>5 DEF Next, FetchOrCache, AcquireLock, Still

LEMMA HolderInductive == HolderInv /\ [Next]_vars => HolderInv'
<1> SUFFICES ASSUME HolderInv, [Next]_vars PROVE HolderInv'
  OBVIOUS
<1>1. TypeOK /\ StaleInv' /\ NotYet'
  BY StaleInductive, NotYetInductive DEF HolderInv, StaleInv
<1>2. ASSUME NEW k \in Key
      PROVE  /\ IsFiniteSet(Holders(k))'
             /\ IsFiniteSet(Unlocked(k))'
             /\ (Cardinality(Robbed(k)) <= Cardinality(Gone(k)))'
  <2>1. /\ IsFiniteSet(Holders(k)) /\ IsFiniteSet(Unlocked(k))
        /\ Cardinality(Robbed(k)) <= Cardinality(Gone(k))
    BY DEF HolderInv, RobbedBound
  <2>2. PICK r \in Request \cup {NoOne} : Shape(k, r)
    BY <1>1, StepShape DEF HolderInv
  <2> DEFINE o == lock[k].owner
  <2>3. /\ IsFiniteSet(Holders(k) \cup {r})
        /\ IsFiniteSet(Unlocked(k) \cup {o})
    BY <2>1, FS_AddElement
  <2>4. IsFiniteSet(Holders(k)') /\ IsFiniteSet(Unlocked(k)')
    BY <2>2, <2>3, FS_Subset DEF Shape
  <2>5. IsFiniteSet(Robbed(k)) /\ IsFiniteSet(Gone(k)')
    BY <2>1, <2>4, FS_Subset DEF Robbed, Gone
  <2>6. CASE Holders(k)' = {}
    <3>1. Robbed(k)' = {}
      BY <2>6 DEF Robbed
    <3>2. Cardinality(Robbed(k)') = 0 /\ Cardinality(Gone(k)') \in Nat
      BY <2>5, <3>1, FS_EmptySet, FS_CardinalityType
    <3> QED
      BY <2>4, <3>2
  <2>7. CASE Holders(k)' # {}
    <3>1. /\ Gone(k) \subseteq Gone(k)'
          /\ \/ Robbed(k)' \subseteq Robbed(k)
             \/ /\ r \in Robbed(k)
                /\ Robbed(k)' \subseteq (Robbed(k) \ {r}) \cup {o}
             \/ /\ r \in Gone(k)' \ Gone(k)
                /\ Robbed(k)' \subseteq Robbed(k) \cup {o}
      BY <2>2, <2>7, Zenon DEF Shape
    <3>2. Cardinality(Robbed(k)') <= Cardinality(Gone(k)')
      BY <2>1, <2>5, <3>1, Exchange
    <3> QED
      BY <2>4, <3>2
  <2> QED
    BY <2>6, <2>7
<1> QED
  BY <1>1, <1>2 DEF HolderInv, RobbedBound

LEMMA HolderInitial == Init => HolderInv
<1> SUFFICES ASSUME Init PROVE HolderInv
  OBVIOUS
<1>1. StaleInv
  BY TypeInitial, CacheAssumption
     DEF Init, StaleInv, Tenure, FreshFill, EntryAge, Holder, NoEntry, NoPayload
<1>2. NotYet
  BY DEF Init, NotYet
<1>3. ASSUME NEW k \in Key PROVE Holders(k) = {} /\ Unlocked(k) = {}
  BY <1>3 DEF Init, Holders, Unlocked, Holder
<1>4. \A k \in Key : Robbed(k) = {} /\ Gone(k) = {}
  BY <1>3 DEF Robbed, Gone
<1>5. RobbedBound
  BY <1>3, <1>4, FS_EmptySet DEF RobbedBound
<1> QED
  BY <1>1, <1>2, <1>5 DEF HolderInv

(* The anti-stampede lock gives way by no more than it was dropped: however *)
(* long tenures are, whatever Redis loses and whoever crashes, a key has at *)
(* most one holder more than the locks Redis dropped under its holders      *)
(* (server.go:293-327, service.go:64-77).                                   *)
THEOREM HoldersBounded == Spec => []BoundedStampede
<1>1. HolderInv => BoundedStampede
  <2> SUFFICES ASSUME HolderInv, NEW k \in Key
               PROVE  Cardinality(Holders(k)) <= 1 + Cardinality(Unlocked(k))
    BY DEF BoundedStampede
  <2> DEFINE both == Holders(k) \cap Unlocked(k)
             rest == Robbed(k) \cup both
  <2>1. /\ IsFiniteSet(Holders(k)) /\ IsFiniteSet(Unlocked(k))
        /\ Cardinality(Robbed(k)) <= Cardinality(Gone(k))
    BY DEF HolderInv, RobbedBound
  <2>2. IsFiniteSet(Robbed(k)) /\ IsFiniteSet(Gone(k)) /\ IsFiniteSet(both)
    BY <2>1, FS_Subset DEF Robbed, Gone
  <2>3. Unlocked(k) = Gone(k) \cup both /\ Gone(k) \cap both = {}
    BY DEF Gone
  <2>4. Holders(k) \subseteq rest \cup {lock[k].owner}
    BY DEF Robbed, Holders, Unlocked, Owns
  <2> HIDE DEF both
  <2>5. Cardinality(Unlocked(k)) = Cardinality(Gone(k)) + Cardinality(both)
    <3>1. Cardinality(Gone(k) \cup both) =
            Cardinality(Gone(k)) + Cardinality(both)
              - Cardinality(Gone(k) \cap both)
      BY <2>2, FS_Union
    <3>2. /\ Cardinality(Gone(k)) \in Nat /\ Cardinality(both) \in Nat
          /\ Cardinality(Gone(k) \cap both) = 0
      BY <2>2, <2>3, FS_CardinalityType, FS_EmptySet
    <3> QED
      BY <2>3, <3>1, <3>2
  <2>6. /\ IsFiniteSet(rest)
        /\ Cardinality(rest) <= Cardinality(Robbed(k)) + Cardinality(both)
    <3>1. /\ IsFiniteSet(rest)
          /\ Cardinality(rest) = Cardinality(Robbed(k)) + Cardinality(both)
               - Cardinality(Robbed(k) \cap both)
      BY <2>2, FS_Union
    <3>2. IsFiniteSet(Robbed(k) \cap both)
      BY <2>2, FS_Intersection
    <3>3. /\ Cardinality(Robbed(k) \cap both) \in Nat
          /\ Cardinality(Robbed(k)) \in Nat /\ Cardinality(both) \in Nat
      BY <2>2, <3>2, FS_CardinalityType
    <3> HIDE DEF rest
    <3> QED
      BY <3>1, <3>3
  <2> HIDE DEF rest
  <2>7. /\ IsFiniteSet(rest \cup {lock[k].owner})
        /\ Cardinality(rest \cup {lock[k].owner}) =
             IF lock[k].owner \in rest THEN Cardinality(rest)
                                       ELSE Cardinality(rest) + 1
    BY <2>6, FS_AddElement, Zenon
  <2>8. Cardinality(Holders(k)) <= Cardinality(rest \cup {lock[k].owner})
    BY <2>4, <2>7, FS_Subset
  <2>9. /\ Cardinality(Holders(k)) \in Nat /\ Cardinality(rest) \in Nat
        /\ Cardinality(Robbed(k)) \in Nat /\ Cardinality(Gone(k)) \in Nat
        /\ Cardinality(both) \in Nat
    BY <2>1, <2>2, <2>6, FS_CardinalityType
  <2> QED
    BY <2>1, <2>5, <2>6, <2>7, <2>8, <2>9
<1> QED
  BY <1>1, HolderInitial, HolderInductive, PTL DEF Spec

-----------------------------------------------------------------------------
(* The entry a holder will replace is older than its tenure, on a key where *)
(* no lock has been dropped.                                                *)
EntryBeforeTenure == \A r \in Request :
  pc[r] \in {"fill", "set"} /\ Unlocked(KeyOf[r]) = {}
    => entry[KeyOf[r]].val.at <= since[r]

(* Where no lock has been dropped, every holder owns the lock.              *)
LEMMA HoldersOwn ==
  ASSUME HolderInv, NEW r \in Request, Holder(r), Unlocked(KeyOf[r]) = {}
  PROVE  Owns(r)
<1> DEFINE k == KeyOf[r]
<1>1. k \in Key
  BY CacheAssumption
<1>2. r \in Holders(k) /\ r \notin unlocked
  BY DEF Holders, Unlocked
<1>3. IsFiniteSet(Robbed(k)) /\ Gone(k) = {}
  BY <1>1, FS_Subset DEF HolderInv, RobbedBound, Robbed, Gone
<1>4. Cardinality(Robbed(k)) <= 0 /\ Cardinality(Robbed(k)) \in Nat
  BY <1>1, <1>3, FS_EmptySet, FS_CardinalityType DEF HolderInv, RobbedBound
<1>5. Robbed(k) = {}
  BY <1>3, <1>4, FS_EmptySet
<1> QED
  BY <1>2, <1>5 DEF Robbed

LEMMA EntryInductive ==
  ASSUME HolderInv, EntryBeforeTenure, [Next]_vars
  PROVE  EntryBeforeTenure'
<1> SUFFICES ASSUME NEW q \in Request, pc'[q] \in {"fill", "set"},
                    Unlocked(KeyOf[q])' = {}
             PROVE  entry'[KeyOf[q]].val.at <= since'[q]
  BY DEF EntryBeforeTenure
<1> DEFINE k == KeyOf[q]
<1> USE CacheAssumption
<1>1. TypeOK /\ TypeOK' /\ EntryAge /\ k \in Key
  BY TypeInductive DEF HolderInv, StaleInv
<1>2. Unlocked(k) = {}
  <2>1. PICK r \in Request \cup {NoOne} : Shape(k, r)
    BY <1>1, StepShape DEF HolderInv
  <2>2. q \in Holders(k)'
    BY DEF Holders, Holder
  <2> QED
    BY <2>1, <2>2 DEF Shape
<1>3. CASE /\ pc[q] \in {"fill", "set"} /\ since'[q] = since[q]
           /\ entry'[k] = entry[k]
  BY <1>2, <1>3 DEF EntryBeforeTenure
<1>4. ASSUME NEW r \in Request, Outside(r)
      PROVE  entry'[k].val.at <= since'[q]
  <2>1. q # r
    BY <1>1, <1>4, OutsideSteps
  <2> QED
    BY <1>1, <1>3, <1>4, <2>1, OutsideSteps, OtherCalls
       DEF Outside, FetchOrCache, AcquireLock, redis
<1>5. ASSUME NEW r \in Request, LockAcquired(r)
      PROVE  entry'[k].val.at <= since'[q]
  <2>1. entry' = entry
    BY <1>5 DEF LockAcquired
  <2>2. CASE q = r
    <3>1. since'[q] = now
      BY <1>1, <1>5, <2>2 DEF LockAcquired, Goto, Return, TypeOK
    <3> QED
      BY <1>1, <2>1, <3>1 DEF EntryAge
  <2>3. CASE q # r
    BY <1>1, <1>3, <1>5, <2>1, <2>3, OtherCalls DEF FetchOrCache, AcquireLock
  <2> QED
    BY <2>2, <2>3
<1>6. ASSUME NEW r \in Request, ForwardLocked(r) \/ Release(r) \/ Cancel(r)
      PROVE  entry'[k].val.at <= since'[q]
  <2>1. entry' = entry
    BY <1>6 DEF ForwardLocked, Release, Cancel, redis
  <2>2. CASE q = r
    BY <1>1, <1>3, <1>6, <2>1, <2>2
       DEF ForwardLocked, Release, Cancel, Goto, Return, TypeOK
  <2>3. CASE q # r
    BY <1>1, <1>3, <1>6, <2>1, <2>3, OtherCalls DEF FetchOrCache
  <2> QED
    BY <2>2, <2>3
<1>7. ASSUME NEW r \in Request, Set(r)
      PROVE  entry'[k].val.at <= since'[q]
  <2>1. q # r /\ pc[r] = "set"
    BY <1>1, <1>7 DEF Set, Goto, TypeOK
  <2>2. pc'[q] = pc[q] /\ since'[q] = since[q]
    BY <1>1, <1>7, <2>1, OtherCalls DEF FetchOrCache
  <2>3. Holder(q) /\ Holder(r)
    BY <2>1, <2>2 DEF Holder
  <2>4. KeyOf[r] # k
    BY <1>2, <2>1, <2>3, HoldersOwn DEF Owns
  <2>5. entry'[k] = entry[k]
    BY <1>1, <1>7, <2>4 DEF Set, TypeOK
  <2> QED
    BY <1>3, <2>2, <2>5
<1>8. CASE DataLoss
  BY <1>1, <1>8 DEF DataLoss, NoEntry, NoPayload, TypeOK
<1>9. CASE Tick \/ Outage \/ UNCHANGED vars
  BY <1>3, <1>9 DEF Tick, Outage, vars, redis
<1> QED
  BY <1>4, <1>5, <1>6, <1>7, <1>8, <1>9
     DEF Next, FetchOrCache, AcquireLock, Outside

(* The cache goes back only on a key whose holders have lost a lock, and by *)
(* one tenure at most, whatever Redis and the clients do                    *)
(* (server.go:319-324).                                                     *)
THEOREM RegressBounded == Spec => BoundedRegress
<1> DEFINE RegressInv == HolderInv /\ EntryBeforeTenure
           Bounded(k) == \/ entry'[k] = NoEntry
                         \/ entry'[k].val.at >= entry[k].val.at
                         \/ /\ Unlocked(k) # {}
                            /\ entry'[k].val.at + HoldMax >= entry[k].val.at
<1>1. Init => RegressInv
  BY HolderInitial DEF Init, EntryBeforeTenure
<1>2. RegressInv /\ [Next]_vars => RegressInv'
  BY HolderInductive, EntryInductive
<1>3. RegressInv /\ [Next]_vars => [\A k \in Key : Bounded(k)]_vars
  <2> SUFFICES ASSUME RegressInv, Next, NEW k \in Key
               PROVE  Bounded(k)
    BY Zenon
  <2> USE CacheAssumption
  <2>1. TypeOK /\ StaleInv /\ entry[k].val.at \in Nat
    BY DEF HolderInv, StaleInv, TypeOK, Payload
  <2>2. CASE entry' = entry
    BY <2>1, <2>2
  <2>3. ASSUME NEW r \in Request, Set(r), KeyOf[r] # k
        PROVE  Bounded(k)
    <3>1. entry'[k] = entry[k]
      BY <2>1, <2>3 DEF Set, TypeOK
    <3> QED
      BY <2>1, <3>1
  <2>4. ASSUME NEW r \in Request, Set(r), entry' # entry, KeyOf[r] = k
        PROVE  Bounded(k)
    <3>1. entry'[k].val = payload[r] /\ pc[r] = "set"
      BY <2>1, <2>4 DEF Set, TypeOK
    <3>2. /\ since[r] <= payload[r].at
          /\ now <= since[r] + HoldMax
          /\ entry[k].val.at <= now
      BY <2>1, <3>1 DEF StaleInv, Tenure, FreshFill, EntryAge, Holder
    <3>3. since[r] \in Nat /\ payload[r].at \in Nat /\ now \in Nat
      BY <2>1 DEF TypeOK, Payload
    <3>4. Unlocked(k) = {} => entry[k].val.at <= since[r]
      BY <2>4, <3>1 DEF EntryBeforeTenure
    <3> QED
      BY <2>1, <3>1, <3>2, <3>3, <3>4
  <2>5. CASE DataLoss
    BY <2>5 DEF DataLoss
  <2>6. entry' = entry \/ DataLoss \/ \E r \in Request : Set(r)
    BY OutsideSteps, <2>1
       DEF Next, FetchOrCache, AcquireLock, Outside, LockAcquired,
           ForwardLocked, Release, Tick, Cancel, Outage, redis
  <2> QED
    BY <2>2, <2>3, <2>4, <2>5, <2>6
<1> QED
  BY <1>1, <1>2, <1>3, PTL DEF Spec, BoundedRegress

-----------------------------------------------------------------------------
(* Locks are owned by calls for their key.                                  *)
OwnerKey == \A k \in Key :
  lock[k].owner \in Request => KeyOf[lock[k].owner] = k

LeakInv == TypeOK /\ redisUp /\ OwnerKey /\ NoLeakedLock

(* Every step leaves a lock as it is, deletes it, or is the SETNX that      *)
(* takes it.                                                                *)
LEMMA LeakInductive ==
  ASSUME RedisFaults \subseteq {"dataLoss"}
  PROVE  LeakInv /\ [Next]_vars => LeakInv'
<1> SUFFICES ASSUME LeakInv, [Next]_vars PROVE LeakInv'
  OBVIOUS
<1> USE CacheAssumption
<1>1. TypeOK /\ TypeOK'
  BY TypeInductive DEF LeakInv
<1>2. redisUp /\ ~RedisFails
  BY DEF LeakInv, RedisFails
<1>3. ASSUME redisUp' = redisUp, now' >= now,
             \A k \in Key : lock'[k] = lock[k] \/ lock'[k] = NoLock,
             \A q \in Request :
               \/ Holder(q) => Holder(q)' \/ pc'[q] = "dead"
               \/ lock'[KeyOf[q]] = NoLock,
             \A q \in Request : pc[q] = "dead" => pc'[q] = "dead"
      PROVE  LeakInv'
  <2>1. redisUp'
    BY <1>2, <1>3, Zenon
  <2>2. OwnerKey'
    BY <1>3 DEF LeakInv, OwnerKey, NoLock
  <2>3. NoLeakedLock'
    <3> SUFFICES ASSUME NEW k \in Key, Live(lock[k])'
                 PROVE  \E q \in Request : /\ lock'[k].owner = q
                                           /\ Holder(q)' \/ pc'[q] = "dead"
      BY DEF NoLeakedLock
    <3>1. lock'[k] # NoLock /\ lock'[k] = lock[k]
      BY <1>1, <1>3 DEF Live, NoLock, TypeOK
    <3>2. Live(lock[k])
      BY <1>1, <1>3, <3>1 DEF Live, TypeOK
    <3>3. PICK q \in Request : /\ lock[k].owner = q
                               /\ Holder(q) \/ pc[q] = "dead"
      BY <3>2 DEF LeakInv, NoLeakedLock
    <3>4. KeyOf[q] = k
      BY <3>3 DEF LeakInv, OwnerKey
    <3> QED
      BY <1>3, <3>1, <3>3, <3>4
  <2> QED
    BY <1>1, <2>1, <2>2, <2>3 DEF LeakInv
<1>4. ASSUME NEW r \in Request, Still(r) PROVE LeakInv'
  <2>1. redisUp' = redisUp /\ (pc[r] = "dead" => pc'[r] = "dead")
    BY <1>1, <1>4
       DEF Still, Bypass, Get, LockBusy, LockFailed, WaitForLock, PollHit,
           PollFailed, WaitTimeout, StopWaiting, ForwardOnly, ForwardLocked,
           Set, Cancel, redis
  <2>2. \A q \in Request \ {r} : pc'[q] = pc[q]
    BY <1>1, <1>4, OtherCalls DEF Still, FetchOrCache, AcquireLock
  <2>3. /\ now' = now /\ lock' = lock
        /\ \A q \in Request : Holder(q)' <=> Holder(q)
    BY <1>1, <1>4, StillSteps
  <2> QED
    BY <1>1, <1>3, <2>1, <2>2, <2>3 DEF TypeOK
<1>5. ASSUME NEW r \in Request, Crash(r) PROVE LeakInv'
  <2>1. /\ redisUp' = redisUp /\ now' = now /\ lock' = lock
        /\ pc'[r] = "dead"
    BY <1>1, <1>5 DEF Crash, Goto, redis, TypeOK
  <2>2. \A q \in Request \ {r} : pc'[q] = pc[q]
    BY <1>1, <1>5, OtherCalls
  <2> QED
    BY <1>1, <1>3, <2>1, <2>2 DEF Holder, TypeOK
<1>6. ASSUME NEW r \in Request, Release(r) PROVE LeakInv'
  <2>1. /\ redisUp' = redisUp /\ now' = now /\ pc[r] = "release"
        /\ lock' = [lock EXCEPT ![KeyOf[r]] = NoLock]
    BY <1>2, <1>6, Zenon DEF Release
  <2>2. \A q \in Request \ {r} : pc'[q] = pc[q]
    BY <1>1, <1>6, OtherCalls DEF FetchOrCache
  <2>3. \A k \in Key : lock'[k] = lock[k] \/ lock'[k] = NoLock
    BY <1>1, <2>1 DEF TypeOK
  <2>4. lock'[KeyOf[r]] = NoLock
    BY <1>1, <2>1 DEF TypeOK
  <2> QED
    BY <1>1, <1>3, <2>1, <2>2, <2>3, <2>4 DEF Holder, TypeOK
<1>7. ASSUME NEW r \in Request, LockAcquired(r) PROVE LeakInv'
  <2>1. /\ redisUp' = redisUp /\ now' = now /\ pc[r] = "setnx"
        /\ lock' = [lock EXCEPT ![KeyOf[r]] =
                      [owner |-> r, expires |-> now + CacheLockTTL]]
        /\ Goto(r, "fill")
    BY <1>7, Zenon DEF LockAcquired
  <2>2. pc' = [pc EXCEPT ![r] = "fill"]
    BY <2>1 DEF Goto
  <2>3. OwnerKey'
    BY <1>1, <2>1 DEF LeakInv, OwnerKey, TypeOK
  <2>4. NoLeakedLock'
    <3> SUFFICES ASSUME NEW k \in Key, Live(lock[k])'
                 PROVE  \E q \in Request : /\ lock'[k].owner = q
                                           /\ Holder(q)' \/ pc'[q] = "dead"
      BY DEF NoLeakedLock
    <3>1. CASE k = KeyOf[r]
      BY <1>1, <2>1, <2>2, <3>1 DEF Holder, TypeOK
    <3>2. CASE k # KeyOf[r]
      <4>1. lock'[k] = lock[k] /\ Live(lock[k])
        BY <1>1, <2>1, <3>2 DEF Live, TypeOK
      <4>2. PICK q \in Request : /\ lock[k].owner = q
                                 /\ Holder(q) \/ pc[q] = "dead"
        BY <4>1 DEF LeakInv, NoLeakedLock
      <4>3. q # r
        BY <2>1, <4>2 DEF Holder
      <4> QED
        BY <1>1, <2>2, <4>1, <4>2, <4>3 DEF Holder, TypeOK
    <3> QED
      BY <3>1, <3>2
  <2>5. redisUp'
    BY <1>2, <2>1, Zenon
  <2> QED
    BY <1>1, <2>3, <2>4, <2>5 DEF LeakInv
<1>8. CASE Tick \/ DataLoss \/ UNCHANGED vars
  <2>1. redisUp' = redisUp /\ pc' = pc
    BY <1>8, Zenon DEF Tick, DataLoss, vars, redis
  <2>2. now' >= now
    BY <1>1, <1>8 DEF Tick, DataLoss, vars, TypeOK
  <2>3. \A k \in Key : lock'[k] = lock[k] \/ lock'[k] = NoLock
    BY <1>8 DEF Tick, DataLoss, vars, redis
  <2> QED
    BY <1>3, <2>1, <2>2, <2>3 DEF Holder
<1>9. ~Outage
  BY DEF Outage
<1> QED
  BY <1>4, <1>5, <1>6, <1>7, <1>8, <1>9
     DEF Next, FetchOrCache, AcquireLock, Still

(* As long as Redis answers, and even if it forgets its keys, every path    *)
(* out of fetchOrCache gives the lock back, however long the tenures: only  *)
(* a crash leaves one behind (server.go:315-317).                           *)
THEOREM LockReleased ==
  ASSUME RedisFaults \subseteq {"dataLoss"}
  PROVE  Spec => []NoLeakedLock
<1>1. Init => LeakInv
  <2> SUFFICES ASSUME Init PROVE LeakInv
    OBVIOUS
  <2>1. OwnerKey /\ NoLeakedLock
    BY CacheAssumption DEF Init, OwnerKey, NoLeakedLock, Live, NoLock
  <2> QED
    BY <2>1, TypeInitial, Zenon DEF LeakInv, Init
<1>2. LeakInv => NoLeakedLock
  BY DEF LeakInv
<1> QED
  BY <1>1, <1>2, LeakInductive, PTL DEF Spec
=============================================================================
