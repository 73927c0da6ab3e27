------------------------------ MODULE Upstream ------------------------------
(***************************************************************************)
(* The upstream manager (internal/upstream/manager.go) together with the   *)
(* retry loops that drive it (forward and forwardRead in                   *)
(* internal/gateway/server.go).                                            *)
(*                                                                         *)
(* Every call of forward or forwardRead is a process.  One iteration of    *)
(* its loop reads the clock, scans the breakers under the read lock, takes *)
(* the next round-robin ticket after the lock is released, waits for the   *)
(* target's answer and records the outcome under the write lock.  The      *)
(* health loop is one more process that records outcomes.  Targets break   *)
(* and recover, and clients abandon their requests, at any moment.         *)
(***************************************************************************)
EXTENDS WeightedTargets

CONSTANTS
  QueryCall,        \* calls of forward
  ReadCall,         \* calls of forwardRead
  ForwardRetries,
  BreakerFailures,
  BreakerCooldown,
  Probing,          \* cfg.ProbeInterval > 0
  MaxTime           \* bound on the clock

Call == QueryCall \cup ReadCall

ASSUME ConfigAssumption ==
  /\ ForwardRetries \in Int
  /\ BreakerFailures \in Int
  /\ BreakerCooldown \in Nat
  /\ Probing \in BOOLEAN
  /\ MaxTime \in Nat
  /\ IsFiniteSet(Call)

VARIABLES
  now,         \* the wall clock
  failures,    \* targetStates[n].consecutiveFailures
  openUntil,   \* targetStates[n].circuitOpenUntil; 0 is the zero time
  rr,          \* the round-robin ticket counter
  pc,          \* where a call is in its loop
  attempt,     \* the loop variable i
  tried,       \* names already tried by the call
  seen,        \* the time PickTarget read before taking the lock
  cand,        \* candidates: targets whose slots PickTarget may take
  target,      \* the target of the attempt in progress; 0 outside one
  answer,      \* outcome of the last attempt ("none" is lastErr == nil)
  result,      \* what the call returned
  probe,       \* the target the health loop is at; 0 between two rounds
  probeAnswer, \* outcome of the current probe, "none" while it is in flight
  healthy,     \* targets that answer queries below 500 and probes with 2xx
  faulted,     \* history: targets that have ever been unhealthy
  cancelled    \* calls whose request context has been cancelled

manager == <<failures, openUntil>>
loop == <<pc, attempt, tried, seen, cand, target, answer, result>>
prober == <<probe, probeAnswer>>
environment == <<healthy, faulted, cancelled>>
vars == <<now, manager, rr, loop, prober, environment>>

-----------------------------------------------------------------------------
(* The loops make at least one attempt.                                     *)
Attempts == IF ForwardRetries + 1 < 1 THEN 1 ELSE ForwardRetries + 1

IsOpen(n, at) == at < openUntil[n]

(* The targets a scan finds: those not excluded whose circuit is not open,  *)
(* or, when there is none, all those not excluded (the fallback list).      *)
Untried(exclude) == {k \in Index : NameOf(k) \notin exclude}
Closed(exclude, at) == {k \in Untried(exclude) : ~IsOpen(NameOf(k), at)}

BugCandidates(exclude, at) == Closed(exclude, at)
Candidates(exclude, at) ==
  IF Slots(Closed(exclude, at)) # {} THEN Closed(exclude, at)
                                     ELSE Untried(exclude)

-----------------------------------------------------------------------------
(* The two writers of a target's state, each under the write lock.          *)
BugRecordSuccess(n) ==
  /\ failures' = [failures EXCEPT ![n] = 0]
  /\ UNCHANGED openUntil

RecordSuccess(n) ==
  /\ failures' = [failures EXCEPT ![n] = 0]
  /\ openUntil' = [openUntil EXCEPT ![n] = 0]

BugRecordFailure(n) ==
  IF failures[n] + 1 >= BreakerFailures
    THEN /\ failures' = [failures EXCEPT ![n] = 0]
         /\ openUntil' = [openUntil EXCEPT ![n] =
              (IF now < @ THEN @ ELSE now) + BreakerCooldown]
    ELSE /\ failures' = [failures EXCEPT ![n] = @ + 1]
         /\ UNCHANGED openUntil

RecordFailure(n) ==
  IF failures[n] + 1 >= BreakerFailures
    THEN /\ failures' = [failures EXCEPT ![n] = 0]
         /\ openUntil' = [openUntil EXCEPT ![n] = now + BreakerCooldown]
    ELSE /\ failures' = [failures EXCEPT ![n] = @ + 1]
         /\ UNCHANGED openUntil

-----------------------------------------------------------------------------
(* One call of forward or forwardRead.                                      *)
Init ==
  /\ now = 1
  /\ failures = [n \in Name |-> 0]
  /\ openUntil = [n \in Name |-> 0]
  /\ rr = 0
  /\ pc = [c \in Call |-> "clock"]
  /\ attempt = [c \in Call |-> 0]
  /\ tried = [c \in Call |-> {}]
  /\ seen = [c \in Call |-> 0]
  /\ cand = [c \in Call |-> {}]
  /\ target = [c \in Call |-> 0]
  /\ answer = [c \in Call |-> "none"]
  /\ result = [c \in Call |-> "none"]
  /\ probe = 0
  /\ probeAnswer = "none"
  /\ healthy = Index
  /\ faulted = {}
  /\ cancelled = {}

Return(c, res) ==
  /\ pc' = [pc EXCEPT ![c] = "done"]
  /\ result' = [result EXCEPT ![c] = res]

(* PickTarget reads time.Now() before it asks for the lock.                 *)
ReadClock(c) ==
  /\ pc[c] = "clock"
  /\ seen' = [seen EXCEPT ![c] = now]
  /\ pc' = [pc EXCEPT ![c] = "scan"]
  /\ UNCHANGED <<now, manager, rr, attempt, tried, cand, target, answer,
                 result, prober, environment>>

(* PickTarget scans the breakers under the read lock.  With no candidate    *)
(* the loop breaks, and the call fails with lastErr, or with "no available  *)
(* targets" when no attempt was made.                                       *)
Scan(c) ==
  LET K == Candidates(tried[c], seen[c]) IN
  /\ pc[c] = "scan"
  /\ seen' = [seen EXCEPT ![c] = 0]
  /\ IF Slots(K) # {}
       THEN /\ cand' = [cand EXCEPT ![c] = K]
            /\ pc' = [pc EXCEPT ![c] = "take"]
            /\ UNCHANGED result
       ELSE /\ Return(c, IF answer[c] = "none" THEN "noTargets" ELSE "error")
            /\ UNCHANGED cand
  /\ UNCHANGED <<now, manager, rr, attempt, tried, target, answer, prober,
                 environment>>

(* The atomic ticket, drawn after the read lock is released, selects the    *)
(* slot; the caller marks the name as tried and sends the request.          *)
BugTake(c) ==
  /\ pc[c] = "take"
  /\ rr' = NextTicket(rr)
  /\ \E k \in Picks(cand[c], rr') : target' = [target EXCEPT ![c] = k]
  /\ cand' = [cand EXCEPT ![c] = {}]
  /\ pc' = [pc EXCEPT ![c] = "await"]
  /\ UNCHANGED <<now, manager, attempt, tried, seen, answer, result, prober,
                 environment>>

Take(c) ==
  /\ pc[c] = "take"
  /\ rr' = NextTicket(rr)
  /\ \E k \in Picks(cand[c], rr') :
       /\ target' = [target EXCEPT ![c] = k]
       /\ tried' = [tried EXCEPT ![c] = @ \cup {NameOf(k)}]
  /\ cand' = [cand EXCEPT ![c] = {}]
  /\ pc' = [pc EXCEPT ![c] = "await"]
  /\ UNCHANGED <<now, manager, attempt, seen, answer, result, prober,
                 environment>>

(* The answers target k can give a call.  A healthy target answers below    *)
(* 500; an unhealthy one fails in transport, times out or answers 5xx, and  *)
(* a cancelled context is a transport error whatever the target does.       *)
BugAnswersOf(k, c) ==
  (IF k \in healthy THEN {"below500"} ELSE {})
    \cup (IF c \in cancelled THEN {"error"} ELSE {})

AnswersOf(k, c) ==
  (IF k \in healthy THEN {"below500"} ELSE {"5xx", "error"})
    \cup (IF c \in cancelled THEN {"error"} ELSE {})

Answer(c) ==
  /\ pc[c] = "await"
  /\ \E a \in AnswersOf(target[c], c) : answer' = [answer EXCEPT ![c] = a]
  /\ pc' = [pc EXCEPT ![c] = "record"]
  /\ UNCHANGED <<now, manager, rr, attempt, tried, seen, cand, target, result,
                 prober, environment>>

(* The tail of an iteration.  A status below 500 is a success and ends the  *)
(* loop.  Anything else is a failure: the loop goes on while attempts are   *)
(* left; after the last one a 5xx is returned to the caller as it is, while *)
(* a transport error becomes the call's error.                              *)
RecordAnswer(c) ==
  LET n == NameOf(target[c])
      again == attempt[c] + 1 < Attempts
  IN
  /\ pc[c] = "record"
  /\ \/ /\ answer[c] = "below500"
        /\ RecordSuccess(n)
        /\ Return(c, "below500")
        /\ UNCHANGED attempt
     \/ /\ answer[c] # "below500"
        /\ RecordFailure(n)
        /\ attempt' = [attempt EXCEPT ![c] = @ + 1]
        /\ IF again
             THEN pc' = [pc EXCEPT ![c] = "clock"] /\ UNCHANGED result
             ELSE Return(c, answer[c])
  /\ target' = [target EXCEPT ![c] = 0]
  /\ UNCHANGED <<now, rr, tried, seen, cand, answer, prober, environment>>

CallStep(c) ==
  ReadClock(c) \/ Scan(c) \/ Take(c) \/ Answer(c) \/ RecordAnswer(c)

Forward(c) == c \in QueryCall /\ CallStep(c)
ForwardRead(c) == c \in ReadCall /\ CallStep(c)

-----------------------------------------------------------------------------
(* The health loop: on a tick it probes every target in turn and records    *)
(* each outcome before the next probe.                                      *)
ProbeTick ==
  /\ Probing
  /\ probe = 0
  /\ probe' = 1
  /\ UNCHANGED <<now, manager, rr, loop, probeAnswer, environment>>

(* A target whose queries fail may still pass its health check.             *)
ProbeReply ==
  /\ probe # 0
  /\ probeAnswer = "none"
  /\ \E a \in (IF probe \in healthy THEN {"2xx"} ELSE {"2xx", "failed"}) :
       probeAnswer' = a
  /\ UNCHANGED <<now, manager, rr, loop, probe, environment>>

ProbeRecord ==
  /\ probeAnswer # "none"
  /\ IF probeAnswer = "2xx" THEN RecordSuccess(NameOf(probe))
                            ELSE RecordFailure(NameOf(probe))
  /\ probeAnswer' = "none"
  /\ probe' = IF probe = Len(Targets) THEN 0 ELSE probe + 1
  /\ UNCHANGED <<now, rr, loop, environment>>

HealthLoop == ProbeTick \/ ProbeReply \/ ProbeRecord

-----------------------------------------------------------------------------
(* The environment: time, targets and clients.                              *)
Tick ==
  /\ now < MaxTime
  /\ now' = now + 1
  /\ UNCHANGED <<manager, rr, loop, prober, environment>>

Break(k) ==
  /\ k \in healthy
  /\ healthy' = healthy \ {k}
  /\ faulted' = faulted \cup {k}
  /\ UNCHANGED <<now, manager, rr, loop, prober, cancelled>>

Repair(k) ==
  /\ k \notin healthy
  /\ healthy' = healthy \cup {k}
  /\ UNCHANGED <<now, manager, rr, loop, prober, faulted, cancelled>>

Cancel(c) ==
  /\ pc[c] # "done"
  /\ c \notin cancelled
  /\ cancelled' = cancelled \cup {c}
  /\ UNCHANGED <<now, manager, rr, loop, prober, healthy, faulted>>

Next ==
  \/ \E c \in Call : Forward(c) \/ ForwardRead(c) \/ Cancel(c)
  \/ HealthLoop
  \/ Tick
  \/ \E k \in Index : Break(k) \/ Repair(k)

Spec == Init /\ [][Next]_vars

(* Goroutines are scheduled and every exchange ends: the client has a       *)
(* timeout, each probe a three-second deadline.  Nothing is assumed of      *)
(* targets, of clients or of time.                                          *)
Fairness ==
  /\ \A c \in Call : WF_vars(Forward(c)) /\ WF_vars(ForwardRead(c))
  /\ WF_vars(HealthLoop)

FairSpec == Spec /\ Fairness

-----------------------------------------------------------------------------
Outcome == {"none", "below500", "5xx", "error"}

TypeOK ==
  /\ now \in Nat
  /\ failures \in [Name -> Int]
  /\ openUntil \in [Name -> Int]
  /\ rr \in 0..(CounterRange - 1)
  /\ pc \in [Call -> {"clock", "scan", "take", "await", "record", "done"}]
  /\ attempt \in [Call -> Nat]
  /\ tried \in [Call -> SUBSET Name]
  /\ seen \in [Call -> Nat]
  /\ cand \in [Call -> SUBSET Index]
  /\ target \in [Call -> Index \cup {0}]
  /\ answer \in [Call -> Outcome]
  /\ result \in [Call -> Outcome \cup {"noTargets"}]
  /\ probe \in Index \cup {0}
  /\ probeAnswer \in {"none", "2xx", "failed"}
  /\ healthy \in SUBSET Index
  /\ faulted \in SUBSET Index
  /\ cancelled \in SUBSET Call

(* However many circuits are open, a call finds a target for its first      *)
(* attempt: "no available targets" is never returned (server.go:374-376).   *)
(* It rests on the weights LoadConfig raises to 1 and on the fallback list. *)
AlwaysATarget == \A c \in Call : result[c] # "noTargets"

(* A circuit is never open beyond one cooldown from now, however many late  *)
(* failures are recorded while it is open: cooldowns do not pile up, and    *)
(* the failure count restarts below the threshold at each opening           *)
(* (manager.go:93-96).                                                      *)
BreakerBounded ==
  \A n \in Name :
    /\ openUntil[n] <= now + BreakerCooldown
    /\ failures[n] <= 0 \/ failures[n] < BreakerFailures

(* The targets of a name have never been unhealthy.                         *)
NeverFaulted(n) == \A k \in faulted : NameOf(k) # n

(* RecordFailure does not ask why an exchange failed, so requests their     *)
(* clients abandoned open circuits too.  A circuit over targets that never  *)
(* failed takes at least BreakerFailures abandoned calls: one call charges  *)
(* a name at most once, through its tried set (server.go:343,353).          *)
HealthyOpensOnlyByCancel ==
  \A n \in Name :
    (NeverFaulted(n) /\ openUntil[n] # 0)
      => Cardinality(cancelled) >= BreakerFailures

(* A call fails only after it has used up its attempts or has tried every   *)
(* configured name, and no name is charged twice by a call                  *)
(* (server.go:338-343).                                                     *)
FailsOnlyWhenExhausted ==
  \A c \in Call :
    /\ result[c] \in {"error", "5xx"} =>
         (attempt[c] = Attempts \/ \A k \in Index : NameOf(k) \in tried[c])
    /\ pc[c] = "done" /\ result[c] # "below500" =>
         Cardinality(tried[c]) = attempt[c]

(* Every call of forward and forwardRead returns.                           *)
CallsReturn == \A c \in Call : <>(pc[c] = "done")

(* Once the targets of a name stay healthy the health loop closes its       *)
(* circuit for good, whatever failures were in flight (manager.go:136-137), *)
(* even if the cooldown never elapses.                                      *)
RecoveredCloses ==
  \A n \in Name :
    <>[](\A k \in Index : NameOf(k) = n => k \in healthy)
      => <>[](openUntil[n] = 0)
=============================================================================
