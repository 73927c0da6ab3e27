------------------------------- MODULE Loadgen ------------------------------
(***************************************************************************)
(* The load generator, cmd/loadgen/main.go: planJobs feeds a bounded       *)
(* channel, workers take jobs from it, generate one batch per job and      *)
(* write it to all targets at once, with retries; main waits for the       *)
(* workers and reports.                                                    *)
(*                                                                         *)
(* Job numbers are consecutive and the channel is first in, first out, so  *)
(* it holds the jobs taken..planned-1.  A batch is its job and a draw: its *)
(* points carry time.Now(), so generating it twice gives other contents    *)
(* and another length.  A target keeps a set of batches, because writing   *)
(* the same points again changes nothing.                                  *)
(***************************************************************************)
EXTENDS Integers, Sums

CONSTANTS
  Worker, Target,
  TotalBytes,   \* target-bytes
  MaxBatch,     \* max-batch-bytes
  QueueCap,     \* capacity of the channel, workers*2 in the code
  MaxRetries,   \* max-retries
  Draw,         \* bytes by which a batch may exceed the size of its job
  WriteErrors   \* the errors of a write this instance includes

(* What writeBatch reports when it does not get a 204: a status of 500 or   *)
(* more, a lower one whose body speaks of memory or of something temporary, *)
(* any other status, a transport error that is a timeout, or another.       *)
ErrorKind == {"5xx", "busy", "refused", "timeout", "broken"}

ASSUME LoadAssumption ==
  /\ Worker # {} /\ Target # {}
  /\ TotalBytes \in Nat \ {0} /\ MaxBatch \in Nat \ {0}
  /\ QueueCap \in Nat \ {0} /\ MaxRetries \in Nat
  /\ Draw \subseteq Nat
  /\ WriteErrors \subseteq ErrorKind

VARIABLES
  planned, taken,  \* jobs sent to the channel, jobs received from it
  pc,              \* where a worker is
  batch,           \* the batch a worker writes
  attempt,         \* its retries so far
  asked,           \* the targets that have answered the current attempt
  failure,         \* the first error in errCh
  stored,          \* what every target holds
  late,            \* failed writes that may yet change a target
  firstErr,        \* the atomic.Value of main
  bytesSent,       \* progress.bytesSent
  outcome          \* how main ended

vars == <<planned, taken, pc, batch, attempt, asked, failure, stored, late,
          firstErr, bytesSent, outcome>>

Batch == [id: Nat, over: Nat]
NoBatch == [id |-> -1, over |-> 0]
SizeOf(i) ==
  LET rem == TotalBytes - i * MaxBatch
  IN  IF rem < MaxBatch THEN rem ELSE MaxBatch
Length(b) == SizeOf(b.id) + b.over

Closed == planned * MaxBatch >= TotalBytes
IsRetryable(e) == e \in {"5xx", "busy", "timeout"}
BugMayRetry(w) == IsRetryable(failure[w]) /\ attempt[w] <= MaxRetries
MayRetry(w) == IsRetryable(failure[w]) /\ attempt[w] < MaxRetries
Goto(w, next) == pc' = [pc EXCEPT ![w] = next]

Init ==
  /\ planned = 0 /\ taken = 0
  /\ pc = [w \in Worker |-> "range"]
  /\ batch = [w \in Worker |-> NoBatch]
  /\ attempt = [w \in Worker |-> 0]
  /\ asked = [w \in Worker |-> {}]
  /\ failure = [w \in Worker |-> "none"]
  /\ stored = [t \in Target |-> {}]
  /\ late = {}
  /\ firstErr = "none"
  /\ bytesSent = 0
  /\ outcome = "running"

-----------------------------------------------------------------------------
(* planJobs: the send blocks while the channel is full.                     *)
PlanJobs ==
  /\ outcome = "running"
  /\ ~Closed
  /\ planned - taken < QueueCap
  /\ planned' = planned + 1
  /\ UNCHANGED <<taken, pc, batch, attempt, asked, failure, stored, late,
                 firstErr, bytesSent, outcome>>

(* The worker's range over the channel: the next job, or the end.           *)
BugReceive(w) ==
  /\ pc[w] = "range"
  /\ \/ /\ taken < planned
        /\ taken' = taken + 1
        /\ batch' = [batch EXCEPT ![w] = [id |-> taken, over |-> 0]]
        /\ Goto(w, "received")
     \/ /\ taken = planned
        /\ Goto(w, "returned")
        /\ UNCHANGED <<taken, batch>>
  /\ UNCHANGED <<planned, attempt, asked, failure, stored, late, firstErr,
                 bytesSent, outcome>>

Receive(w) ==
  /\ pc[w] = "range"
  /\ \/ /\ taken < planned
        /\ taken' = taken + 1
        /\ batch' = [batch EXCEPT ![w] = [id |-> taken, over |-> 0]]
        /\ Goto(w, "received")
     \/ /\ taken = planned /\ Closed
        /\ Goto(w, "returned")
        /\ UNCHANGED <<taken, batch>>
  /\ UNCHANGED <<planned, attempt, asked, failure, stored, late, firstErr,
                 bytesSent, outcome>>

(* A job received after a failure is dropped; otherwise its batch is made.  *)
Generate(w) ==
  /\ pc[w] = "received"
  /\ \/ /\ firstErr # "none"
        /\ Goto(w, "returned")
        /\ UNCHANGED batch
     \/ /\ firstErr = "none"
        /\ \E d \in Draw :
             batch' = [batch EXCEPT ![w] = [id |-> @.id, over |-> d]]
        /\ Goto(w, "write")
  /\ UNCHANGED <<planned, taken, attempt, asked, failure, stored, late,
                 firstErr, bytesSent, outcome>>

(* A goroutine of writeBatchToAll.  A write that does not get a 204 may     *)
(* have taken effect, may do so later, or never.                            *)
WriteBatch(w, t) ==
  /\ pc[w] = "write" /\ t \notin asked[w]
  /\ asked' = [asked EXCEPT ![w] = @ \cup {t}]
  /\ \/ /\ stored' = [stored EXCEPT ![t] = @ \cup {batch[w]}]
        /\ late' = late \ {<<t, batch[w]>>}
        /\ UNCHANGED failure
     \/ \E e \in WriteErrors :
          /\ failure' = [failure EXCEPT ![w] = IF @ = "none" THEN e ELSE @]
          /\ late' = late \cup {<<t, x>> : x \in {batch[w]} \ stored[t]}
          /\ UNCHANGED stored
  /\ UNCHANGED <<planned, taken, pc, batch, attempt, firstErr, bytesSent,
                 outcome>>

NextAttempt(w, n) ==
  /\ attempt' = [attempt EXCEPT ![w] = n]
  /\ asked' = [asked EXCEPT ![w] = {}]
  /\ failure' = [failure EXCEPT ![w] = "none"]

(* wg.Wait in writeBatchToAll.                                              *)
BugJoined(w) == pc[w] = "write" /\ asked[w] # {}
Joined(w) == pc[w] = "write" /\ asked[w] = Target

BugSucceed(w) ==
  /\ Joined(w) /\ failure[w] = "none"
  /\ bytesSent' = bytesSent + SizeOf(batch[w].id)
  /\ Goto(w, "range")
  /\ batch' = [batch EXCEPT ![w] = NoBatch]
  /\ NextAttempt(w, 0)
  /\ UNCHANGED <<planned, taken, stored, late, firstErr, outcome>>

Succeed(w) ==
  /\ Joined(w) /\ failure[w] = "none"
  /\ bytesSent' = bytesSent + Length(batch[w])
  /\ Goto(w, "range")
  /\ batch' = [batch EXCEPT ![w] = NoBatch]
  /\ NextAttempt(w, 0)
  /\ UNCHANGED <<planned, taken, stored, late, firstErr, outcome>>

(* The first error alone decides; the batch is sent again as it is, to all  *)
(* targets.                                                                 *)
Retry(w) ==
  /\ Joined(w) /\ failure[w] # "none" /\ MayRetry(w)
  /\ NextAttempt(w, attempt[w] + 1)
  /\ UNCHANGED <<planned, taken, pc, batch, stored, late, firstErr, bytesSent,
                 outcome>>

(* firstErr.Load, and after it firstErr.Store: two steps.                   *)
GiveUp(w) ==
  /\ Joined(w) /\ failure[w] # "none" /\ ~MayRetry(w)
  /\ Goto(w, IF firstErr = "none" THEN "store" ELSE "returned")
  /\ UNCHANGED <<planned, taken, batch, attempt, asked, failure, stored, late,
                 firstErr, bytesSent, outcome>>

StoreErr(w) ==
  /\ pc[w] = "store"
  /\ firstErr' = failure[w]
  /\ Goto(w, "returned")
  /\ UNCHANGED <<planned, taken, batch, attempt, asked, failure, stored, late,
                 bytesSent, outcome>>

WorkerStep(w) ==
  \/ Receive(w) \/ Generate(w) \/ \E t \in Target : WriteBatch(w, t)
  \/ Succeed(w) \/ Retry(w) \/ GiveUp(w) \/ StoreErr(w)

(* main after wg.Wait; the process ends, and planJobs with it.              *)
BugFinish ==
  /\ outcome = "running" /\ Closed
  /\ \A w \in Worker : pc[w] = "returned"
  /\ outcome' = IF firstErr = "none" THEN "complete" ELSE "failed"
  /\ UNCHANGED <<planned, taken, pc, batch, attempt, asked, failure, stored,
                 late, firstErr, bytesSent>>

Finish ==
  /\ outcome = "running"
  /\ \A w \in Worker : pc[w] = "returned"
  /\ outcome' = IF firstErr = "none" THEN "complete" ELSE "failed"
  /\ UNCHANGED <<planned, taken, pc, batch, attempt, asked, failure, stored,
                 late, firstErr, bytesSent>>

(* A target applies a write whose answer was lost or negative (applying it  *)
(* to a target that has the batch already would change nothing).            *)
LateWrite ==
  /\ \E u \in late :
       /\ late' = late \ {u}
       /\ stored' = [stored EXCEPT ![u[1]] = @ \cup {u[2]}]
  /\ UNCHANGED <<planned, taken, pc, batch, attempt, asked, failure, firstErr,
                 bytesSent, outcome>>

Next ==
  \/ PlanJobs
  \/ \E w \in Worker : WorkerStep(w)
  \/ Finish
  \/ LateWrite

Spec == Init /\ [][Next]_vars

(* Goroutines are scheduled and every exchange ends, by the client's        *)
(* timeout if need be; nothing is assumed of what the targets answer.       *)
Fairness ==
  /\ WF_vars(PlanJobs) /\ WF_vars(Finish)
  /\ \A w \in Worker : WF_vars(WorkerStep(w))

FairSpec == Spec /\ Fairness

-----------------------------------------------------------------------------
TypeOK ==
  /\ planned \in Nat /\ taken \in Nat /\ taken <= planned
  /\ planned - taken <= QueueCap
  /\ pc \in [Worker -> {"range", "received", "write", "store", "returned"}]
  /\ batch \in [Worker -> Batch \cup {NoBatch}]
  /\ attempt \in [Worker -> 0..MaxRetries]
  /\ asked \in [Worker -> SUBSET Target]
  /\ failure \in [Worker -> ErrorKind \cup {"none"}]
  /\ stored \in [Target -> SUBSET Batch]
  /\ late \in SUBSET (Target \X Batch)
  /\ firstErr \in ErrorKind \cup {"none"}
  /\ bytesSent \in Int
  /\ outcome \in {"running", "complete", "failed"}

(* docs/large-testing.md:11 promises "deterministic fan-out writes so all   *)
(* targets stay identical": when main reports completion every target holds *)
(* one and the same batch for each planned job and nothing else, although   *)
(* attempts failed on some targets, were repeated, or took effect late      *)
(* (main.go:124-153,200-221).                                               *)
CompleteIsIdentical ==
  outcome = "complete" =>
    /\ Closed
    /\ \A t, u \in Target : stored[t] = stored[u]
    /\ \A t \in Target, i \in 0..(planned - 1) :
         \E b \in stored[t] : b.id = i
    /\ \A t \in Target : \A b, c \in stored[t] : b.id = c.id => b = c

(* Until then, and in a load that fails, the targets differ in one batch    *)
(* per worker at most: the one it is writing or gave up (main.go:200-221).  *)
Writing(w) == pc[w] \in {"write", "store", "returned"}

DivergenceInFlight ==
  \A t, u \in Target : \A b \in stored[t] \ stored[u] :
    \E w \in Worker : Writing(w) /\ batch[w] = b

(* "complete: bytes_per_target=" is what every target was really sent, and  *)
(* at least what was asked for (main.go:133,164-165).                       *)
BytesReported ==
  outcome = "complete" =>
    /\ bytesSent >= TotalBytes
    /\ \A t \in Target : bytesSent = SumOf([b \in stored[t] |-> Length(b)])

(* The load ends, complete or failed, although planJobs may be left blocked *)
(* on a full channel that nobody reads any more (main.go:125,157,178).      *)
LoadEnds == <>(outcome # "running")
=============================================================================
