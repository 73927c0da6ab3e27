--------------------------- MODULE LoadgenProofs ----------------------------
(***************************************************************************)
(* Theorems about Loadgen, for any number of workers, targets and jobs,    *)
(* any retries and any errors of the targets.                              *)
(***************************************************************************)
EXTENDS Loadgen, SumsProofs

-----------------------------------------------------------------------------
(* The inductive invariant.                                                 *)

(* A batch some target has, or may yet get.                                 *)
Known(b) == \E t \in Target : b \in stored[t] \/ <<t, b>> \in late

(* It is being written, was given up, or is everywhere.                     *)
Accounted(b) ==
  \/ \E w \in Worker : Writing(w) /\ batch[w] = b
  \/ \A t \in Target : b \in stored[t]

AllAccounted == \A b \in Batch : Known(b) => Accounted(b)

(* No job is with two workers, and none is generated twice.                 *)
OwnJob == \A w, v \in Worker :
  batch[w] # NoBatch /\ batch[w].id = batch[v].id => w = v

JobTaken ==
  /\ \A w \in Worker : batch[w].id < taken
  /\ \A b \in Batch : Known(b) => b.id < taken

OneBatch ==
  /\ \A b \in Batch, w \in Worker :
       Known(b) /\ batch[w].id = b.id => Writing(w) /\ batch[w] = b
  /\ \A b, c \in Batch : Known(b) /\ Known(c) /\ b.id = c.id => b = c

(* A job that was taken is with a worker or on every target.                *)
Served(i) ==
  \/ \E w \in Worker : batch[w].id = i
  \/ \A t \in Target : \E b \in stored[t] : b.id = i

NoJobLost == \A i \in 0..(taken - 1) : Served(i)

(* The local state of a worker.                                             *)
Locals == \A w \in Worker :
  /\ pc[w] \in {"received", "write", "store"} => batch[w] # NoBatch
  /\ pc[w] = "range" => batch[w] = NoBatch
  /\ pc[w] \in {"range", "received"} => asked[w] = {}
  /\ pc[w] = "write" /\ failure[w] = "none"
       => \A t \in asked[w] : batch[w] \in stored[t]
  /\ pc[w] = "store" => failure[w] # "none"
  /\ pc[w] = "returned" /\ firstErr = "none"
       => batch[w] = NoBatch /\ Closed /\ taken = planned

Reported == outcome = "complete" =>
  firstErr = "none" /\ \A w \in Worker : pc[w] = "returned"

LoadInv ==
  /\ TypeOK
  /\ AllAccounted /\ OwnJob /\ JobTaken /\ OneBatch /\ NoJobLost
  /\ Locals /\ Reported

-----------------------------------------------------------------------------
LEMMA LoadInitial == Init => LoadInv
<1> SUFFICES ASSUME Init PROVE LoadInv
  OBVIOUS
<1> USE LoadAssumption DEF Init
<1>1. TypeOK
  BY DEF TypeOK, NoBatch, Batch
<1>2. \A b \in Batch : ~Known(b)
  BY DEF Known
<1>3. AllAccounted /\ JobTaken /\ OneBatch
  BY <1>2 DEF AllAccounted, JobTaken, OneBatch, NoBatch
<1>4. OwnJob /\ NoJobLost
  BY DEF OwnJob, NoJobLost
<1>5. Locals /\ Reported
  BY DEF Locals, Reported
<1> QED
  BY <1>1, <1>3, <1>4, <1>5 DEF LoadInv

LEMMA LoadTypeInductive == TypeOK /\ Locals /\ [Next]_vars => TypeOK'
<1> SUFFICES ASSUME TypeOK, Locals, [Next]_vars PROVE TypeOK'
  OBVIOUS
<1> USE LoadAssumption DEF TypeOK, Goto
<1>1. CASE PlanJobs
  BY <1>1 DEF PlanJobs
<1>2. ASSUME NEW w \in Worker, Receive(w) PROVE TypeOK'
  <2>1. [id |-> taken, over |-> 0] \in Batch
    BY DEF Batch
  <2> QED
    BY <1>2, <2>1 DEF Receive
<1>3. ASSUME NEW w \in Worker, Generate(w) PROVE TypeOK'
  <2>1. \A d \in Draw : [id |-> batch[w].id, over |-> d] \in Batch
    BY <1>3 DEF Batch, Generate, Locals
  <2> QED
    BY <1>3, <2>1 DEF Generate
<1>4. ASSUME NEW w \in Worker, NEW t \in Target, WriteBatch(w, t) PROVE TypeOK'
  <2>1. pc[w] = "write" /\ batch[w] \in Batch
    BY <1>4 DEF WriteBatch, Locals
  <2>2. /\ asked' = [asked EXCEPT ![w] = @ \cup {t}]
        /\ UNCHANGED <<planned, taken, pc, batch, attempt, firstErr, bytesSent,
                       outcome>>
    BY <1>4 DEF WriteBatch
  <2>3. CASE /\ stored' = [stored EXCEPT ![t] = @ \cup {batch[w]}]
             /\ late' = late \ {<<t, batch[w]>>}
             /\ UNCHANGED failure
    BY <2>1, <2>2, <2>3
  <2>4. ASSUME NEW e \in WriteErrors,
               failure' = [failure EXCEPT ![w] = IF @ = "none" THEN e ELSE @],
               late' = late \cup {<<t, x>> : x \in {batch[w]} \ stored[t]},
               UNCHANGED stored
        PROVE  TypeOK'
    <3>1. late' \in SUBSET (Target \X Batch)
      BY <2>1, <2>4
    <3>2. failure' \in [Worker -> ErrorKind \cup {"none"}]
      BY <2>4
    <3> QED
      BY <2>2, <2>4, <3>1, <3>2
  <2> QED
    BY <1>4, <2>3, <2>4 DEF WriteBatch
<1>5. ASSUME NEW w \in Worker, Succeed(w) PROVE TypeOK'
  <2>1. batch[w] \in Batch
    BY <1>5 DEF Succeed, Joined, Locals
  <2>2. Length(batch[w]) \in Int
    BY <2>1 DEF Length, SizeOf, Batch
  <2> QED
    BY <1>5, <2>2 DEF Succeed, NextAttempt
<1>6. ASSUME NEW w \in Worker, Retry(w) PROVE TypeOK'
  BY <1>6 DEF Retry, NextAttempt, MayRetry
<1>7. ASSUME NEW w \in Worker, GiveUp(w) \/ StoreErr(w) PROVE TypeOK'
  BY <1>7 DEF GiveUp, StoreErr
<1>8. CASE Finish
  BY <1>8 DEF Finish
<1>9. CASE LateWrite
  BY <1>9 DEF LateWrite
<1>10. CASE UNCHANGED vars
  BY <1>10 DEF vars
<1> QED
  BY <1>1, <1>2, <1>3, <1>4, <1>5, <1>6, <1>7, <1>8, <1>9, <1>10
     DEF Next, WorkerStep

-----------------------------------------------------------------------------
(* Receiving a job makes it the worker's own; nothing is known of it yet.   *)
LEMMA ReceiveKeeps ==
  ASSUME LoadInv, TypeOK', NEW w \in Worker, Receive(w)
  PROVE  LoadInv'
<1> USE DEF LoadInv, TypeOK, Goto
<1>1. /\ pc[w] = "range" /\ batch[w] = NoBatch
      /\ UNCHANGED <<planned, failure, asked, stored, late, firstErr, outcome>>
      /\ \A v \in Worker \ {w} : pc'[v] = pc[v] /\ batch'[v] = batch[v]
  BY DEF Receive, Locals
<1>2. \A b : Known(b)' <=> Known(b)
  BY <1>1 DEF Known
<1>3. CASE /\ taken' = taken + 1
           /\ batch'[w] = [id |-> taken, over |-> 0]
           /\ pc'[w] = "received"
           /\ taken < planned
  <2>1. AllAccounted'
    BY <1>1, <1>2 DEF AllAccounted, Accounted, Writing
  <2>2. JobTaken'
    BY <1>1, <1>2, <1>3 DEF JobTaken, Batch, NoBatch
  <2>3. OwnJob'
    BY <1>1, <1>3 DEF OwnJob, JobTaken, NoBatch
  <2>4. OneBatch'
    BY <1>1, <1>2, <1>3 DEF OneBatch, JobTaken, Batch, NoBatch, Writing
  <2>5. NoJobLost'
    <3> SUFFICES ASSUME NEW i \in 0..(taken' - 1) PROVE Served(i)'
      BY DEF NoJobLost
    <3>1. CASE i = taken
      BY <1>3, <3>1 DEF Served
    <3>2. CASE i \in 0..(taken - 1)
      BY <1>1, <3>2 DEF Served, NoJobLost, NoBatch
    <3> QED
      BY <1>3, <3>1, <3>2
  <2>6. Locals' /\ Reported'
    BY <1>1, <1>3 DEF Locals, Reported, NoBatch, Closed
  <2> QED
    BY <2>1, <2>2, <2>3, <2>4, <2>5, <2>6
<1>4. CASE /\ taken = planned /\ Closed
           /\ pc'[w] = "returned" /\ UNCHANGED <<taken, batch>>
  <2>1. AllAccounted'
    BY <1>1, <1>2, <1>4 DEF AllAccounted, Accounted, Writing
  <2>2. JobTaken' /\ OwnJob'
    BY <1>1, <1>2, <1>4 DEF JobTaken, OwnJob
  <2>3. OneBatch'
    BY <1>1, <1>2, <1>4 DEF OneBatch, Batch, NoBatch, Writing
  <2>4. NoJobLost'
    BY <1>1, <1>4 DEF Served, NoJobLost
  <2>5. Locals' /\ Reported'
    BY <1>1, <1>4 DEF Locals, Reported, Closed
  <2> QED
    BY <2>1, <2>2, <2>3, <2>4, <2>5
<1> QED
  BY <1>3, <1>4 DEF Receive

(* The batch of a job is made before anything of it is known.               *)
LEMMA GenerateKeeps ==
  ASSUME LoadInv, TypeOK', NEW w \in Worker, Generate(w)
  PROVE  LoadInv'
<1> USE DEF LoadInv, TypeOK, Goto
<1>1. /\ pc[w] = "received" /\ batch[w] \in Batch
      /\ UNCHANGED <<planned, taken, failure, asked, stored, late, firstErr,
                     outcome>>
      /\ \A v \in Worker \ {w} : pc'[v] = pc[v] /\ batch'[v] = batch[v]
  BY DEF Generate, Locals
<1>2. \A b : Known(b)' <=> Known(b)
  BY <1>1 DEF Known
<1>3. /\ batch'[w] \in Batch /\ batch'[w].id = batch[w].id
      /\ \/ pc'[w] = "returned" /\ firstErr # "none"
         \/ pc'[w] = "write"
  BY <1>1, LoadAssumption DEF Generate, Batch
<1>4. \A b \in Batch : Known(b) => b.id # batch[w].id
  BY <1>1 DEF OneBatch, Writing
<1>5. AllAccounted'
  BY <1>1, <1>2 DEF AllAccounted, Accounted, Writing
<1>6. JobTaken'
  BY <1>1, <1>2, <1>3 DEF JobTaken
<1>7. OwnJob'
  BY <1>1, <1>3 DEF OwnJob, Batch, NoBatch
<1>8. OneBatch'
  BY <1>1, <1>2, <1>3, <1>4 DEF OneBatch, Writing
<1>9. NoJobLost'
  BY <1>1, <1>3 DEF NoJobLost, Served
<1>10. asked[w] = {}
  BY <1>1 DEF Locals
<1>11. Locals' /\ Reported'
  BY <1>1, <1>3, <1>10 DEF Locals, Reported, Closed, Batch, NoBatch
<1> QED
  BY <1>5, <1>6, <1>7, <1>8, <1>9, <1>11

(* A write, whatever its answer, tells nothing of any other batch.          *)
LEMMA WriteKeeps ==
  ASSUME LoadInv, TypeOK', NEW w \in Worker, NEW t \in Target,
         WriteBatch(w, t)
  PROVE  LoadInv'
<1> USE DEF LoadInv, TypeOK
<1>1. /\ pc[w] = "write" /\ batch[w] \in Batch
      /\ UNCHANGED <<planned, taken, pc, batch, firstErr, outcome>>
      /\ \A v \in Worker \ {w} :
           asked'[v] = asked[v] /\ failure'[v] = failure[v]
  BY DEF WriteBatch, Locals
<1>2. /\ \A u \in Target : stored[u] \subseteq stored'[u]
      /\ asked'[w] = asked[w] \cup {t}
      /\ failure'[w] = "none" => failure[w] = "none" /\ batch[w] \in stored'[t]
  BY LoadAssumption DEF WriteBatch, ErrorKind
<1>3. \A b : Known(b)' => Known(b) \/ b = batch[w]
  <2>1. /\ \A u \in Target : stored'[u] \subseteq stored[u] \cup {batch[w]}
        /\ \A u \in Target : \A b :
             <<u, b>> \in late' => <<u, b>> \in late \/ b = batch[w]
    BY DEF WriteBatch
  <2>2. \A u \in Target : \A b : b \in stored'[u]
          => b \in stored[u] \/ b = batch[w]
    BY <2>1
  <2> QED
    BY <2>1, <2>2, Zenon DEF Known
<1>4. AllAccounted'
  BY <1>1, <1>2, <1>3 DEF AllAccounted, Accounted, Writing
<1>5. JobTaken' /\ OwnJob'
  BY <1>1, <1>3 DEF JobTaken, OwnJob
<1>6. OneBatch'
  <2>1. batch[w] # NoBatch
    BY <1>1 DEF Batch, NoBatch
  <2>2. \A v \in Worker : batch[v].id = batch[w].id => v = w
    BY <2>1 DEF OwnJob
  <2>3. \A b \in Batch : Known(b) /\ b.id = batch[w].id => b = batch[w]
    BY DEF OneBatch
  <2> QED
    BY <1>1, <1>3, <2>2, <2>3 DEF OneBatch, Writing
<1>7. NoJobLost'
  <2> SUFFICES ASSUME NEW i \in 0..(taken - 1) PROVE Served(i)'
    BY <1>1 DEF NoJobLost
  <2>1. Served(i)
    BY DEF NoJobLost
  <2> QED
    BY <1>1, <1>2, <2>1 DEF Served
<1>8. Locals' /\ Reported'
  BY <1>1, <1>2 DEF Locals, Reported, Closed
<1> QED
  BY <1>4, <1>5, <1>6, <1>7, <1>8

(* A worker lets go of a batch when every target has it.                    *)
LEMMA SucceedKeeps ==
  ASSUME LoadInv, TypeOK', NEW w \in Worker, Succeed(w)
  PROVE  LoadInv'
<1> USE DEF LoadInv, TypeOK, Goto
<1>1. /\ pc[w] = "write" /\ batch[w] \in Batch
      /\ pc'[w] = "range" /\ batch'[w] = NoBatch /\ asked'[w] = {}
      /\ UNCHANGED <<planned, taken, stored, late, firstErr, outcome>>
      /\ \A v \in Worker \ {w} : /\ pc'[v] = pc[v] /\ batch'[v] = batch[v]
                                  /\ asked'[v] = asked[v]
                                  /\ failure'[v] = failure[v]
  BY DEF Succeed, Joined, NextAttempt, Locals
<1>2. \A t \in Target : batch[w] \in stored[t]
  BY DEF Succeed, Joined, Locals
<1>3. \A b : Known(b)' <=> Known(b)
  BY <1>1 DEF Known
<1>4. AllAccounted'
  BY <1>1, <1>2, <1>3 DEF AllAccounted, Accounted, Writing
<1>5. JobTaken' /\ OwnJob'
  <2>1. JobTaken'
    BY <1>1, <1>3 DEF JobTaken, NoBatch
  <2>2. \A v \in Worker \ {w} : batch'[v] # NoBatch => batch'[v].id # NoBatch.id
    BY <1>1 DEF NoBatch, Batch
  <2> QED
    BY <1>1, <2>1, <2>2 DEF OwnJob
<1>6. OneBatch'
  BY <1>1, <1>3 DEF OneBatch, Writing, NoBatch, Batch
<1>7. NoJobLost'
  <2> SUFFICES ASSUME NEW i \in 0..(taken - 1) PROVE Served(i)'
    BY <1>1 DEF NoJobLost
  <2>1. Served(i)
    BY DEF NoJobLost
  <2>2. CASE batch[w].id = i
    BY <1>1, <1>2, <2>2 DEF Served
  <2>3. CASE batch[w].id # i
    BY <1>1, <2>1, <2>3 DEF Served
  <2> QED
    BY <2>2, <2>3
<1>8. Locals' /\ Reported'
  BY <1>1 DEF Locals, Reported, Closed, NoBatch, Batch
<1> QED
  BY <1>4, <1>5, <1>6, <1>7, <1>8

(* Steps that change neither batches nor targets, nor who is writing.       *)
LEMMA ControlKeeps ==
  ASSUME LoadInv, TypeOK', NEW w \in Worker,
         Retry(w) \/ GiveUp(w) \/ StoreErr(w)
  PROVE  LoadInv'
<1> USE DEF LoadInv, TypeOK, Goto
<1>1. /\ UNCHANGED <<planned, taken, batch, stored, late, outcome>>
      /\ Writing(w) /\ Writing(w)'
      /\ pc[w] # "returned"
      /\ \A v \in Worker \ {w} : /\ pc'[v] = pc[v] /\ asked'[v] = asked[v]
                                  /\ failure'[v] = failure[v]
  BY DEF Retry, GiveUp, StoreErr, Joined, NextAttempt, Writing
<1>2. \A b : (Known(b)' <=> Known(b)) /\ (Accounted(b) => Accounted(b)')
  BY <1>1 DEF Known, Accounted, Writing
<1>3. AllAccounted' /\ JobTaken' /\ OwnJob'
  BY <1>1, <1>2 DEF AllAccounted, JobTaken, OwnJob
<1>4. OneBatch' /\ NoJobLost'
  BY <1>1, <1>2 DEF OneBatch, NoJobLost, Served, Writing
<1>5. Locals'
  BY <1>1 DEF Retry, GiveUp, StoreErr, Joined, NextAttempt, Locals, Closed
<1>6. Reported'
  BY <1>1 DEF Reported
<1> QED
  BY <1>3, <1>4, <1>5, <1>6

(* A late write is of a batch that is accounted for.                        *)
LEMMA LateKeeps ==
  ASSUME LoadInv, TypeOK', LateWrite
  PROVE  LoadInv'
<1> USE DEF LoadInv, TypeOK
<1>1. UNCHANGED <<planned, taken, pc, batch, attempt, asked, failure, firstErr,
                  bytesSent, outcome>>
  BY DEF LateWrite
<1>2. PICK t \in Target, b \in Batch :
        /\ <<t, b>> \in late /\ late' = late \ {<<t, b>>}
        /\ stored' = [stored EXCEPT ![t] = @ \cup {b}]
  <2>1. PICK u \in late : /\ late' = late \ {u}
                          /\ stored' = [stored EXCEPT ![u[1]] = @ \cup {u[2]}]
    BY DEF LateWrite
  <2>2. u[1] \in Target /\ u[2] \in Batch /\ u = <<u[1], u[2]>>
    OBVIOUS
  <2> QED
    BY <2>1, <2>2
<1>3. /\ \A u \in Target : stored[u] \subseteq stored'[u]
      /\ \A c : Known(c)' => Known(c)
  BY <1>2 DEF Known
<1>4. AllAccounted'
  BY <1>1, <1>3 DEF AllAccounted, Accounted, Writing
<1>5. JobTaken' /\ OwnJob' /\ OneBatch'
  BY <1>1, <1>3 DEF JobTaken, OwnJob, OneBatch, Writing
<1>6. NoJobLost'
  BY <1>1, <1>3 DEF NoJobLost, Served
<1>7. Locals' /\ Reported'
  BY <1>1, <1>3 DEF Locals, Reported, Closed
<1> QED
  BY <1>4, <1>5, <1>6, <1>7

LEMMA LoadInductive == LoadInv /\ [Next]_vars => LoadInv'
<1> SUFFICES ASSUME LoadInv, [Next]_vars PROVE LoadInv'
  OBVIOUS
<1>1. TypeOK'
  BY LoadTypeInductive DEF LoadInv
<1>2. CASE PlanJobs \/ Finish \/ UNCHANGED vars
  <2>1. /\ UNCHANGED <<taken, pc, batch, asked, failure, stored, late,
                       firstErr>>
        /\ Closed => planned' = planned
        /\ outcome' = "complete" =>
             \/ outcome = "complete"
             \/ firstErr = "none" /\ \A w \in Worker : pc[w] = "returned"
    BY <1>2 DEF PlanJobs, Finish, vars
  <2>2. \A b : (Known(b)' <=> Known(b)) /\ (Accounted(b)' <=> Accounted(b))
    BY <2>1 DEF Known, Accounted, Writing
  <2>3. AllAccounted' /\ JobTaken' /\ OwnJob' /\ OneBatch' /\ NoJobLost'
    BY <2>1, <2>2 DEF LoadInv, AllAccounted, JobTaken, OwnJob, OneBatch,
       NoJobLost, Served, Writing
  <2>4. Locals' /\ Reported'
    BY <2>1 DEF LoadInv, Locals, Reported, Closed
  <2> QED
    BY <1>1, <2>3, <2>4 DEF LoadInv
<1> QED
  BY <1>1, <1>2, ReceiveKeeps, GenerateKeeps, WriteKeeps, SucceedKeeps,
     ControlKeeps, LateKeeps DEF Next, WorkerStep

-----------------------------------------------------------------------------
(* Every variable of the load generator keeps its type: channel and retries *)
(* stay within their bounds (main.go:109,140).                              *)
THEOREM LoadTypeCorrect == Spec => []TypeOK
<1>1. LoadInv => TypeOK
  BY DEF LoadInv
<1> QED
  BY <1>1, LoadInitial, LoadInductive, PTL DEF Spec

(* A load that reports completion has left all targets identical, with one  *)
(* batch per planned job, whatever failed, was repeated or came late        *)
(* (main.go:124-166,200-221).                                               *)
THEOREM LoadIdentical == Spec => []CompleteIsIdentical
<1>1. LoadInv => CompleteIsIdentical
  <2> SUFFICES ASSUME LoadInv, outcome = "complete"
               PROVE  /\ Closed
                      /\ \A t, u \in Target : stored[t] = stored[u]
                      /\ \A t \in Target, i \in 0..(planned - 1) :
                           \E b \in stored[t] : b.id = i
                      /\ \A t \in Target : \A b, c \in stored[t] :
                           b.id = c.id => b = c
    BY DEF CompleteIsIdentical
  <2> USE LoadAssumption DEF LoadInv, TypeOK
  <2>1. /\ \A w \in Worker : batch[w] = NoBatch
        /\ Closed /\ taken = planned
    BY DEF Reported, Locals
  <2>2. \A b \in Batch : Known(b) => \A t \in Target : b \in stored[t]
    BY <2>1 DEF AllAccounted, Accounted, Batch, NoBatch
  <2>3. \A t \in Target, i \in 0..(planned - 1) : \E b \in stored[t] : b.id = i
    BY <2>1 DEF NoJobLost, Served, NoBatch
  <2>4. \A t, u \in Target : stored[t] = stored[u]
    <3>1. ASSUME NEW t \in Target, NEW u \in Target, NEW b \in stored[t]
          PROVE  b \in stored[u]
      BY <2>2 DEF Known
    <3>2. \A t, u \in Target : stored[t] \subseteq stored[u]
      BY <3>1
    <3>3. ASSUME NEW t \in Target, NEW u \in Target PROVE stored[t] = stored[u]
      <4>1. stored[t] \subseteq stored[u] /\ stored[u] \subseteq stored[t]
        BY <3>2
      <4> QED
        BY <4>1
    <3> QED
      BY <3>3
  <2>5. \A t \in Target : \A b, c \in stored[t] : b.id = c.id => b = c
    BY DEF Known, OneBatch
  <2> QED
    BY <2>1, <2>3, <2>4, <2>5
<1> QED
  BY <1>1, LoadInitial, LoadInductive, PTL DEF Spec

(* At any time, and after a failure, the targets differ in at most one      *)
(* batch per worker (main.go:200-221).                                      *)
THEOREM DivergenceBounded == Spec => []DivergenceInFlight
<1>1. LoadInv => DivergenceInFlight
  BY DEF LoadInv, TypeOK, DivergenceInFlight, AllAccounted, Accounted, Known
<1> QED
  BY <1>1, LoadInitial, LoadInductive, PTL DEF Spec

-----------------------------------------------------------------------------
(* The bytes reported are those of the batches no worker holds any more.    *)
Done == {b \in Batch : Known(b) /\ \A w \in Worker : batch[w] # b}
Sent == [b \in Done |-> Length(b)]

(* planJobs stops at the first job that would be empty.                     *)
NoEmptyJob == \A i \in 0..(planned - 1) : i * MaxBatch < TotalBytes

BytesCounted == IsFiniteSet(Done) /\ bytesSent = SumOf(Sent)

LEMMA SizeType ==
  ASSUME NEW i \in Nat, i * MaxBatch < TotalBytes
  PROVE  SizeOf(i) \in Nat
<1>1. TotalBytes \in Nat /\ MaxBatch \in Nat /\ i * MaxBatch \in Nat
  BY LoadAssumption
<1> QED
  BY <1>1 DEF SizeOf

LEMMA LengthType ==
  ASSUME TypeOK, JobTaken, NoEmptyJob, NEW b \in Batch, b.id < taken
  PROVE  Length(b) \in Nat
<1>1. b.id \in Nat /\ b.over \in Nat
  BY DEF Batch
<1>2. b.id \in 0..(planned - 1)
  BY <1>1 DEF TypeOK
<1>3. SizeOf(b.id) \in Nat
  BY <1>1, <1>2, SizeType DEF NoEmptyJob
<1> QED
  BY <1>1, <1>3 DEF Length

LEMMA SentType ==
  ASSUME TypeOK, JobTaken, NoEmptyJob
  PROVE  Sent \in [Done -> Nat]
<1>1. \A b \in Done : Length(b) \in Nat
  BY LengthType DEF Done, JobTaken
<1> QED
  BY <1>1 DEF Sent

LEMMA NoEmptyJobInductive ==
  ASSUME TypeOK, NoEmptyJob, [Next]_vars
  PROVE  NoEmptyJob'
<1>1. CASE PlanJobs
  <2>1. planned' = planned + 1 /\ planned * MaxBatch < TotalBytes
    <3>1. planned * MaxBatch \in Int /\ TotalBytes \in Int
      BY LoadAssumption DEF TypeOK
    <3> QED
      BY <1>1, <3>1 DEF PlanJobs, Closed
  <2>2. \A i \in 0..planned : i = planned \/ i \in 0..(planned - 1)
    BY DEF TypeOK
  <2> QED
    BY <2>1, <2>2 DEF NoEmptyJob, TypeOK
<1>2. CASE planned' = planned
  BY <1>2 DEF NoEmptyJob
<1> QED
  BY <1>1, <1>2 DEF Next, WorkerStep, Receive, Generate, WriteBatch, Succeed,
     Retry, GiveUp, StoreErr, Finish, LateWrite, vars

(* A step that lets no worker go of a batch reports nothing.                *)
LEMMA BytesStay ==
  ASSUME BytesCounted, Done' = Done, bytesSent' = bytesSent
  PROVE  BytesCounted'
BY DEF BytesCounted, Sent

LEMMA ReceiveReports ==
  ASSUME LoadInv, NEW w \in Worker, Receive(w) \/ Generate(w)
  PROVE  Done' = Done /\ bytesSent' = bytesSent
<1> USE DEF LoadInv, TypeOK, Goto
<1>1. UNCHANGED <<stored, late, bytesSent>>
  BY DEF Receive, Generate
<1>2. \A v \in Worker \ {w} : batch'[v] = batch[v]
  BY DEF Receive, Generate
<1>3. \A b : Known(b)' <=> Known(b)
  BY <1>1 DEF Known
<1>4. \A b \in Batch : Known(b) => batch[w] # b /\ batch'[w] # b
  <2>1. CASE Receive(w)
    <3>1. batch[w] = NoBatch
      BY <2>1 DEF Receive, Locals
    <3>2. \A b \in Batch : b # NoBatch
      BY DEF Batch, NoBatch
    <3>3. batch'[w] = NoBatch \/ batch'[w] = [id |-> taken, over |-> 0]
      BY <2>1, <3>1 DEF Receive
    <3>4. \A b \in Batch : Known(b) => b.id # taken
      BY DEF JobTaken, Batch
    <3> QED
      BY <3>1, <3>2, <3>3, <3>4
  <2>2. CASE Generate(w)
    <3>1. pc[w] = "received" /\ batch[w] \in Batch
      BY <2>2 DEF Generate, Locals
    <3>2. \A b \in Batch : Known(b) => b.id # batch[w].id
      BY <3>1 DEF OneBatch, Writing
    <3>3. batch'[w].id = batch[w].id
      BY <2>2, <3>1 DEF Generate
    <3> QED
      BY <3>2, <3>3
  <2> QED
    BY <2>1, <2>2
<1> QED
  BY <1>1, <1>2, <1>3, <1>4 DEF Done

LEMMA WriteReports ==
  ASSUME LoadInv, NEW w \in Worker, NEW t \in Target, WriteBatch(w, t)
  PROVE  Done' = Done /\ bytesSent' = bytesSent
<1> USE DEF LoadInv, TypeOK
<1>1. UNCHANGED <<batch, bytesSent>>
  BY DEF WriteBatch
<1>2. \A u \in Target : \A b :
        b # batch[w] => /\ b \in stored'[u] <=> b \in stored[u]
                        /\ <<u, b>> \in late' <=> <<u, b>> \in late
  <2>1. CASE /\ stored' = [stored EXCEPT ![t] = @ \cup {batch[w]}]
             /\ late' = late \ {<<t, batch[w]>>}
    BY <2>1
  <2>2. CASE /\ late' = late \cup {<<t, x>> : x \in {batch[w]} \ stored[t]}
             /\ UNCHANGED stored
    BY <2>2
  <2> QED
    BY <2>1, <2>2 DEF WriteBatch
<1>3. \A b : b # batch[w] => (Known(b)' <=> Known(b))
  BY <1>2 DEF Known
<1> QED
  BY <1>1, <1>3 DEF Done

LEMMA LateReports ==
  ASSUME LoadInv, LateWrite
  PROVE  Done' = Done /\ bytesSent' = bytesSent
<1> USE DEF LoadInv, TypeOK
<1>1. UNCHANGED <<batch, bytesSent>>
  BY DEF LateWrite
<1>2. PICK u \in late : /\ late' = late \ {u}
                        /\ stored' = [stored EXCEPT ![u[1]] = @ \cup {u[2]}]
  BY DEF LateWrite
<1>3. u[1] \in Target /\ u[2] \in Batch /\ u = <<u[1], u[2]>>
  OBVIOUS
<1>4. ASSUME NEW b PROVE Known(b)' <=> Known(b)
  <2>1. CASE b = u[2]
    <3>1. b \in stored'[u[1]] /\ <<u[1], b>> \in late
      BY <1>2, <1>3, <2>1
    <3> QED
      BY <1>3, <3>1 DEF Known
  <2>2. CASE b # u[2]
    <3>1. \A t \in Target : /\ b \in stored'[t] <=> b \in stored[t]
                            /\ <<t, b>> \in late' <=> <<t, b>> \in late
      BY <1>2, <1>3, <2>2
    <3> QED
      BY <3>1 DEF Known
  <2> QED
    BY <2>1, <2>2
<1> QED
  BY <1>1, <1>4 DEF Done

(* The one step that reports: the worker's batch joins those done.          *)
LEMMA SucceedReports ==
  ASSUME LoadInv, NoEmptyJob, BytesCounted, NEW w \in Worker, Succeed(w)
  PROVE  BytesCounted'
<1> USE DEF LoadInv
<1> DEFINE x == batch[w]
<1>1. /\ x \in Batch /\ x # NoBatch /\ batch'[w] = NoBatch
      /\ \A v \in Worker \ {w} : batch'[v] = batch[v]
      /\ UNCHANGED <<stored, late>>
  BY DEF Succeed, Joined, Locals, TypeOK, Batch, NoBatch
<1>2. bytesSent' = bytesSent + Length(x)
  BY DEF Succeed
<1>3. \A b : Known(b)' <=> Known(b)
  BY <1>1 DEF Known
<1>4. Known(x)
  BY LoadAssumption DEF Succeed, Joined, Locals, Known
<1>5. \A v \in Worker \ {w} : batch[v] # x
  BY <1>1 DEF OwnJob
<1>6. Done' = Done \cup {x} /\ x \notin Done
  <2>1. \A b \in Batch : b # NoBatch
    BY DEF Batch, NoBatch
  <2> QED
    BY <1>1, <1>3, <1>4, <1>5, <2>1 DEF Done
<1>7. Length(x) \in Nat
  BY <1>1, <1>4, LengthType DEF JobTaken
<1>8. IsFiniteSet(Done')
  BY <1>6, FS_AddElement DEF BytesCounted
<1> DEFINE D == Done'
           f == [b \in D |-> Length(b)]
<1>9. f \in [D -> Nat] /\ x \in D /\ f[x] = Length(x) /\ IsFiniteSet(D)
  <2>1. \A b \in Done : Length(b) \in Nat
    BY SentType DEF Sent
  <2> QED
    BY <1>6, <1>7, <1>8, <2>1
<1>10. [b \in D \ {x} |-> f[b]] = Sent
  <2>1. D \ {x} = Done
    BY <1>6
  <2> QED
    BY <2>1 DEF Sent
<1>11. Sent' = f
  BY DEF Sent
<1> HIDE DEF f, x, D
<1>12. SumOf(f) = Length(x) + SumOf(Sent) /\ SumOf(Sent) \in Nat
  <2>1. /\ SumOf([b \in D \ {x} |-> f[b]]) \in Nat
        /\ SumOf(f) = f[x] + SumOf([b \in D \ {x} |-> f[b]])
    BY <1>9, SumRemove
  <2> QED
    BY <1>9, <1>10, <2>1
<1>13. SumOf(Sent)' = bytesSent'
  <2>1. SumOf(Sent') = bytesSent'
    BY <1>2, <1>7, <1>11, <1>12 DEF BytesCounted
  <2> QED
    BY <2>1 DEF SumOf, Units
<1> QED
  BY <1>8, <1>13 DEF BytesCounted

LEMMA BytesInductive ==
  ASSUME LoadInv, NoEmptyJob, BytesCounted, [Next]_vars
  PROVE  BytesCounted'
<1>1. ASSUME UNCHANGED <<batch, stored, late, bytesSent>> PROVE BytesCounted'
  <2>1. Done' = Done
    BY <1>1 DEF Done, Known
  <2> QED
    BY <1>1, <2>1, BytesStay
<1>2. CASE PlanJobs \/ Finish \/ UNCHANGED vars
  BY <1>1, <1>2 DEF PlanJobs, Finish, vars
<1>3. ASSUME NEW w \in Worker, Retry(w) \/ GiveUp(w) \/ StoreErr(w)
      PROVE  BytesCounted'
  BY <1>1, <1>3 DEF Retry, GiveUp, StoreErr
<1>4. ASSUME NEW w \in Worker, Receive(w) \/ Generate(w) PROVE BytesCounted'
  BY <1>4, ReceiveReports, BytesStay
<1>5. ASSUME NEW w \in Worker, NEW t \in Target, WriteBatch(w, t)
      PROVE  BytesCounted'
  BY <1>5, WriteReports, BytesStay
<1>6. CASE LateWrite
  BY <1>6, LateReports, BytesStay
<1>7. ASSUME NEW w \in Worker, Succeed(w) PROVE BytesCounted'
  BY <1>7, SucceedReports
<1> QED
  BY <1>2, <1>3, <1>4, <1>5, <1>6, <1>7 DEF Next, WorkerStep

-----------------------------------------------------------------------------
(* The sizes of the first m jobs add up to what was asked for, or to m full *)
(* batches.                                                                 *)
Jobs(m) == [i \in 0..(m - 1) |-> SizeOf(i)]

LEMMA JobSizes ==
  ASSUME NEW m \in Nat, \A i \in 0..(m - 1) : i * MaxBatch < TotalBytes
  PROVE  SumOf(Jobs(m))
           = IF m * MaxBatch <= TotalBytes THEN m * MaxBatch ELSE TotalBytes
<1> DEFINE Goal(j) ==
             SumOf(Jobs(j)) = IF j * MaxBatch <= TotalBytes THEN j * MaxBatch
                                                           ELSE TotalBytes
           Bad == {j \in 0..m : ~Goal(j)}
<1>1. SUFFICES ASSUME Bad # {} PROVE FALSE
  <2>1. m \in 0..m
    OBVIOUS
  <2> QED
    BY <1>1, <2>1
<1>2. Bad \in SUBSET Nat
  OBVIOUS
<1>3. PICK j \in Bad : \A k \in Bad : j <= k
  <2> HIDE DEF Bad
  <2> QED
    BY <1>1, <1>2, Least
<1>4. j \in 0..m /\ ~Goal(j)
  OBVIOUS
<1>5. TotalBytes \in Nat \ {0} /\ MaxBatch \in Nat \ {0}
  BY LoadAssumption
<1>6. j # 0
  <2>1. DOMAIN Jobs(0) = {}
    BY DEF Jobs
  <2>2. SumOf(Jobs(0)) = 0
    BY <2>1, SumEmpty
  <2>3. 0 * MaxBatch = 0
    BY <1>5
  <2> QED
    BY <1>4, <1>5, <2>2, <2>3
<1> DEFINE k == j - 1
<1>7. k \in Nat /\ k \in 0..m /\ k \in 0..(m - 1) /\ k + 1 = j /\ ~(j <= k)
  BY <1>4, <1>6
<1>8. Goal(k)
  BY <1>3, <1>7
<1> HIDE DEF Bad, k
<1>9. k * MaxBatch < TotalBytes /\ k * MaxBatch \in Nat
      /\ j * MaxBatch = k * MaxBatch + MaxBatch
  BY <1>5, <1>7
<1>10. SumOf(Jobs(k)) = k * MaxBatch
  BY <1>5, <1>8, <1>9
<1>11. SumOf(Jobs(j)) = SizeOf(k) + SumOf(Jobs(k))
  <2> DEFINE S == 0..(j - 1)
             f == Jobs(j)
  <2>1. IsFiniteSet(S)
    BY <1>4, FS_Interval
  <2>2. f \in [S -> Nat]
    <3>1. \A i \in S : SizeOf(i) \in Nat
      BY <1>4, SizeType
    <3> QED
      BY <3>1 DEF Jobs
  <2>3. k \in S /\ f[k] = SizeOf(k)
    BY <1>7 DEF Jobs
  <2>4. [i \in S \ {k} |-> f[i]] = Jobs(k)
    <3>1. S \ {k} = 0..(k - 1)
      BY <1>7
    <3> QED
      BY <3>1 DEF Jobs
  <2> HIDE DEF S, f
  <2>5. SumOf(f) = f[k] + SumOf([i \in S \ {k} |-> f[i]])
    BY <2>1, <2>2, <2>3, SumRemove
  <2> QED
    BY <2>3, <2>4, <2>5 DEF f
<1>12. SizeOf(k) = IF TotalBytes - k * MaxBatch < MaxBatch
                   THEN TotalBytes - k * MaxBatch ELSE MaxBatch
  BY DEF SizeOf
<1> QED
  BY <1>4, <1>5, <1>9, <1>10, <1>11, <1>12

LEMMA BytesFollow ==
  ASSUME LoadInv, NoEmptyJob, BytesCounted
  PROVE  BytesReported
<1> SUFFICES ASSUME outcome = "complete"
             PROVE  /\ bytesSent >= TotalBytes
                    /\ \A t \in Target :
                         bytesSent = SumOf([b \in stored[t] |-> Length(b)])
  BY DEF BytesReported
<1> USE DEF LoadInv
<1>1. /\ \A w \in Worker : batch[w] = NoBatch
      /\ Closed /\ taken = planned
  BY LoadAssumption DEF Reported, Locals
<1>2. \A b \in Batch : Known(b) => \A t \in Target : b \in stored[t]
  BY <1>1 DEF AllAccounted, Accounted, Batch, NoBatch
<1>3. \A t \in Target : stored[t] = Done
  <2> SUFFICES ASSUME NEW t \in Target PROVE stored[t] = Done
    OBVIOUS
  <2>1. stored[t] \subseteq Batch
    BY DEF TypeOK
  <2>2. \A b \in Batch : b # NoBatch
    BY DEF Batch, NoBatch
  <2>3. \A b \in Batch : b \in stored[t] <=> b \in Done
    BY <1>1, <1>2, <2>2 DEF Done, Known
  <2> QED
    BY <2>1, <2>3 DEF Done
<1>4. \A t \in Target : bytesSent = SumOf([b \in stored[t] |-> Length(b)])
  <2> SUFFICES ASSUME NEW t \in Target
               PROVE  bytesSent = SumOf([b \in stored[t] |-> Length(b)])
    OBVIOUS
  <2>1. [b \in stored[t] |-> Length(b)] = Sent
    BY <1>3 DEF Sent
  <2> QED
    BY <2>1 DEF BytesCounted
<1>5. planned \in Nat /\ planned * MaxBatch \in Nat /\ TotalBytes \in Nat
      /\ planned * MaxBatch >= TotalBytes
  BY <1>1, LoadAssumption DEF TypeOK, Closed
<1>6. SumOf(Jobs(planned)) = TotalBytes
  BY <1>5, JobSizes DEF NoEmptyJob
<1>7. SumOf(Jobs(planned)) <= SumOf(Sent)
  <2> DEFINE S == 0..(planned - 1)
             h == [i \in S |-> CHOOSE b \in Done : b.id = i]
  <2>1. \A i \in S : \E b \in Done : b.id = i
    BY <1>1, <1>3, LoadAssumption DEF NoJobLost, Served, NoBatch
  <2>2. \A i \in S : h[i] \in Done /\ h[i].id = i
    BY <2>1
  <2>3. h \in [S -> Done]
    BY <2>2
  <2>4. Jobs(planned) \in [S -> Nat]
    <3>1. \A i \in S : SizeOf(i) \in Nat
      BY <1>5, SizeType DEF NoEmptyJob
    <3> QED
      BY <3>1 DEF Jobs
  <2>5. Sent \in [Done -> Nat]
    BY SentType
  <2>6. ASSUME NEW i \in S PROVE Jobs(planned)[i] <= Sent[h[i]]
    <3>1. Jobs(planned)[i] = SizeOf(i) /\ SizeOf(i) \in Nat
      BY <2>4 DEF Jobs
    <3>2. Sent[h[i]] = SizeOf(i) + h[i].over
      BY <2>2 DEF Sent, Length
    <3>3. h[i].over \in Nat
      BY <2>2 DEF Done, Batch
    <3> QED
      BY <3>1, <3>2, <3>3
  <2>7. \A i, j \in S : h[i] = h[j] => i = j
    BY <2>2
  <2> HIDE DEF S, h
  <2> QED
    BY <2>3, <2>4, <2>5, <2>6, <2>7, SumInjection DEF BytesCounted
<1>8. bytesSent >= TotalBytes
  BY <1>5, <1>6, <1>7 DEF BytesCounted, TypeOK
<1> QED
  BY <1>4, <1>8

(* "complete: bytes_per_target=" is, whatever was repeated or came late,    *)
(* what each target holds, and covers what was asked for                    *)
(* (main.go:133,164-165,170-185).                                           *)
THEOREM BytesAreReported == Spec => []BytesReported
<1> DEFINE I == LoadInv /\ NoEmptyJob /\ BytesCounted
<1>1. Init => I
  <2> SUFFICES ASSUME Init PROVE NoEmptyJob /\ BytesCounted
    BY LoadInitial
  <2>1. NoEmptyJob
    BY DEF Init, NoEmptyJob
  <2>2. Done = {}
    BY DEF Init, Done, Known
  <2>3. SumOf(Sent) = 0 /\ IsFiniteSet({})
    BY <2>2, SumEmpty, FS_EmptySet DEF Sent
  <2> QED
    BY <2>1, <2>2, <2>3 DEF Init, BytesCounted
<1>2. I /\ [Next]_vars => I'
  BY LoadInductive, NoEmptyJobInductive, BytesInductive DEF LoadInv
<1>3. I => BytesReported
  BY BytesFollow
<1> QED
  BY <1>1, <1>2, <1>3, PTL DEF Spec
=============================================================================
