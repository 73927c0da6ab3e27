--------------------------- MODULE FetchContract ----------------------------
(***************************************************************************)
(* What fetchOrCache (internal/gateway/server.go) promises handleQuery,    *)
(* without Redis, locks or targets: a call gets the answer of one          *)
(* evaluation of its query that is less than MaxAge old when it is handed  *)
(* over, or it fails, and it is answered at most once.  ResponseCache      *)
(* implements this specification; QueryPath is built on its actions.       *)
(***************************************************************************)
EXTENDS Integers

CONSTANTS
  Request,   \* calls of fetchOrCache
  MaxAge     \* bound on the age of an answer

VARIABLES
  now,       \* the clock
  answer     \* what a call has been given

vars == <<now, answer>>

Pending == [state |-> "pending", at |-> 0]
Failed == [state |-> "failed", at |-> 0]
Given(t) == [state |-> "given", at |-> t]

Init ==
  /\ now \in Nat
  /\ answer = [r \in Request |-> Pending]

(* The answer evaluated at t, from the cache or from the targets.           *)
Give(r, t) ==
  /\ answer[r] = Pending
  /\ now - MaxAge < t /\ t <= now
  /\ answer' = [answer EXCEPT ![r] = Given(t)]

(* An error, or a status other than 2xx.                                    *)
Fail(r) ==
  /\ answer[r] = Pending
  /\ answer' = [answer EXCEPT ![r] = Failed]

Tick ==
  /\ now' = now + 1
  /\ UNCHANGED answer

Next ==
  \/ /\ \E r \in Request : Fail(r) \/ \E t \in 0..now : Give(r, t)
     /\ UNCHANGED now
  \/ Tick

Spec == Init /\ [][Next]_vars
=============================================================================
