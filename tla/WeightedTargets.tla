-------------------------- MODULE WeightedTargets ---------------------------
(***************************************************************************)
(* The configured targets and the weighted candidate list that PickTarget  *)
(* (internal/upstream/manager.go) indexes with its ticket counter.         *)
(***************************************************************************)
EXTENDS Integers, Sequences, FiniteSets

CONSTANTS
  Name,             \* the names used in cfg.Targets
  Targets,          \* cfg.Targets: a sequence of [name, weight], as configured
  CounterRange      \* the range of the uint64 ticket counter (2^64 in the code)

ASSUME TargetsAssumption ==
  /\ Targets \in Seq([name: Name, weight: Int])
  /\ Len(Targets) > 0
  /\ CounterRange \in Nat \ {0}

Index == DOMAIN Targets
NameOf(k) == Targets[k].name

(* LoadConfig raises non-positive weights to 1.                             *)
Weight(k) == IF Targets[k].weight <= 0 THEN 1 ELSE Targets[k].weight

(* The slots of the list built from the targets in K: Weight(k) copies of   *)
(* every target k, targets in configuration order.                          *)
Slots(K) == UNION {{k} \X (1..Weight(k)) : k \in K}
Before(s, t) == s[1] < t[1] \/ (s[1] = t[1] /\ s[2] < t[2])

(* Drawing a ticket, and the target it selects from the list over K: the    *)
(* list element at position p is the slot with p slots before it.           *)
BugNextTicket(t) == t + 1
NextTicket(t) == (t + 1) % CounterRange

BugPicks(K, ticket) ==
  {k \in K : Cardinality({j \in K : j < k}) = ticket % Cardinality(K)}

Picks(K, ticket) ==
  {s[1] : s \in {t \in Slots(K) :
     Cardinality({u \in Slots(K) : Before(u, t)})
       = ticket % Cardinality(Slots(K))}}
=============================================================================
