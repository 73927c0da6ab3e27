----------------------------- MODULE RoundRobin -----------------------------
(***************************************************************************)
(* The load PickTarget spreads: tickets drawn one after the other, by any  *)
(* number of callers, from candidate lists that change whenever a breaker  *)
(* opens or closes.                                                        *)
(***************************************************************************)
EXTENDS WeightedTargets, Sums

CONSTANT MaxServed   \* bound on the tickets drawn from one unchanged list

ASSUME ServedAssumption == MaxServed \in Nat

VARIABLES
  rr,      \* the ticket counter
  cand,    \* the targets whose slots make up the current candidate list
  served   \* history: picks of every target since the list last changed

vars == <<rr, cand, served>>

Total == SumOf(served)

Init ==
  /\ rr \in 0..(CounterRange - 1)
  /\ cand = Index
  /\ served = [k \in Index |-> 0]

(* A pick.  When the counter wraps, the position jumps, so counting starts  *)
(* again.                                                                   *)
Pick ==
  /\ Total < MaxServed
  /\ rr' = NextTicket(rr)
  /\ \E k \in Picks(cand, rr') :
       served' = IF rr' = 0 THEN [j \in Index |-> 0]
                            ELSE [served EXCEPT ![k] = @ + 1]
  /\ UNCHANGED cand

(* Breakers open and close, or callers exclude what they already tried.     *)
Relist ==
  /\ \E K \in (SUBSET Index) \ {{}, cand} : cand' = K
  /\ served' = [k \in Index |-> 0]
  /\ UNCHANGED rr

Next == Pick \/ Relist
Spec == Init /\ [][Next]_vars

TypeOK ==
  /\ rr \in 0..(CounterRange - 1)
  /\ cand \in (SUBSET Index) \ {{}}
  /\ served \in [Index -> 0..MaxServed]

(* Weighted round robin (docs/architecture.md:13): over any run of picks    *)
(* from an unchanged list, wherever the shared counter stands, a full turn  *)
(* of the list serves every candidate exactly as often as its weight says,  *)
(* and a partial turn never more often; targets off the list are not        *)
(* served at all.                                                           *)
WeightedShare ==
  LET turns == Total \div Cardinality(Slots(cand)) IN
  \A k \in Index :
    IF k \in cand
      THEN served[k] \in (turns * Weight(k))..((turns + 1) * Weight(k))
      ELSE served[k] = 0
=============================================================================
