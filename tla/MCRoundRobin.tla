---------------------------- MODULE MCRoundRobin ----------------------------
(* Instance of RoundRobin for TLC: three targets, weights 3, 1 and 2; the   *)
(* weight of b is left out of TARGETS_JSON and decodes to 0.                *)
EXTENDS RoundRobin

CONSTANTS a, b, c

ThreeTargets == <<[name |-> a, weight |-> 3], [name |-> b, weight |-> 0],
                  [name |-> c, weight |-> 2]>>
=============================================================================
