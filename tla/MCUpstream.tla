----------------------------- MODULE MCUpstream -----------------------------
(* Instances of Upstream for TLC.                                           *)
EXTENDS Upstream

CONSTANTS a, b, c1, c2

(* Two targets; b's weight is left out of TARGETS_JSON and decodes to 0.    *)
TwoTargets == <<[name |-> a, weight |-> 2], [name |-> b, weight |-> 0]>>

(* Three targets, two of them under one name.                               *)
SharedName == <<[name |-> a, weight |-> 2], [name |-> b, weight |-> 0],
                [name |-> a, weight |-> 1]>>
=============================================================================
