----------------------------- MODULE MCLoadgen ------------------------------
(* Instances of Loadgen for TLC.                                            *)
EXTENDS Loadgen

CONSTANTS w1, w2, a, b
=============================================================================
