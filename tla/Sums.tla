-------------------------------- MODULE Sums --------------------------------
(***************************************************************************)
(* The sum of a function with finitely many natural values, by counting: k *)
(* stands for f[k] units.  Unlike a fold, a count can be reasoned about    *)
(* with the library's facts on cardinalities.                              *)
(***************************************************************************)
EXTENDS Integers, FiniteSets

Units(f) == UNION {{k} \X (1..f[k]) : k \in DOMAIN f}
SumOf(f) == Cardinality(Units(f))
=============================================================================
