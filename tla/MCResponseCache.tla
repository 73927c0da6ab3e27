-------------------------- MODULE MCResponseCache ---------------------------
(* Instances of ResponseCache for TLC.                                      *)
EXTENDS ResponseCache, TLC

CONSTANTS r1, r2, r3, r4, k1

OneKey == [r \in Request |-> k1]

(* r4's Accept header names neither CSV nor Arrow.                          *)
Csv == [r \in Request |-> IF r = r4 THEN "other" ELSE "csv"]
CsvAndArrow == [r \in Request |-> IF r = r1 THEN "csv" ELSE "arrow"]

(* Calls that ask for the same thing are interchangeable.                   *)
AnyCall == Permutations(Request \ {r4})
=============================================================================
