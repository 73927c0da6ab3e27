---------------------------- MODULE MCQueryBench ----------------------------
(* Instances of QueryBench for TLC.                                         *)
EXTENDS QueryBench

CONSTANTS w1, w2

Reply(status, cache, live, target, millis) ==
  [status |-> status, cache |-> cache, live |-> live, target |-> target,
   millis |-> millis]

(* A split query, a hit without target headers, a slow plain query and two  *)
(* failures.                                                                *)
Replies ==
  {Reply(200, "MISS", "a", "b", 20), Reply(200, "HIT", "", "", 1),
   Reply(200, "BYPASS", "", "a", 5001),
   Reply(502, "", "", "", 30), Reply(0, "", "", "", 0)}
=============================================================================
