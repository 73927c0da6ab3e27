----------------------------- MODULE MCQueryPath ----------------------------
(* Instances of QueryPath for TLC.                                          *)
EXTENDS QueryPath, TLC

CONSTANTS c1, c2

Rel(d) == [kind |-> "rel", t |-> d]
Now == [kind |-> "now", t |-> 0]
Var(t) == [kind |-> "var", t |-> t]
Ask(accept, start, stop) ==
  [flaw |-> "none", csv |-> accept = "csv",
   flux |-> [start |-> start, stop |-> stop]]

(* Every form of range the rewriting tells apart, with two absolute ranges  *)
(* of the same length, and one flawed request.                              *)
AllForms ==
  {Ask("csv", Rel(2), Now), Ask("arrow", Rel(2), Now),
   Ask("csv", Abs(2), Var(5)),
   Ask("csv", Abs(1), Abs(4)), Ask("csv", Abs(2), Abs(5)),
   Ask("csv", Rel(3), Rel(1)),
   [Ask("csv", Rel(2), Now) EXCEPT !.flaw = "auth"]}

(* Two windows of the same length.                                          *)
AbsoluteRanges == {Ask("csv", Abs(2), Abs(5)), Ask("csv", Abs(3), Abs(6))}

AnyCall == Permutations(Call)
=============================================================================
