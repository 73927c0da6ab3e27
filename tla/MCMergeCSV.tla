----------------------------- MODULE MCMergeCSV -----------------------------
(* Instances of MergeCSV for TLC.                                           *)
EXTENDS MergeCSV

(* A response is one or two tables with annotations, each with a header and *)
(* up to two rows, a blank line between them, and one form of line end.     *)
TextLine(cells) == [kind |-> "text", cells |-> cells, cr |-> FALSE]
Meta == [kind |-> "meta", cells |-> <<>>, cr |-> FALSE]

TimeSecond == TextLine(<<0, TimeLabel>>)
TimeFirst == TextLine(<<TimeLabel, 0>>)
R1 == TextLine(<<0, 1>>)
R2 == TextLine(<<0, 2>>)

Table ==
  {<<TimeSecond>>, <<TimeSecond, R2, R1>>, <<TimeFirst, R1>>,
   <<TextLine(<<0, 0>>), R1>>,
   <<Meta, TimeSecond, R1>>, <<TimeSecond, TextLine(<<0>>), R2>>,
   <<Meta, Empty, R2, R1>>}

Further == {<<TimeSecond>>, <<TimeSecond, R2, R1>>, <<TimeFirst, R1>>}

Response ==
  {<<>>} \cup {<<Empty>> \o t : t \in Table}
  \cup {t \o <<Empty>> \o u \o <<Empty>> : t \in Table, u \in Further}

WithCR(b) == [i \in DOMAIN b |-> [b[i] EXCEPT !.cr = TRUE]]
Responses == Response \cup {WithCR(b) : b \in Response}
=============================================================================
