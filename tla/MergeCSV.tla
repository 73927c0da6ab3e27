------------------------------- MODULE MergeCSV -----------------------------
(***************************************************************************)
(* MergeCSV and parseCSVResponse, internal/flux/merge.go: the rows of the  *)
(* cached and of the live segment are read line by line, duplicates are    *)
(* dropped, and the rest is sorted by time and written under one header.   *)
(*                                                                         *)
(* A line is its cells: -1 is the label "_time", a positive number a time  *)
(* that parses, 0 anything else.  Lines end with \n; cr says that there is *)
(* a \r before it, as in InfluxDB's responses.                             *)
(***************************************************************************)
EXTENDS Integers, SequencesExt

CONSTANT Bodies   \* the responses a segment may have, sequences of lines

TimeLabel == -1
Kind == {"blank", "meta", "text"}
Line == {l \in [kind: Kind, cells: Seq(Int), cr: BOOLEAN] :
           l.kind = "blank" => l.cells = <<>>}
Empty == [kind |-> "blank", cells |-> <<>>, cr |-> FALSE]

ASSUME MergeAssumption == Bodies \subseteq Seq(Line)

VARIABLES
  body,     \* cachedBody and liveBody
  pc,       \* the loop that runs
  pos,      \* its next element
  parsed,   \* what parseCSVResponse has of each body
  merged,   \* rows
  out       \* the result

vars == <<body, pc, pos, parsed, merged, out>>

Side == {"cached", "live"}

(* strings.TrimSpace and strings.Split: blank lines go at both ends, and    *)
(* the last line loses its \r.                                              *)
Lines(b) ==
  LET full == {i \in DOMAIN b : b[i].kind # "blank"}
      kept == SubSeq(b, Min(full), Max(full))
  IN  IF full = {} THEN <<>> ELSE [kept EXCEPT ![Len(kept)].cr = FALSE]

(* A line "\r" is neither empty nor meta.                                   *)
IsText(line) == line # Empty /\ line.kind # "meta"

(* Columns count from 1; 0 when there is no _time.                          *)
TimeColumn(line) ==
  LET cols == {i \in DOMAIN line.cells : line.cells[i] = TimeLabel}
  IN  IF cols = {} THEN 0 ELSE Min(cols)

(* The time of a row, the epoch when its column is missing or no time.  (In *)
(* the variant the error of time.Parse is ignored: what it returns then is  *)
(* the zero Time, of the year 1 and before the epoch.)                      *)
BugRowTime(line, col) ==
  CASE col \notin DOMAIN line.cells -> 0
    [] col \in DOMAIN line.cells /\ line.cells[col] > 0 -> line.cells[col]
    [] OTHER -> -1

RowTime(line, col) ==
  IF col \in DOMAIN line.cells /\ line.cells[col] > 0
    THEN line.cells[col] ELSE 0

Nothing == [meta |-> <<>>, header |-> Empty, col |-> 0, rows |-> <<>>]

Init ==
  /\ body \in [Side -> Bodies]
  /\ pc = "cached"
  /\ pos = 1
  /\ parsed = [s \in Side |-> Nothing]
  /\ merged = <<>>
  /\ out = <<>>

-----------------------------------------------------------------------------
(* The loop of parseCSVResponse: the first line that is neither empty nor   *)
(* meta is the header, all others are rows.                                 *)
Read(p, line) ==
  CASE line = Empty -> p
    [] line.kind = "meta" -> [p EXCEPT !.meta = Append(@, line)]
    [] IsText(line) /\ p.header = Empty ->
         [p EXCEPT !.header = line, !.col = TimeColumn(line)]
    [] OTHER ->
         [p EXCEPT !.rows = Append(@, [time |-> RowTime(line, p.col),
                                       raw |-> line])]

ParseLine(s) ==
  /\ pc = s /\ pos <= Len(Lines(body[s]))
  /\ parsed' = [parsed EXCEPT ![s] = Read(@, Lines(body[s])[pos])]
  /\ pos' = pos + 1
  /\ UNCHANGED <<body, pc, merged, out>>

Header ==
  IF parsed["cached"].header = Empty THEN parsed["live"].header
                                     ELSE parsed["cached"].header

(* The cached body is parsed first; without any header the live body is     *)
(* returned as it is.                                                       *)
ParseEnd(s) ==
  /\ pc = s /\ pos > Len(Lines(body[s]))
  /\ pos' = 1
  /\ \/ s = "cached" /\ pc' = "live" /\ UNCHANGED out
     \/ s = "live" /\ Header # Empty /\ pc' = "dedup" /\ UNCHANGED out
     \/ s = "live" /\ Header = Empty /\ pc' = "done" /\ out' = body["live"]
  /\ UNCHANGED <<body, parsed, merged>>

AllRows == parsed["cached"].rows \o parsed["live"].rows

BugSeen(row) == \E i \in DOMAIN merged : merged[i].time = row.time
Seen(row) == \E i \in DOMAIN merged : merged[i].raw = row.raw

Dedup ==
  /\ pc = "dedup" /\ pos <= Len(AllRows)
  /\ merged' = IF Seen(AllRows[pos]) THEN merged
                                     ELSE Append(merged, AllRows[pos])
  /\ pos' = pos + 1
  /\ UNCHANGED <<body, pc, parsed, out>>

DedupEnd ==
  /\ pc = "dedup" /\ pos > Len(AllRows)
  /\ pc' = "sort"
  /\ pos' = 1
  /\ UNCHANGED <<body, parsed, merged, out>>

(* sort.Slice is not stable: rows of one time come in any order.  Whatever  *)
(* it does, the row it leaves at pos is one of the earliest from pos on.    *)
BugEarliest(i) == i = pos
Earliest(i) == \A j \in pos..Len(merged) : merged[i].time <= merged[j].time

Sort ==
  /\ pc = "sort" /\ pos <= Len(merged)
  /\ \E i \in pos..Len(merged) :
       /\ Earliest(i)
       /\ merged' = [merged EXCEPT ![pos] = merged[i], ![i] = merged[pos]]
  /\ pos' = pos + 1
  /\ UNCHANGED <<body, pc, parsed, out>>

(* Only the meta lines of the cached segment are kept.                      *)
Raws(rows) == [i \in DOMAIN rows |-> rows[i].raw]
BugOutput(rows) == parsed["cached"].meta \o Raws(rows)
Output(rows) == parsed["cached"].meta \o <<Header>> \o Raws(rows)

Emit ==
  /\ pc = "sort" /\ pos > Len(merged)
  /\ out' = Output(merged)
  /\ pc' = "done"
  /\ UNCHANGED <<body, pos, parsed, merged>>

(* MergeCSV has returned; in any other state a step is left.                *)
Returned == pc = "done" /\ UNCHANGED vars

Next ==
  \/ \E s \in Side : ParseLine(s) \/ ParseEnd(s)
  \/ Dedup \/ DedupEnd \/ Sort \/ Emit \/ Returned

Spec == Init /\ [][Next]_vars

-----------------------------------------------------------------------------
Row == [time: Nat, raw: Line]
Parsed == [meta: Seq(Line), header: Line, col: Nat, rows: Seq(Row)]

TypeOK ==
  /\ body \in [Side -> Seq(Line)]
  /\ pc \in {"cached", "live", "dedup", "sort", "done"}
  /\ pos \in Nat
  /\ parsed \in [Side -> Parsed]
  /\ merged \in Seq(Row)
  /\ out \in Seq(Line)

(* The reference: the header is the first text line of a response, its rows *)
(* the text lines after it.                                                 *)
Headers(b) ==
  {b[i] : i \in {j \in DOMAIN b : /\ IsText(b[j])
                                  /\ \A k \in 1..(j - 1) : ~IsText(b[k])}}
Rows(b) ==
  {b[i] : i \in {j \in DOMAIN b : /\ IsText(b[j])
                                  /\ \E k \in 1..(j - 1) : IsText(b[k])}}

Merged == pc = "done" /\ Header # Empty

(* The merge has every row of both segments once, and no others             *)
(* (docs/query-rewrite-and-merge.md:24-25; merge.go:26-35).                 *)
RowsKept ==
  Merged =>
    /\ ToSet(Raws(merged))
         = Rows(Lines(body["cached"])) \cup Rows(Lines(body["live"]))
    /\ \A i, j \in DOMAIN merged : merged[i].raw = merged[j].raw => i = j

(* When both segments have the same header, line ends aside, the result has *)
(* all rows in the order of its _time column, those without a time first    *)
(* (docs/query-rewrite-and-merge.md:26; merge.go:37).                       *)
WithoutCR(line) == [line EXCEPT !.cr = FALSE]
TimeIn(line) == RowTime(line, TimeColumn(Header))

SameHeader ==
  \A s \in Side :
    \A h \in Headers(Lines(body[s])) : WithoutCR(h) = WithoutCR(Header)

OrderedTable ==
  Merged /\ SameHeader =>
    \A i, j \in DOMAIN merged :
      i < j => TimeIn(merged[i].raw) <= TimeIn(merged[j].raw)

(* What a client reads from the result is the header and the rows that were *)
(* merged, up to blank lines and line ends, unless the header is itself a   *)
(* line "\r" (merge.go:39-45).                                              *)
Text(lines) == {WithoutCR(l) : l \in lines} \ {Empty}

ReadsBack ==
  Merged /\ Header.kind = "text" =>
    /\ Text(Headers(Lines(out))) = Text({Header})
    /\ Text(Rows(Lines(out))) = Text(ToSet(Raws(merged)))
=============================================================================
