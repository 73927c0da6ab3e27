--------------------------- MODULE MergeCSVProofs ---------------------------
(***************************************************************************)
(* Theorems about MergeCSV, for any two responses.                         *)
(***************************************************************************)
EXTENDS MergeCSV, SumsProofs, SequenceTheorems

-----------------------------------------------------------------------------
(* The least and the greatest of a set of positions, from the well-founded  *)
(* order of the naturals.                                                   *)
LEMMA MinProperties ==
  ASSUME NEW S \in SUBSET Nat, S # {}
  PROVE  Min(S) \in S /\ \A k \in S : Min(S) <= k
BY Least DEF Min

LEMMA MaxProperties ==
  ASSUME NEW n \in Nat, NEW S \in SUBSET (1..n), S # {}
  PROVE  Max(S) \in S /\ \A k \in S : k <= Max(S)
<1> DEFINE T == {n - k : k \in S}
<1>1. T \in SUBSET Nat /\ T # {}
  <2>1. \A k \in S : n - k \in Nat
    OBVIOUS
  <2> QED
    BY <2>1
<1>2. PICK t \in T : \A u \in T : t <= u
  <2> HIDE DEF T
  <2> QED
    BY <1>1, Least
<1>3. PICK m \in S : t = n - m
  OBVIOUS
<1>4. \A k \in S : m >= k
  BY <1>2, <1>3
<1> QED
  BY <1>4 DEF Max

-----------------------------------------------------------------------------
(* The operators.                                                           *)
LEMMA LineFields ==
  ASSUME NEW l \in Line
  PROVE  /\ l.kind \in Kind /\ l.cells \in Seq(Int) /\ l.cr \in BOOLEAN
         /\ l.kind = "blank" => l.cells = <<>>
         /\ l = [kind |-> l.kind, cells |-> l.cells, cr |-> l.cr]
BY DEF Line

LEMMA EmptyLine == Empty \in Line /\ ~IsText(Empty)
<1>1. <<>> \in Seq(Int)
  OBVIOUS
<1> QED
  BY <1>1 DEF Empty, Line, Kind, IsText

LEMMA WithoutCRType ==
  ASSUME NEW l \in Line
  PROVE  /\ WithoutCR(l) \in Line
         /\ WithoutCR(l).kind = l.kind /\ WithoutCR(l).cells = l.cells
         /\ WithoutCR(l).cr = FALSE
BY DEF Line, WithoutCR

LEMMA WithoutCRShape ==
  ASSUME NEW l \in Line
  PROVE  WithoutCR(l) = [kind |-> l.kind, cells |-> l.cells, cr |-> FALSE]
<1> DEFINE w == WithoutCR(l)
<1>1. w \in Line /\ w.kind = l.kind /\ w.cells = l.cells /\ w.cr = FALSE
  BY WithoutCRType
<1> HIDE DEF w
<1>2. w = [kind |-> w.kind, cells |-> w.cells, cr |-> w.cr]
  BY <1>1, LineFields
<1> QED
  BY <1>1, <1>2 DEF w

LEMMA TimeColumnType ==
  ASSUME NEW l \in Line
  PROVE  TimeColumn(l) \in Nat
<1> DEFINE cols == {i \in DOMAIN l.cells : l.cells[i] = TimeLabel}
<1>1. cols \in SUBSET Nat
  BY LineFields
<1> QED
  BY <1>1, MinProperties DEF TimeColumn

LEMMA RowTimeType ==
  ASSUME NEW l \in Line, NEW col \in Nat
  PROVE  RowTime(l, col) \in Nat
<1>1. \A i \in DOMAIN l.cells : l.cells[i] \in Int
  BY LineFields, ElementOfSeq
<1> QED
  BY <1>1 DEF RowTime

(* What TrimSpace and Split leave of a body with text.                      *)
Full(b) == {i \in DOMAIN b : b[i].kind # "blank"}

LEMMA LinesShape ==
  ASSUME NEW b \in Seq(Line), Full(b) # {},
         NEW f, f = Min(Full(b)), NEW t, t = Max(Full(b))
  PROVE  /\ f \in Full(b) /\ t \in Full(b) /\ f <= t
         /\ \A i \in Full(b) : f <= i /\ i <= t
         /\ Lines(b) \in Seq(Line)
         /\ Len(Lines(b)) = t - f + 1
         /\ \A i \in 1..(t - f) : Lines(b)[i] = b[f + i - 1]
         /\ Lines(b)[t - f + 1] = WithoutCR(b[t])
<1> DEFINE kept == SubSeq(b, f, t)
<1>1. /\ Full(b) \in SUBSET (1..Len(b)) /\ Len(b) \in Nat
      /\ Full(b) \in SUBSET Nat
  BY DEF Full
<1>2. /\ f \in Full(b) /\ t \in Full(b)
      /\ \A i \in Full(b) : f <= i /\ i <= t
  BY <1>1, MinProperties, MaxProperties
<1>3. f \in 1..Len(b) /\ t \in 1..Len(b) /\ f <= t
  BY <1>1, <1>2
<1>4. /\ kept \in Seq(Line) /\ Len(kept) = t - f + 1
      /\ \A i \in 1..(t - f + 1) : kept[i] = b[f + i - 1]
  BY <1>3, SubSeqProperties
<1>5. Lines(b) = [kept EXCEPT ![Len(kept)] = WithoutCR(@)]
  BY DEF Lines, Full, WithoutCR
<1>6. kept[Len(kept)] = b[t] /\ b[t] \in Line
  BY <1>3, <1>4, ElementOfSeq
<1>7. WithoutCR(b[t]) \in Line
  BY <1>6, WithoutCRType
<1> HIDE DEF kept
<1>8. /\ Lines(b) \in Seq(Line) /\ Len(Lines(b)) = Len(kept)
      /\ \A i \in 1..Len(kept) :
           Lines(b)[i] = IF i = Len(kept) THEN WithoutCR(b[t]) ELSE kept[i]
  BY <1>3, <1>4, <1>5, <1>6, <1>7, ExceptSeq
<1> QED
  BY <1>2, <1>3, <1>4, <1>8

LEMMA LinesType ==
  ASSUME NEW b \in Seq(Line) PROVE Lines(b) \in Seq(Line)
<1>1. CASE Full(b) = {}
  BY <1>1 DEF Lines, Full
<1>2. CASE Full(b) # {}
  BY <1>2, LinesShape
<1> QED
  BY <1>1, <1>2

LEMMA ParsedFields ==
  ASSUME NEW p \in Parsed
  PROVE  /\ p.meta \in Seq(Line) /\ p.header \in Line /\ p.col \in Nat
         /\ p.rows \in Seq(Row)
BY DEF Parsed

(* The four branches of the parser's loop.                                  *)
LEMMA ReadCases ==
  ASSUME NEW p \in Parsed, NEW line \in Line
  PROVE  /\ Read(p, line) \in Parsed
         /\ \/ ~IsText(line) /\ Read(p, line) = p
            \/ /\ ~IsText(line) /\ line.kind = "meta"
               /\ Read(p, line) = [p EXCEPT !.meta = Append(p.meta, line)]
            \/ /\ IsText(line) /\ p.header = Empty
               /\ Read(p, line) = [p EXCEPT !.header = line,
                                            !.col = TimeColumn(line)]
            \/ /\ IsText(line) /\ p.header # Empty
               /\ Read(p, line) =
                    [p EXCEPT !.rows = Append(p.rows,
                       [time |-> RowTime(line, p.col), raw |-> line])]
<1> DEFINE row == [time |-> RowTime(line, p.col), raw |-> line]
<1>1. row \in Row
  BY ParsedFields, RowTimeType DEF Row
<1>2. TimeColumn(line) \in Nat
  BY TimeColumnType
<1>3. /\ Append(p.meta, line) \in Seq(Line)
      /\ Append(p.rows, row) \in Seq(Row)
  <2> HIDE DEF row
  <2> QED
    BY <1>1, ParsedFields, AppendProperties
<1>4. CASE line = Empty
  <2>1. line.kind # "meta" /\ ~IsText(line)
    BY <1>4, EmptyLine DEF Empty
  <2>2. Read(p, line) = p
    BY <1>4, <2>1 DEF Read
  <2> QED
    BY <2>1, <2>2
<1>5. CASE line.kind = "meta"
  <2>1. line # Empty /\ ~IsText(line)
    BY <1>5 DEF Empty, IsText
  <2>2. Read(p, line) = [p EXCEPT !.meta = Append(p.meta, line)]
    BY <1>5, <2>1 DEF Read
  <2> QED
    BY <1>3, <1>5, <2>1, <2>2 DEF Parsed
<1>6. CASE line # Empty /\ line.kind # "meta" /\ p.header = Empty
  <2>1. IsText(line)
    BY <1>6 DEF IsText
  <2>2. Read(p, line) = [p EXCEPT !.header = line, !.col = TimeColumn(line)]
    BY <1>6, <2>1 DEF Read
  <2> QED
    BY <1>2, <1>6, <2>1, <2>2 DEF Parsed
<1>7. CASE line # Empty /\ line.kind # "meta" /\ p.header # Empty
  <2>1. IsText(line)
    BY <1>7 DEF IsText
  <2>2. Read(p, line) = [p EXCEPT !.rows = Append(p.rows, row)]
    BY <1>7 DEF Read
  <2> HIDE DEF row
  <2>3. Read(p, line) \in Parsed
    BY <1>3, <2>2 DEF Parsed
  <2> QED
    BY <1>7, <2>1, <2>2, <2>3 DEF row
<1> QED
  BY <1>4, <1>5, <1>6, <1>7

-----------------------------------------------------------------------------
(* The parser's loop invariant: p is what the first n lines of b parse to.  *)
HeadAt(b, j) == IsText(b[j]) /\ \A k \in 1..(j - 1) : ~IsText(b[k])
RowAt(b, j) == IsText(b[j]) /\ \E k \in 1..(j - 1) : IsText(b[k])

ParsedTo(b, n, p) ==
  /\ p.header = Empty => \A j \in 1..n : ~IsText(b[j])
  /\ p.header # Empty => \E j \in 1..n : HeadAt(b, j) /\ p.header = b[j]
  /\ p.col = TimeColumn(p.header)
  /\ \A i \in DOMAIN p.meta : p.meta[i].kind = "meta"
  /\ \A i \in DOMAIN p.rows : \E j \in 1..n : RowAt(b, j) /\ p.rows[i].raw = b[j]
  /\ \A i \in DOMAIN p.rows : p.rows[i].time = RowTime(p.rows[i].raw, p.col)
  /\ \A j \in 1..n : RowAt(b, j) =>
       \E i \in DOMAIN p.rows : p.rows[i].raw = b[j]

LEMMA NothingParsed ==
  ASSUME NEW b PROVE Nothing \in Parsed /\ ParsedTo(b, 0, Nothing)
<1>1. /\ Nothing.meta = <<>> /\ Nothing.header = Empty /\ Nothing.col = 0
      /\ Nothing.rows = <<>>
  BY DEF Nothing
<1>2. TimeColumn(Empty) = 0
  BY DEF TimeColumn, Empty
<1>3. Nothing \in Parsed
  <2>1. <<>> \in Seq(Line) /\ <<>> \in Seq(Row)
    OBVIOUS
  <2> QED
    BY <2>1, EmptyLine DEF Nothing, Parsed
<1> QED
  BY <1>1, <1>2, <1>3 DEF ParsedTo

LEMMA ParseStep ==
  ASSUME NEW b \in Seq(Line), NEW n \in Nat, n + 1 <= Len(b),
         NEW p \in Parsed, ParsedTo(b, n, p)
  PROVE  ParsedTo(b, n + 1, Read(p, b[n + 1]))
<1> DEFINE line == b[n + 1]
           q == Read(p, line)
<1> SUFFICES ParsedTo(b, n + 1, q)
  OBVIOUS
<1>1. line \in Line
  BY ElementOfSeq
<1>2. 1..(n + 1) = (1..n) \cup {n + 1} /\ (n + 1) - 1 = n
  OBVIOUS
<1>3. q \in Parsed
  BY <1>1, ReadCases
<1>4. /\ p.meta \in Seq(Line) /\ p.rows \in Seq(Row)
      /\ p.header \in Line /\ p.col \in Nat
  BY ParsedFields
<1>5. CASE ~IsText(line) /\ q.header = p.header /\ q.col = p.col
           /\ q.rows = p.rows /\ \A i \in DOMAIN q.meta : q.meta[i].kind = "meta"
  <2>1. ~RowAt(b, n + 1)
    BY <1>5 DEF RowAt
  <2> HIDE DEF q
  <2> QED
    BY <1>2, <1>5, <2>1 DEF ParsedTo
<1>6. CASE ~IsText(line) /\ q = p
  BY <1>5, <1>6 DEF ParsedTo
<1>7. CASE /\ ~IsText(line) /\ line.kind = "meta"
           /\ q = [p EXCEPT !.meta = Append(p.meta, line)]
  <2>1. /\ q.header = p.header /\ q.col = p.col /\ q.rows = p.rows
        /\ q.meta = Append(p.meta, line)
    BY <1>7 DEF Parsed
  <2>2. \A i \in DOMAIN q.meta : q.meta[i].kind = "meta"
    <3> HIDE DEF q, line
    <3>1. /\ \A i \in 1..Len(p.meta) : q.meta[i] = p.meta[i]
          /\ q.meta[Len(p.meta) + 1] = line
          /\ DOMAIN q.meta = 1..(Len(p.meta) + 1)
          /\ DOMAIN p.meta = 1..Len(p.meta) /\ Len(p.meta) \in Nat
      BY <1>1, <1>4, <2>1, AppendProperties
    <3> QED
      BY <1>7, <3>1 DEF ParsedTo
  <2> QED
    BY <1>5, <1>7, <2>1, <2>2
<1>8. CASE /\ IsText(line) /\ p.header = Empty
           /\ q = [p EXCEPT !.header = line, !.col = TimeColumn(line)]
  <2>1. /\ q.header = line /\ q.col = TimeColumn(line) /\ q.rows = p.rows
        /\ q.meta = p.meta
    BY <1>8 DEF Parsed
  <2>2. \A j \in 1..n : ~IsText(b[j])
    BY <1>8 DEF ParsedTo
  <2>3. DOMAIN p.rows = {}
    BY <2>2 DEF ParsedTo, RowAt
  <2>4. HeadAt(b, n + 1) /\ \A j \in 1..(n + 1) : ~RowAt(b, j)
    BY <1>2, <1>8, <2>2 DEF HeadAt, RowAt
  <2>5. line # Empty /\ n + 1 \in 1..(n + 1)
    BY <1>8 DEF IsText
  <2> HIDE DEF q
  <2> QED
    BY <2>1, <2>3, <2>4, <2>5 DEF ParsedTo
<1>9. CASE /\ IsText(line) /\ p.header # Empty
           /\ q = [p EXCEPT !.rows = Append(p.rows,
                    [time |-> RowTime(line, p.col), raw |-> line])]
  <2> DEFINE row == [time |-> RowTime(line, p.col), raw |-> line]
             m == Len(p.rows)
  <2>1. /\ q.header = p.header /\ q.col = p.col /\ q.meta = p.meta
        /\ q.rows = Append(p.rows, row)
    BY <1>9 DEF Parsed
  <2>2. row \in Row /\ row.raw = line /\ row.time = RowTime(line, p.col)
    BY <1>1, <1>4, RowTimeType DEF Row
  <2> HIDE DEF q, row, line
  <2>3. /\ \A i \in 1..m : q.rows[i] = p.rows[i]
        /\ q.rows[m + 1] = row
        /\ DOMAIN q.rows = (1..m) \cup {m + 1}
        /\ DOMAIN p.rows = 1..m /\ m \in Nat
    BY <1>4, <2>1, <2>2, AppendProperties
  <2> HIDE DEF m
  <2>4. RowAt(b, n + 1)
    <3>1. PICK j \in 1..n : IsText(b[j])
      BY <1>9 DEF ParsedTo, HeadAt
    <3> QED
      BY <1>2, <1>9, <3>1 DEF RowAt, line
  <2>5. \E j \in 1..(n + 1) : HeadAt(b, j) /\ q.header = b[j]
    BY <1>2, <1>9, <2>1 DEF ParsedTo
  <2>6. \A i \in DOMAIN q.rows :
          \E j \in 1..(n + 1) : RowAt(b, j) /\ q.rows[i].raw = b[j]
    <3>1. \A i \in 1..m :
            \E j \in 1..(n + 1) : RowAt(b, j) /\ q.rows[i].raw = b[j]
      <4>1. \A i \in 1..m :
              \E j \in 1..n : RowAt(b, j) /\ p.rows[i].raw = b[j]
        BY <2>3 DEF ParsedTo
      <4>2. \A i \in 1..m :
              \E j \in 1..n : RowAt(b, j) /\ q.rows[i].raw = b[j]
        BY <2>3, <4>1
      <4>3. 1..n \subseteq 1..(n + 1)
        OBVIOUS
      <4> QED
        BY <4>2, <4>3
    <3>2. RowAt(b, n + 1) /\ q.rows[m + 1].raw = b[n + 1]
      BY <2>2, <2>3, <2>4 DEF line
    <3> QED
      BY <1>2, <2>3, <3>1, <3>2
  <2>7. \A i \in DOMAIN q.rows : q.rows[i].time = RowTime(q.rows[i].raw, q.col)
    BY <2>1, <2>2, <2>3 DEF ParsedTo
  <2>8. \A j \in 1..(n + 1) : RowAt(b, j) =>
          \E i \in DOMAIN q.rows : q.rows[i].raw = b[j]
    <3>1. \A j \in 1..n : RowAt(b, j) =>
            \E i \in DOMAIN q.rows : q.rows[i].raw = b[j]
      BY <2>3 DEF ParsedTo
    <3>2. q.rows[m + 1].raw = b[n + 1]
      BY <2>2, <2>3 DEF line
    <3> QED
      BY <1>2, <2>3, <3>1, <3>2
  <2> QED
    BY <1>9, <2>1, <2>5, <2>6, <2>7, <2>8 DEF ParsedTo
<1> QED
  BY <1>1, <1>6, <1>7, <1>8, <1>9, ReadCases

-----------------------------------------------------------------------------
(* The loop invariant of the deduplication: rows holds every line of the    *)
(* first n of all rows once.                                                *)
Chosen(rows, all, n) ==
  /\ \A i \in DOMAIN rows : \E j \in 1..n : rows[i] = all[j]
  /\ \A j \in 1..n : \E i \in DOMAIN rows : rows[i].raw = all[j].raw
  /\ \A i, j \in DOMAIN rows : rows[i].raw = rows[j].raw => i = j

LEMMA ChosenStep ==
  ASSUME NEW rows \in Seq(Row), NEW all \in Seq(Row), NEW n \in Nat,
         n + 1 <= Len(all), Chosen(rows, all, n),
         NEW next,
         next = IF \E i \in DOMAIN rows : rows[i].raw = all[n + 1].raw
                  THEN rows ELSE Append(rows, all[n + 1])
  PROVE  next \in Seq(Row) /\ Chosen(next, all, n + 1)
<1>1. 1..(n + 1) = (1..n) \cup {n + 1}
  OBVIOUS
<1>2. CASE \E i \in DOMAIN rows : rows[i].raw = all[n + 1].raw
  BY <1>1, <1>2 DEF Chosen
<1>3. CASE ~\E i \in DOMAIN rows : rows[i].raw = all[n + 1].raw
  <2> DEFINE m == Len(rows)
             row == all[n + 1]
  <2>1. row \in Row /\ next = Append(rows, row)
    BY <1>3, ElementOfSeq
  <2> HIDE DEF row
  <2>2. /\ next \in Seq(Row) /\ m \in Nat
        /\ \A i \in 1..m : next[i] = rows[i]
        /\ next[m + 1] = row
        /\ DOMAIN next = (1..m) \cup {m + 1}
        /\ DOMAIN rows = 1..m
    BY <2>1, AppendProperties
  <2> HIDE DEF m
  <2>3. \A i \in DOMAIN next : \E j \in 1..(n + 1) : next[i] = all[j]
    <3>1. ASSUME NEW i \in 1..m PROVE \E j \in 1..(n + 1) : next[i] = all[j]
      <4>1. PICK j \in 1..n : rows[i] = all[j]
        BY <2>2 DEF Chosen
      <4> QED
        BY <1>1, <2>2, <4>1
    <3>2. next[m + 1] = all[n + 1]
      BY <2>2 DEF row
    <3> QED
      BY <1>1, <2>2, <3>1, <3>2
  <2>4. \A j \in 1..(n + 1) : \E i \in DOMAIN next : next[i].raw = all[j].raw
    <3>1. ASSUME NEW j \in 1..n
          PROVE  \E i \in DOMAIN next : next[i].raw = all[j].raw
      <4>1. PICK i \in 1..m : rows[i].raw = all[j].raw
        BY <2>2 DEF Chosen
      <4> QED
        BY <2>2, <4>1
    <3>2. next[m + 1].raw = all[n + 1].raw
      BY <2>2 DEF row
    <3> QED
      BY <1>1, <2>2, <3>1, <3>2
  <2>5. \A i, j \in DOMAIN next : next[i].raw = next[j].raw => i = j
    <3>1. \A i, j \in 1..m : next[i].raw = next[j].raw => i = j
      BY <2>2 DEF Chosen
    <3>2. \A i \in 1..m : next[i].raw # next[m + 1].raw
      BY <1>3, <2>2 DEF row
    <3> QED
      BY <2>2, <3>1, <3>2
  <2> QED
    BY <2>2, <2>3, <2>4, <2>5 DEF Chosen
<1> QED
  BY <1>2, <1>3

(* The sorting loop: the first n rows are in place, and swapping one of the *)
(* earliest of the others with row n + 1 keeps the rows.                    *)
SortedTo(rows, n) ==
  \A i \in 1..n, j \in DOMAIN rows : i < j => rows[i].time <= rows[j].time

SwapOf(rows, n, next) ==
  \E e \in n..Len(rows) :
    /\ \A j \in n..Len(rows) : rows[e].time <= rows[j].time
    /\ next = [rows EXCEPT ![n] = rows[e], ![e] = rows[n]]

LEMMA SwapStep ==
  ASSUME NEW rows \in Seq(Row), NEW n \in Nat, n + 1 <= Len(rows),
         NEW all, NEW k, Chosen(rows, all, k), SortedTo(rows, n),
         NEW next, SwapOf(rows, n + 1, next)
  PROVE  /\ next \in Seq(Row) /\ Len(next) = Len(rows)
         /\ Chosen(next, all, k) /\ SortedTo(next, n + 1)
<1>0. PICK e \in (n + 1)..Len(rows) :
        /\ \A j \in (n + 1)..Len(rows) : rows[e].time <= rows[j].time
        /\ next = [rows EXCEPT ![n + 1] = rows[e], ![e] = rows[n + 1]]
  BY DEF SwapOf
<1> DEFINE D == DOMAIN rows
           f == [x \in D |-> IF x = n + 1 THEN e ELSE IF x = e THEN n + 1 ELSE x]
<1>1. /\ D = 1..Len(rows) /\ Len(rows) \in Nat /\ e \in D /\ n + 1 \in D
      /\ \A i \in D : rows[i] \in Row
  BY ElementOfSeq
<1>2. /\ f \in [D -> D] /\ \A w \in D : f[f[w]] = w
  BY <1>1
<1>3. DOMAIN next = D /\ \A x \in D : next[x] = rows[f[x]]
  BY <1>0, <1>1
<1>4. next \in Seq(Row) /\ Len(next) = Len(rows)
  <2>1. next \in [1..Len(rows) -> Row]
    BY <1>0, <1>1
  <2> QED
    BY <1>1, <2>1, IsASeq, LenProperties
<1>5. Chosen(next, all, k)
  <2> HIDE DEF f
  <2>1. ASSUME NEW i \in D PROVE \E j \in 1..k : next[i] = all[j]
    <3>1. f[i] \in D /\ next[i] = rows[f[i]]
      BY <1>2, <1>3
    <3>2. PICK j \in 1..k : rows[f[i]] = all[j]
      BY <3>1 DEF Chosen
    <3> QED
      BY <3>1, <3>2
  <2>2. \A j \in 1..k : \E i \in D : next[i].raw = all[j].raw
    <3> SUFFICES ASSUME NEW j \in 1..k
                 PROVE  \E i \in D : next[i].raw = all[j].raw
      OBVIOUS
    <3>1. PICK w \in D : rows[w].raw = all[j].raw
      BY DEF Chosen
    <3>2. f[w] \in D /\ next[f[w]] = rows[w]
      BY <1>2, <1>3
    <3> QED
      BY <3>1, <3>2
  <2>3. \A i, j \in D : next[i].raw = next[j].raw => i = j
    <3> SUFFICES ASSUME NEW i \in D, NEW j \in D, next[i].raw = next[j].raw
                 PROVE  i = j
      OBVIOUS
    <3>1. f[i] \in D /\ f[j] \in D /\ rows[f[i]].raw = rows[f[j]].raw
      BY <1>2, <1>3
    <3>2. f[i] = f[j]
      BY <3>1 DEF Chosen
    <3> QED
      BY <1>2, <3>2
  <2> QED
    BY <1>3, <2>1, <2>2, <2>3 DEF Chosen
<1>6. SortedTo(next, n + 1)
  <2> SUFFICES ASSUME NEW i \in 1..(n + 1), NEW j \in D, i < j
               PROVE  next[i].time <= next[j].time
    BY <1>3 DEF SortedTo
  <2>1. f[j] \in D /\ next[j] = rows[f[j]]
    BY <1>2, <1>3
  <2>2. CASE i \in 1..n
    <3>1. next[i] = rows[i] /\ i < f[j]
      BY <1>1, <1>3, <2>2
    <3> QED
      BY <2>1, <2>2, <3>1 DEF SortedTo
  <2>3. CASE i = n + 1
    <3>1. next[i] = rows[e] /\ f[j] \in (n + 1)..Len(rows)
      BY <1>1, <1>3, <2>3
    <3> HIDE DEF f
    <3> QED
      BY <1>0, <2>1, <3>1
  <2> QED
    BY <2>2, <2>3
<1> QED
  BY <1>4, <1>5, <1>6

-----------------------------------------------------------------------------
(* The inductive invariant: each loop is where its invariant says it is.    *)
Consumed(s) ==
  IF pc = s THEN pos - 1
  ELSE IF pc = "cached" THEN 0 ELSE Len(Lines(body[s]))

Progress ==
  /\ pos >= 1
  /\ pc \in Side => pos <= Len(Lines(body[pc])) + 1 /\ merged = <<>>
  /\ pc = "dedup" => pos <= Len(AllRows) + 1
  /\ pc = "sort" => pos <= Len(merged) + 1
  /\ pc \in {"dedup", "sort"} => Header # Empty

ParseInv == \A s \in Side : ParsedTo(Lines(body[s]), Consumed(s), parsed[s])

RowsInv ==
  /\ pc = "dedup" => Chosen(merged, AllRows, pos - 1)
  /\ pc = "sort" \/ Merged => Chosen(merged, AllRows, Len(AllRows))
  /\ pc = "sort" => SortedTo(merged, pos - 1)
  /\ Merged => SortedTo(merged, Len(merged)) /\ out = Output(merged)

MergeInv == TypeOK /\ Progress /\ ParseInv /\ RowsInv

LEMMA Sizes ==
  ASSUME TypeOK
  PROVE  /\ \A s \in Side : /\ Lines(body[s]) \in Seq(Line)
                            /\ Len(Lines(body[s])) \in Nat
         /\ AllRows \in Seq(Row) /\ Len(AllRows) \in Nat
         /\ Len(merged) \in Nat /\ Header \in Line
<1>1. \A s \in Side : Lines(body[s]) \in Seq(Line)
  BY LinesType DEF TypeOK
<1>2. \A s \in Side : parsed[s].rows \in Seq(Row) /\ parsed[s].header \in Line
  BY ParsedFields DEF TypeOK
<1>3. AllRows \in Seq(Row) /\ Header \in Line
  BY <1>2 DEF AllRows, Header, Side
<1>4. merged \in Seq(Row)
  BY DEF TypeOK
<1> QED
  BY <1>1, <1>3, <1>4, LenProperties

LEMMA MergeInitial == Init => MergeInv
<1> SUFFICES ASSUME Init PROVE MergeInv
  OBVIOUS
<1>1. /\ pc = "cached" /\ pos = 1 /\ merged = <<>> /\ out = <<>>
      /\ body \in [Side -> Seq(Line)] /\ parsed = [s \in Side |-> Nothing]
  BY MergeAssumption DEF Init
<1>2. parsed \in [Side -> Parsed]
  BY <1>1, NothingParsed
<1>3. merged \in Seq(Row) /\ out \in Seq(Line)
  BY <1>1
<1>4. TypeOK
  BY <1>1, <1>2, <1>3 DEF TypeOK
<1>5. Progress
  BY <1>1, <1>4, Sizes DEF Progress, Side
<1>6. ParseInv
  <2>1. \A s \in Side : Consumed(s) = 0 /\ parsed[s] = Nothing
    BY <1>1 DEF Consumed, Side
  <2> QED
    BY <2>1, NothingParsed DEF ParseInv
<1>7. RowsInv
  BY <1>1 DEF RowsInv, Merged
<1> QED
  BY <1>4, <1>5, <1>6, <1>7 DEF MergeInv

LEMMA ParseLineKeeps ==
  ASSUME MergeInv, NEW s \in Side, ParseLine(s)
  PROVE  MergeInv'
<1> DEFINE b == Lines(body[s])
<1>1. /\ pc = s /\ pos <= Len(b) /\ pos' = pos + 1
      /\ parsed' = [parsed EXCEPT ![s] = Read(parsed[s], b[pos])]
      /\ UNCHANGED <<body, pc, merged, out>>
  BY DEF ParseLine
<1>2. TypeOK /\ Progress /\ ParseInv
  BY DEF MergeInv
<1>3. b \in Seq(Line) /\ Len(b) \in Nat /\ pos \in Nat /\ pos >= 1
  BY <1>2, Sizes DEF TypeOK, Progress
<1>4. b[pos] \in Line /\ parsed[s] \in Parsed
  BY <1>1, <1>2, <1>3, ElementOfSeq DEF TypeOK
<1> HIDE DEF b
<1>5. Read(parsed[s], b[pos]) \in Parsed
  BY <1>4, ReadCases
<1>6. TypeOK'
  BY <1>1, <1>2, <1>3, <1>5 DEF TypeOK
<1>7. pc \notin {"dedup", "sort", "done"}
  BY <1>1 DEF Side
<1>8. Progress'
  BY <1>1, <1>2, <1>3, <1>7 DEF Progress, b
<1>9. ParsedTo(b, pos, Read(parsed[s], b[pos]))
  <2>1. ParsedTo(b, pos - 1, parsed[s])
    BY <1>1, <1>2 DEF ParseInv, Consumed, b
  <2>2. pos - 1 \in Nat /\ (pos - 1) + 1 = pos
    BY <1>3
  <2> QED
    BY <1>1, <1>3, <1>4, <2>1, <2>2, ParseStep
<1>10. ASSUME NEW r \in Side
       PROVE  ParsedTo(Lines(body[r]), Consumed(r), parsed[r])'
  <2>1. CASE r = s
    <3>1. /\ Consumed(r)' = pos /\ parsed'[r] = Read(parsed[s], b[pos])
          /\ Lines(body[r])' = b
      BY <1>1, <1>2, <1>3, <2>1 DEF Consumed, TypeOK, b
    <3> QED
      BY <1>9, <3>1
  <2>2. CASE r # s
    <3>1. /\ Consumed(r)' = Consumed(r) /\ parsed'[r] = parsed[r]
          /\ Lines(body[r])' = Lines(body[r])
      BY <1>1, <1>2, <2>2 DEF Consumed, TypeOK
    <3> QED
      BY <1>2, <3>1 DEF ParseInv
  <2> QED
    BY <2>1, <2>2
<1>11. RowsInv'
  BY <1>1, <1>7 DEF RowsInv, Merged
<1> QED
  BY <1>6, <1>8, <1>10, <1>11 DEF MergeInv, ParseInv

LEMMA ParseEndKeeps ==
  ASSUME MergeInv, NEW s \in Side, ParseEnd(s)
  PROVE  MergeInv'
<1>1. /\ pc = s /\ pos > Len(Lines(body[s])) /\ pos' = 1
      /\ UNCHANGED <<body, parsed, merged>>
  BY DEF ParseEnd
<1>2. TypeOK /\ Progress /\ ParseInv /\ RowsInv
  BY DEF MergeInv
<1>3. \/ s = "cached" /\ pc' = "live" /\ out' = out
      \/ s = "live" /\ Header # Empty /\ pc' = "dedup" /\ out' = out
      \/ s = "live" /\ Header = Empty /\ pc' = "done" /\ out' = body["live"]
  BY DEF ParseEnd
<1>4. TypeOK'
  BY <1>1, <1>2, <1>3 DEF TypeOK, Side
<1>5. Header' = Header /\ AllRows' = AllRows
  BY <1>1 DEF Header, AllRows
<1>6. merged = <<>> /\ pos = Len(Lines(body[s])) + 1
  BY <1>1, <1>2, Sizes DEF Progress, TypeOK
<1>7. Progress'
  BY <1>1, <1>2, <1>3, <1>5, <1>6, Sizes DEF Progress, Side
<1>8. ASSUME NEW r \in Side
      PROVE  ParsedTo(Lines(body[r]), Consumed(r), parsed[r])'
  <2>1. Consumed(r)' = Consumed(r)
    BY <1>1, <1>2, <1>3, <1>6, Sizes DEF Consumed, Side
  <2> QED
    BY <1>1, <1>2, <2>1 DEF ParseInv
<1>9. RowsInv'
  <2>1. Chosen(merged, AllRows, 0)
    BY <1>6 DEF Chosen
  <2> QED
    BY <1>1, <1>3, <1>5, <2>1 DEF RowsInv, Merged
<1> QED
  BY <1>4, <1>7, <1>8, <1>9 DEF MergeInv, ParseInv

(* The loops over the rows leave the parsed responses alone.                *)
LEMMA ParseInvStays ==
  ASSUME ParseInv, UNCHANGED <<body, parsed>>,
         pc \notin Side, pc' \notin Side
  PROVE  /\ ParseInv' /\ Header' = Header /\ AllRows' = AllRows
<1>1. \A s \in Side : Consumed(s)' = Consumed(s)
  BY DEF Consumed, Side
<1> QED
  BY <1>1 DEF ParseInv, Header, AllRows

LEMMA DedupKeeps ==
  ASSUME MergeInv, Dedup \/ DedupEnd
  PROVE  MergeInv'
<1>1. TypeOK /\ Progress /\ ParseInv /\ RowsInv
  BY DEF MergeInv
<1>2. pc = "dedup" /\ pc' \in {"dedup", "sort"} /\ UNCHANGED <<body, parsed, out>>
  BY DEF Dedup, DedupEnd
<1>3. ParseInv' /\ Header' = Header /\ AllRows' = AllRows
  BY <1>1, <1>2, ParseInvStays DEF Side
<1>4. pos \in Nat /\ pos >= 1 /\ Len(AllRows) \in Nat /\ AllRows \in Seq(Row)
  BY <1>1, Sizes DEF TypeOK, Progress
<1>5. CASE Dedup
  <2>1. /\ pos <= Len(AllRows) /\ pc' = pc /\ pos' = pos + 1
        /\ merged' = IF \E i \in DOMAIN merged : merged[i].raw = AllRows[pos].raw
                       THEN merged ELSE Append(merged, AllRows[pos])
    BY <1>5 DEF Dedup, Seen
  <2>2. /\ merged \in Seq(Row) /\ pos - 1 \in Nat /\ (pos - 1) + 1 = pos
        /\ Chosen(merged, AllRows, pos - 1)
    BY <1>1, <1>2, <1>4 DEF TypeOK, RowsInv
  <2>3. merged' \in Seq(Row) /\ Chosen(merged', AllRows, pos)
    <3> DEFINE all == AllRows
    <3> HIDE DEF all
    <3> QED
      BY <1>4, <2>1, <2>2, ChosenStep DEF all
  <2>4. TypeOK'
    BY <1>1, <1>2, <1>4, <2>1, <2>3 DEF TypeOK
  <2>5. Progress'
    BY <1>1, <1>2, <1>3, <1>4, <2>1 DEF Progress, Side
  <2>6. RowsInv'
    BY <1>2, <1>3, <1>4, <2>1, <2>3 DEF RowsInv, Merged
  <2> QED
    BY <1>3, <2>4, <2>5, <2>6 DEF MergeInv
<1>6. CASE DedupEnd
  <2>1. /\ pos > Len(AllRows) /\ pc' = "sort" /\ pos' = 1 /\ merged' = merged
    BY <1>6 DEF DedupEnd
  <2>2. pos - 1 = Len(AllRows) /\ Len(merged) \in Nat
    BY <1>1, <1>2, <1>4, <2>1, Sizes DEF Progress
  <2>3. TypeOK'
    BY <1>1, <1>2, <2>1 DEF TypeOK
  <2>4. Progress'
    BY <1>1, <1>2, <1>3, <2>1, <2>2 DEF Progress, Side
  <2>5. RowsInv'
    BY <1>1, <1>2, <1>3, <2>1, <2>2 DEF RowsInv, Merged, SortedTo
  <2> QED
    BY <1>3, <2>3, <2>4, <2>5 DEF MergeInv
<1> QED
  BY <1>5, <1>6

LEMMA SortKeeps ==
  ASSUME MergeInv, Sort
  PROVE  MergeInv'
<1>1. TypeOK /\ Progress /\ ParseInv /\ RowsInv
  BY DEF MergeInv
<1>2. /\ pc = "sort" /\ pos <= Len(merged) /\ pos' = pos + 1
      /\ UNCHANGED <<body, pc, parsed, out>>
  BY DEF Sort
<1>3. PICK e \in pos..Len(merged) :
        /\ \A j \in pos..Len(merged) : merged[e].time <= merged[j].time
        /\ merged' = [merged EXCEPT ![pos] = merged[e], ![e] = merged[pos]]
  BY DEF Sort, Earliest
<1>4. ParseInv' /\ Header' = Header /\ AllRows' = AllRows
  BY <1>1, <1>2, ParseInvStays DEF Side
<1>5. /\ merged \in Seq(Row) /\ pos - 1 \in Nat /\ (pos - 1) + 1 = pos
      /\ Len(merged) \in Nat /\ pos \in Nat /\ pos >= 1
      /\ Chosen(merged, AllRows, Len(AllRows)) /\ SortedTo(merged, pos - 1)
  BY <1>1, <1>2, Sizes DEF TypeOK, Progress, RowsInv
<1>6. /\ merged' \in Seq(Row) /\ Len(merged') = Len(merged)
      /\ Chosen(merged', AllRows, Len(AllRows)) /\ SortedTo(merged', pos)
  <2> DEFINE all == AllRows
             n == pos - 1
             k == Len(AllRows)
  <2>1. SwapOf(merged, pos, merged')
    BY <1>3 DEF SwapOf
  <2>2. /\ n \in Nat /\ n + 1 = pos /\ n + 1 <= Len(merged)
        /\ Chosen(merged, all, k) /\ SortedTo(merged, n)
    BY <1>2, <1>5
  <2> HIDE DEF all, n, k
  <2>3. SwapOf(merged, n + 1, merged')
    BY <2>1, <2>2
  <2>4. /\ merged' \in Seq(Row) /\ Len(merged') = Len(merged)
        /\ Chosen(merged', all, k) /\ SortedTo(merged', n + 1)
    BY <1>5, <2>2, <2>3, SwapStep
  <2> QED
    BY <2>2, <2>4 DEF all, k
<1>7. TypeOK'
  BY <1>1, <1>2, <1>5, <1>6 DEF TypeOK
<1>8. Progress'
  BY <1>1, <1>2, <1>4, <1>5, <1>6 DEF Progress, Side
<1>9. RowsInv'
  BY <1>2, <1>4, <1>5, <1>6 DEF RowsInv, Merged
<1> QED
  BY <1>4, <1>7, <1>8, <1>9 DEF MergeInv

LEMMA RawsType ==
  ASSUME NEW rows \in Seq(Row)
  PROVE  /\ Raws(rows) \in Seq(Line) /\ Len(Raws(rows)) = Len(rows)
         /\ DOMAIN Raws(rows) = DOMAIN rows
         /\ \A i \in DOMAIN rows : Raws(rows)[i] = rows[i].raw
<1>1. DOMAIN rows = 1..Len(rows) /\ Len(rows) \in Nat
  OBVIOUS
<1>2. \A i \in DOMAIN rows : rows[i].raw \in Line
  <2>1. \A i \in DOMAIN rows : rows[i] \in Row
    BY <1>1, ElementOfSeq
  <2> QED
    BY <2>1 DEF Row
<1>3. Raws(rows) \in [1..Len(rows) -> Line]
  BY <1>1, <1>2 DEF Raws
<1>4. Raws(rows) \in Seq(Line) /\ Len(Raws(rows)) = Len(rows)
  BY <1>1, <1>3, IsASeq, LenProperties
<1> QED
  BY <1>1, <1>3, <1>4 DEF Raws

LEMMA EmitKeeps ==
  ASSUME MergeInv, Emit
  PROVE  MergeInv'
<1>1. TypeOK /\ Progress /\ ParseInv /\ RowsInv
  BY DEF MergeInv
<1>2. /\ pc = "sort" /\ pos > Len(merged) /\ out' = Output(merged)
      /\ pc' = "done" /\ UNCHANGED <<body, pos, parsed, merged>>
  BY DEF Emit
<1>3. ParseInv' /\ Header' = Header /\ AllRows' = AllRows
  BY <1>1, <1>2, ParseInvStays DEF Side
<1>4. Output(merged) \in Seq(Line)
  <2>1. parsed["cached"].meta \in Seq(Line)
    BY <1>1, ParsedFields DEF TypeOK, Side
  <2>2. Raws(merged) \in Seq(Line) /\ <<Header>> \in Seq(Line)
    BY <1>1, RawsType, Sizes DEF TypeOK
  <2> QED
    BY <2>1, <2>2 DEF Output
<1>5. Output(merged)' = Output(merged)
  BY <1>2, <1>3 DEF Output
<1>6. pos - 1 = Len(merged)
  BY <1>1, <1>2, Sizes DEF Progress, TypeOK
<1>7. TypeOK'
  BY <1>1, <1>2, <1>4 DEF TypeOK
<1>8. Progress'
  BY <1>1, <1>2 DEF Progress, Side
<1>9. RowsInv'
  BY <1>1, <1>2, <1>3, <1>5, <1>6 DEF RowsInv, Merged
<1> QED
  BY <1>3, <1>7, <1>8, <1>9 DEF MergeInv

LEMMA MergeInvariant == Spec => []MergeInv
<1>1. MergeInv /\ UNCHANGED vars => MergeInv'
  <2> SUFFICES ASSUME MergeInv, UNCHANGED vars PROVE MergeInv'
    OBVIOUS
  <2>1. UNCHANGED <<body, pc, pos, parsed, merged, out>>
    BY DEF vars
  <2>2. Header' = Header /\ AllRows' = AllRows /\ Output(merged)' = Output(merged)
    BY <2>1 DEF Header, AllRows, Output
  <2>3. \A s \in Side : Consumed(s)' = Consumed(s)
    BY <2>1 DEF Consumed
  <2> QED
    BY <2>1, <2>2, <2>3
       DEF MergeInv, TypeOK, Progress, ParseInv, RowsInv, Merged
<1>2. MergeInv /\ [Next]_vars => MergeInv'
  BY <1>1, ParseLineKeeps, ParseEndKeeps, DedupKeeps, SortKeeps, EmitKeeps
     DEF Next, Returned
<1> QED
  BY <1>2, MergeInitial, PTL DEF Spec

(* Parsing, merging and writing a response keep every variable's type, for  *)
(* any two bodies (merge.go:14-86).                                         *)
THEOREM MergeTypeCorrect == Spec => []TypeOK
<1>1. MergeInv => TypeOK
  BY DEF MergeInv
<1> QED
  BY <1>1, MergeInvariant, PTL

-----------------------------------------------------------------------------
(* A row of both segments together is a row of one of them.                 *)
LEMMA ConcatParts ==
  ASSUME NEW c \in Seq(Row), NEW l \in Seq(Row)
  PROVE  /\ \A j \in DOMAIN (c \o l) :
              \/ j \in DOMAIN c /\ (c \o l)[j] = c[j]
              \/ \E i \in DOMAIN l : (c \o l)[j] = l[i]
         /\ \A i \in DOMAIN c : \E j \in 1..Len(c \o l) : (c \o l)[j] = c[i]
         /\ \A i \in DOMAIN l : \E j \in 1..Len(c \o l) : (c \o l)[j] = l[i]
<1>1. /\ Len(c) \in Nat /\ Len(l) \in Nat
      /\ DOMAIN c = 1..Len(c) /\ DOMAIN l = 1..Len(l)
  OBVIOUS
<1>2. /\ c \o l \in Seq(Row) /\ Len(c \o l) = Len(c) + Len(l)
      /\ DOMAIN (c \o l) = 1..(Len(c) + Len(l))
      /\ \A i \in 1..(Len(c) + Len(l)) :
           (c \o l)[i] = IF i <= Len(c) THEN c[i] ELSE l[i - Len(c)]
  BY ConcatProperties
<1> DEFINE cl == c \o l
<1> HIDE DEF cl
<1>3. ASSUME NEW j \in 1..(Len(c) + Len(l)), ~(j <= Len(c))
      PROVE  \E i \in DOMAIN l : cl[j] = l[i]
  <2>1. j - Len(c) \in DOMAIN l /\ cl[j] = l[j - Len(c)]
    BY <1>1, <1>2, <1>3 DEF cl
  <2> QED
    BY <2>1
<1>4. ASSUME NEW i \in DOMAIN l
      PROVE  \E j \in 1..(Len(c) + Len(l)) : cl[j] = l[i]
  <2>1. /\ Len(c) + i \in 1..(Len(c) + Len(l)) /\ ~(Len(c) + i <= Len(c))
        /\ (Len(c) + i) - Len(c) = i
    BY <1>1
  <2>2. cl[Len(c) + i] = l[i]
    BY <1>2, <2>1 DEF cl
  <2> QED
    BY <2>1, <2>2
<1>5. \A i \in DOMAIN c : i \in 1..(Len(c) + Len(l)) /\ cl[i] = c[i]
  BY <1>1, <1>2 DEF cl
<1>6. \A j \in 1..(Len(c) + Len(l)) : j <= Len(c) => j \in DOMAIN c
  BY <1>1
<1> QED
  BY <1>2, <1>3, <1>4, <1>5, <1>6 DEF cl

LEMMA AllRowsParts ==
  ASSUME TypeOK
  PROVE  /\ \A j \in DOMAIN AllRows : \E s \in Side :
              \E i \in DOMAIN parsed[s].rows : AllRows[j] = parsed[s].rows[i]
         /\ \A s \in Side : \A i \in DOMAIN parsed[s].rows :
              \E j \in 1..Len(AllRows) : AllRows[j] = parsed[s].rows[i]
<1>1. parsed["cached"].rows \in Seq(Row) /\ parsed["live"].rows \in Seq(Row)
  BY ParsedFields DEF TypeOK, Side
<1> DEFINE c == parsed["cached"].rows
           l == parsed["live"].rows
<1>2. AllRows = c \o l /\ c \in Seq(Row) /\ l \in Seq(Row)
  BY <1>1 DEF AllRows
<1> HIDE DEF c, l
<1>3. /\ \A j \in DOMAIN (c \o l) :
           \/ j \in DOMAIN c /\ (c \o l)[j] = c[j]
           \/ \E i \in DOMAIN l : (c \o l)[j] = l[i]
      /\ \A i \in DOMAIN c : \E j \in 1..Len(c \o l) : (c \o l)[j] = c[i]
      /\ \A i \in DOMAIN l : \E j \in 1..Len(c \o l) : (c \o l)[j] = l[i]
  BY <1>2, ConcatParts
<1>4. \A j \in DOMAIN AllRows : \E s \in Side :
        \E i \in DOMAIN parsed[s].rows : AllRows[j] = parsed[s].rows[i]
  <2> SUFFICES ASSUME NEW j \in DOMAIN AllRows
               PROVE  \E s \in Side : \E i \in DOMAIN parsed[s].rows :
                        AllRows[j] = parsed[s].rows[i]
    OBVIOUS
  <2>1. \/ \E i \in DOMAIN c : AllRows[j] = c[i]
        \/ \E i \in DOMAIN l : AllRows[j] = l[i]
    BY <1>2, <1>3
  <2>2. "cached" \in Side /\ "live" \in Side
    BY DEF Side
  <2> QED
    BY <2>1, <2>2 DEF c, l
<1>5. \A s \in Side : \A i \in DOMAIN parsed[s].rows :
        \E j \in 1..Len(AllRows) : AllRows[j] = parsed[s].rows[i]
  BY <1>2, <1>3 DEF Side, c, l
<1> QED
  BY <1>4, <1>5

(* Once both loops have run, the parsed rows are the reference's rows.      *)
LEMMA ParsedRows ==
  ASSUME MergeInv, Merged, NEW s \in Side
  PROVE  /\ \A i \in DOMAIN parsed[s].rows :
              parsed[s].rows[i].raw \in Rows(Lines(body[s]))
         /\ \A r \in Rows(Lines(body[s])) :
              \E i \in DOMAIN parsed[s].rows : parsed[s].rows[i].raw = r
         /\ \A i \in DOMAIN parsed[s].rows :
              /\ parsed[s].header \in Headers(Lines(body[s]))
              /\ parsed[s].rows[i].time =
                   RowTime(parsed[s].rows[i].raw, TimeColumn(parsed[s].header))
<1> DEFINE b == Lines(body[s])
           n == Len(b)
           p == parsed[s]
<1>1. b \in Seq(Line) /\ n \in Nat /\ DOMAIN b = 1..n
  BY Sizes DEF MergeInv
<1>2. ParsedTo(b, n, p)
  BY DEF MergeInv, ParseInv, Consumed, Merged, Side
<1>3. /\ Rows(b) = {b[i] : i \in {j \in DOMAIN b : RowAt(b, j)}}
      /\ Headers(b) = {b[i] : i \in {j \in DOMAIN b : HeadAt(b, j)}}
  BY DEF Rows, Headers, RowAt, HeadAt
<1> HIDE DEF b, n, p
<1>4. \A i \in DOMAIN p.rows : p.rows[i].raw \in Rows(b)
  BY <1>1, <1>2, <1>3 DEF ParsedTo
<1>5. \A r \in Rows(b) : \E i \in DOMAIN p.rows : p.rows[i].raw = r
  BY <1>1, <1>2, <1>3 DEF ParsedTo
<1>6. ASSUME NEW i \in DOMAIN p.rows
      PROVE  /\ p.header \in Headers(b)
             /\ p.rows[i].time = RowTime(p.rows[i].raw, TimeColumn(p.header))
  <2>1. PICK j \in 1..n : IsText(b[j])
    BY <1>2, <1>6 DEF ParsedTo, RowAt
  <2>2. p.header # Empty
    BY <1>2, <2>1 DEF ParsedTo
  <2>3. p.header \in Headers(b)
    BY <1>1, <1>2, <1>3, <2>2 DEF ParsedTo
  <2> QED
    BY <1>2, <1>6, <2>3 DEF ParsedTo
<1> QED
  BY <1>4, <1>5, <1>6 DEF b, p

(* For any two responses the merge has every row of both once and no other  *)
(* (docs/query-rewrite-and-merge.md:24-25; merge.go:26-35).                 *)
THEOREM MergeKeepsRows == Spec => []RowsKept
<1>1. ASSUME MergeInv PROVE RowsKept
  <2> SUFFICES ASSUME Merged PROVE RowsKept
    BY DEF RowsKept
  <2> DEFINE C == Rows(Lines(body["cached"]))
             L == Rows(Lines(body["live"]))
  <2>1. Chosen(merged, AllRows, Len(AllRows)) /\ TypeOK
    BY <1>1 DEF MergeInv, RowsInv
  <2>2. DOMAIN AllRows = 1..Len(AllRows)
    BY <2>1, Sizes
  <2>3. ASSUME NEW i \in DOMAIN merged PROVE merged[i].raw \in C \cup L
    <3>1. PICK j \in DOMAIN AllRows : merged[i] = AllRows[j]
      BY <2>1, <2>2, <2>3 DEF Chosen
    <3>2. PICK s \in Side : \E x \in DOMAIN parsed[s].rows :
                              AllRows[j] = parsed[s].rows[x]
      BY <2>1, AllRowsParts
    <3>3. merged[i].raw \in Rows(Lines(body[s]))
      BY <1>1, <3>1, <3>2, ParsedRows
    <3> QED
      BY <3>3 DEF Side
  <2>4. ASSUME NEW r \in C \cup L PROVE \E i \in DOMAIN merged : merged[i].raw = r
    <3>1. PICK s \in Side : r \in Rows(Lines(body[s]))
      BY <2>4 DEF Side
    <3>2. PICK x \in DOMAIN parsed[s].rows : parsed[s].rows[x].raw = r
      BY <1>1, <3>1, ParsedRows
    <3>3. PICK j \in 1..Len(AllRows) : AllRows[j] = parsed[s].rows[x]
      BY <2>1, AllRowsParts
    <3> QED
      BY <2>1, <3>2, <3>3 DEF Chosen
  <2>5. ToSet(Raws(merged)) = {merged[i].raw : i \in DOMAIN merged}
    BY DEF ToSet, Raws
  <2>6. {merged[i].raw : i \in DOMAIN merged} = C \cup L
    <3> HIDE DEF C, L
    <3> QED
      BY <2>3, <2>4
  <2>7. \A i, j \in DOMAIN merged : merged[i].raw = merged[j].raw => i = j
    BY <2>1 DEF Chosen
  <2> QED
    BY <2>5, <2>6, <2>7 DEF RowsKept
<1> QED
  BY <1>1, MergeInvariant, PTL

(* For any two responses with one header, wherever its _time column is, the *)
(* rows come out in the order of that column                                *)
(* (docs/query-rewrite-and-merge.md:26; merge.go:37).                       *)
THEOREM MergeOrdersRows == Spec => []OrderedTable
<1>1. ASSUME MergeInv PROVE OrderedTable
  <2> SUFFICES ASSUME Merged, SameHeader,
                      NEW i \in DOMAIN merged, NEW j \in DOMAIN merged, i < j
               PROVE  TimeIn(merged[i].raw) <= TimeIn(merged[j].raw)
    BY DEF OrderedTable
  <2>1. /\ Chosen(merged, AllRows, Len(AllRows)) /\ TypeOK
        /\ SortedTo(merged, Len(merged))
    BY <1>1 DEF MergeInv, RowsInv
  <2>2. ASSUME NEW k \in DOMAIN merged
        PROVE  merged[k].time = TimeIn(merged[k].raw)
    <3>1. PICK x \in DOMAIN AllRows : merged[k] = AllRows[x]
      <4>1. DOMAIN AllRows = 1..Len(AllRows)
        BY <2>1, Sizes
      <4> QED
        BY <2>1, <2>2, <4>1 DEF Chosen
    <3>2. PICK s \in Side : \E y \in DOMAIN parsed[s].rows :
                              AllRows[x] = parsed[s].rows[y]
      BY <2>1, AllRowsParts
    <3> DEFINE h == parsed[s].header
    <3>3. /\ h \in Headers(Lines(body[s]))
          /\ merged[k].time = RowTime(merged[k].raw, TimeColumn(h))
      BY <1>1, <3>1, <3>2, ParsedRows
    <3>4. WithoutCR(h) = WithoutCR(Header)
      BY <3>3 DEF SameHeader
    <3>5. h \in Line /\ Header \in Line
      BY <2>1, Sizes, ParsedFields DEF TypeOK
    <3> HIDE DEF h
    <3>6. h.cells = Header.cells
      BY <3>4, <3>5, WithoutCRType
    <3>7. TimeColumn(h) = TimeColumn(Header)
      BY <3>6 DEF TimeColumn
    <3> QED
      BY <3>3, <3>7 DEF TimeIn
  <2>3. i \in 1..Len(merged)
    BY <2>1 DEF TypeOK
  <2>4. merged[i].time <= merged[j].time
    BY <2>1, <2>3 DEF SortedTo
  <2> QED
    BY <2>2, <2>4
<1> QED
  BY <1>1, MergeInvariant, PTL

-----------------------------------------------------------------------------
(* Reading the result back.                                                 *)
LEMMA ThreeParts ==
  ASSUME NEW M \in Seq(Line), NEW H \in Line, NEW R \in Seq(Line)
  PROVE  /\ M \o <<H>> \o R \in Seq(Line)
         /\ Len(M \o <<H>> \o R) = Len(M) + 1 + Len(R)
         /\ \A i \in 1..Len(M) : (M \o <<H>> \o R)[i] = M[i]
         /\ (M \o <<H>> \o R)[Len(M) + 1] = H
         /\ \A i \in 1..Len(R) : (M \o <<H>> \o R)[Len(M) + 1 + i] = R[i]
<1> DEFINE h == <<H>>
           a == M \o h
<1>1. h \in Seq(Line) /\ Len(h) = 1 /\ h[1] = H
  OBVIOUS
<1> HIDE DEF h
<1>2. Len(M) \in Nat /\ Len(R) \in Nat
  OBVIOUS
<1>3. /\ a \in Seq(Line) /\ Len(a) = Len(M) + 1
      /\ \A i \in 1..(Len(M) + 1) :
           a[i] = IF i <= Len(M) THEN M[i] ELSE h[i - Len(M)]
  BY <1>1, ConcatProperties
<1>4. (\A i \in 1..Len(M) : a[i] = M[i]) /\ a[Len(M) + 1] = H
  BY <1>1, <1>2, <1>3
<1> DEFINE o == a \o R
<1> HIDE DEF a
<1>5. /\ o \in Seq(Line) /\ Len(o) = Len(M) + 1 + Len(R)
      /\ \A i \in 1..(Len(a) + Len(R)) :
           o[i] = IF i <= Len(a) THEN a[i] ELSE R[i - Len(a)]
  <2>1. /\ o \in Seq(Line) /\ Len(o) = Len(a) + Len(R)
        /\ \A i \in 1..(Len(a) + Len(R)) :
             o[i] = IF i <= Len(a) THEN a[i] ELSE R[i - Len(a)]
    <3>1. a \in Seq(Line) /\ R \in Seq(Line)
      BY <1>3
    <3> QED
      BY <3>1, ConcatProperties
  <2> QED
    BY <1>3, <2>1
<1> HIDE DEF o
<1>6. (\A i \in 1..Len(M) : o[i] = M[i]) /\ o[Len(M) + 1] = H
  BY <1>2, <1>3, <1>4, <1>5
<1>7. ASSUME NEW i \in 1..Len(R) PROVE o[Len(M) + 1 + i] = R[i]
  <2>1. /\ Len(M) + 1 + i \in 1..(Len(a) + Len(R))
        /\ ~(Len(M) + 1 + i <= Len(a))
        /\ (Len(M) + 1 + i) - Len(a) = i
    BY <1>2, <1>3
  <2> QED
    BY <1>5, <2>1
<1>8. o = M \o <<H>> \o R
  BY DEF o, a, h
<1> QED
  BY <1>5, <1>6, <1>7, <1>8

LEMMA ReadBack ==
  ASSUME NEW M \in Seq(Line), \A i \in DOMAIN M : M[i].kind = "meta",
         NEW H \in Line, H.kind = "text",
         NEW R \in Seq(Line), \A i \in DOMAIN R : IsText(R[i])
  PROVE  /\ Text(Headers(Lines(M \o <<H>> \o R))) = Text({H})
         /\ Text(Rows(Lines(M \o <<H>> \o R))) = Text(ToSet(R))
<1> DEFINE o == M \o <<H>> \o R
           m == Len(M)
           r == Len(R)
<1>1. /\ o \in Seq(Line) /\ Len(o) = m + 1 + r
      /\ \A i \in 1..m : o[i] = M[i]
      /\ o[m + 1] = H
      /\ \A i \in 1..r : o[m + 1 + i] = R[i]
  BY ThreeParts
<1>2. m \in Nat /\ r \in Nat /\ DOMAIN M = 1..m /\ DOMAIN R = 1..r
  OBVIOUS
<1>3. \A i \in 1..r : R[i] \in Line
  BY ElementOfSeq
<1> DEFINE f == Min(Full(o))
           t == Max(Full(o))
           b == Lines(o)
<1>4. m + 1 \in Full(o)
  BY <1>1, <1>2 DEF Full
<1>5. 1 \in Full(o)
  <2>1. CASE m = 0
    BY <1>4, <2>1
  <2>2. CASE m >= 1
    BY <1>1, <1>2, <2>2 DEF Full
  <2> QED
    BY <1>2, <2>1, <2>2
<1> HIDE DEF o, m, r, f, t, b
<1>6. /\ f \in Full(o) /\ t \in Full(o)
      /\ \A i \in Full(o) : f <= i /\ i <= t
      /\ b \in Seq(Line) /\ Len(b) = t - f + 1
      /\ \A i \in 1..(t - f) : b[i] = o[f + i - 1]
      /\ b[t - f + 1] = WithoutCR(o[t])
  BY <1>1, <1>4, LinesShape DEF f, t, b
<1>7. Full(o) \in SUBSET (1..(m + 1 + r))
  BY <1>1, <1>2 DEF Full
<1>8. f = 1 /\ t \in (m + 1)..(m + 1 + r) /\ t \in Nat
  BY <1>2, <1>4, <1>5, <1>6, <1>7
<1>9. /\ Len(b) = t /\ DOMAIN b = 1..t
      /\ \A i \in 1..(t - 1) : b[i] = o[i]
      /\ b[t] = WithoutCR(o[t])
  BY <1>6, <1>8
<1>10. \A i \in 1..m : ~IsText(b[i])
  <2> SUFFICES ASSUME NEW i \in 1..m PROVE ~IsText(b[i])
    OBVIOUS
  <2>1. b[i] = M[i]
    BY <1>1, <1>2, <1>8, <1>9
  <2> QED
    BY <1>2, <2>1 DEF IsText
<1>11. ASSUME NEW l \in Line
       PROVE  /\ WithoutCR(l) \in Line /\ WithoutCR(WithoutCR(l)) = WithoutCR(l)
              /\ l.kind = "text" => IsText(l) /\ IsText(WithoutCR(l))
              /\ l.kind = "blank" => WithoutCR(l) = Empty
  <2>2. WithoutCR(l) = [kind |-> l.kind, cells |-> l.cells, cr |-> FALSE]
    BY WithoutCRShape
  <2>3. WithoutCR(WithoutCR(l)) = WithoutCR(l)
    BY <2>2, WithoutCRType, WithoutCRShape
  <2>4. l.kind = "text" => IsText(l) /\ IsText(WithoutCR(l))
    BY <2>2 DEF IsText, Empty
  <2>5. l.kind = "blank" => WithoutCR(l) = Empty
    BY <2>2, LineFields DEF Empty
  <2> QED
    BY <2>3, <2>4, <2>5, WithoutCRType
<1>12. \A i \in 1..t : WithoutCR(b[i]) = WithoutCR(o[i])
  <2>1. \A i \in 1..t : o[i] \in Line
    BY <1>1, <1>2, <1>8, ElementOfSeq
  <2>2. \A i \in 1..t : i = t \/ i \in 1..(t - 1)
    BY <1>8
  <2> QED
    BY <1>9, <1>11, <2>1, <2>2
<1>13. ASSUME NEW i \in (m + 1)..t PROVE IsText(b[i])
  <2>1. CASE i < t
    <3>1. b[i] = o[i]
      BY <1>2, <1>8, <1>9, <2>1
    <3>2. CASE i = m + 1
      BY <1>1, <1>11, <3>1, <3>2
    <3>3. CASE i # m + 1
      <4>1. i - (m + 1) \in 1..r /\ m + 1 + (i - (m + 1)) = i
        BY <1>2, <1>8, <3>3
      <4>2. o[i] = R[i - (m + 1)]
        BY <1>1, <4>1
      <4> QED
        BY <1>2, <3>1, <4>1, <4>2
    <3> QED
      BY <3>2, <3>3
  <2>2. CASE i = t
    <3>1. o[t].kind # "blank" /\ o[t] \in Line
      BY <1>1, <1>6, ElementOfSeq DEF Full
    <3>2. o[t].kind # "meta"
      <4>1. CASE t = m + 1
        BY <1>1, <4>1
      <4>2. CASE t # m + 1
        <5>1. t - (m + 1) \in 1..r /\ m + 1 + (t - (m + 1)) = t
          BY <1>2, <1>8, <4>2
        <5>2. o[t] = R[t - (m + 1)]
          BY <1>1, <5>1
        <5> QED
          BY <1>2, <5>1, <5>2 DEF IsText
      <4> QED
        BY <4>1, <4>2
    <3>3. o[t].kind = "text"
      BY <3>1, <3>2, LineFields DEF Kind
    <3> QED
      BY <1>9, <1>11, <2>2, <3>1, <3>3
  <2> QED
    BY <1>2, <1>8, <2>1, <2>2
<1>14. \A j \in 1..t : HeadAt(b, j) <=> j = m + 1
  <2>1. ASSUME NEW j \in 1..t, HeadAt(b, j) PROVE j = m + 1
    <3>1. IsText(b[j]) /\ \A k \in 1..(j - 1) : ~IsText(b[k])
      BY <2>1 DEF HeadAt
    <3>2. ~(j \in 1..m)
      BY <1>10, <3>1
    <3>3. ~(m + 1 \in 1..(j - 1))
      BY <1>2, <1>8, <1>13, <3>1
    <3> QED
      BY <1>2, <1>8, <3>2, <3>3
  <2>2. HeadAt(b, m + 1)
    BY <1>2, <1>8, <1>10, <1>13 DEF HeadAt
  <2> QED
    BY <2>1, <2>2
<1>15. \A j \in 1..t : RowAt(b, j) <=> j \in (m + 2)..t
  <2>1. ASSUME NEW j \in 1..t, RowAt(b, j) PROVE j \in (m + 2)..t
    <3>1. PICK k \in 1..(j - 1) : IsText(b[k])
      BY <2>1 DEF RowAt
    <3>2. ~(k \in 1..m)
      BY <1>10, <3>1
    <3> QED
      BY <1>2, <1>8, <3>1, <3>2
  <2>2. ASSUME NEW j \in (m + 2)..t PROVE RowAt(b, j)
    <3>1. m + 1 \in 1..(j - 1) /\ m + 1 \in (m + 1)..t /\ j \in (m + 1)..t
      BY <1>2, <1>8
    <3> QED
      BY <1>13, <3>1 DEF RowAt
  <2> QED
    BY <2>1, <2>2
<1>16. Text(Headers(b)) = Text({H})
  <2>1. Headers(b) = {b[i] : i \in {j \in DOMAIN b : HeadAt(b, j)}}
    BY DEF Headers, HeadAt
  <2>2. {j \in DOMAIN b : HeadAt(b, j)} = {m + 1}
    BY <1>2, <1>8, <1>9, <1>14
  <2>3. Headers(b) = {b[m + 1]}
    BY <2>1, <2>2
  <2>4. WithoutCR(b[m + 1]) = WithoutCR(H)
    BY <1>1, <1>2, <1>8, <1>12
  <2> QED
    BY <2>3, <2>4 DEF Text
<1>17. Text(Rows(b)) = Text(ToSet(R))
  <2>1. Rows(b) = {b[i] : i \in {j \in DOMAIN b : RowAt(b, j)}}
    BY DEF Rows, RowAt
  <2>2. Rows(b) = {b[i] : i \in (m + 2)..t}
    <3>1. {j \in DOMAIN b : RowAt(b, j)} = (m + 2)..t
      BY <1>2, <1>8, <1>9, <1>15
    <3> QED
      BY <2>1, <3>1
  <2>3. ToSet(R) = {R[i] : i \in 1..r}
    BY <1>2 DEF ToSet
  <2>4. ASSUME NEW j \in (m + 2)..t
        PROVE  \E i \in 1..r : WithoutCR(b[j]) = WithoutCR(R[i])
    <3>1. j - (m + 1) \in 1..r /\ m + 1 + (j - (m + 1)) = j /\ j \in 1..t
      BY <1>2, <1>8
    <3>2. o[j] = R[j - (m + 1)]
      BY <1>1, <3>1
    <3> QED
      BY <1>12, <3>1, <3>2
  <2>5. ASSUME NEW i \in 1..r, WithoutCR(R[i]) # Empty
        PROVE  \E j \in (m + 2)..t : WithoutCR(b[j]) = WithoutCR(R[i])
    <3> DEFINE j == m + 1 + i
    <3>1. R[i].kind # "blank"
      BY <1>3, <1>11, <2>5
    <3>2. j \in Full(o)
      BY <1>1, <1>2, <3>1 DEF Full
    <3>3. j \in (m + 2)..t /\ j \in 1..t
      BY <1>2, <1>6, <1>8, <3>2
    <3>4. WithoutCR(b[j]) = WithoutCR(R[i])
      BY <1>1, <1>12, <3>3
    <3> QED
      BY <3>3, <3>4
  <2> QED
    BY <2>2, <2>3, <2>4, <2>5 DEF Text
<1> QED
  BY <1>16, <1>17 DEF b, o

(* For any two responses, a client that parses the merged body as the       *)
(* gateway does finds the header and the merged rows (merge.go:39-45).      *)
THEOREM MergeReadsBack == Spec => []ReadsBack
<1>1. ASSUME MergeInv PROVE ReadsBack
  <2> SUFFICES ASSUME Merged, Header.kind = "text" PROVE ReadsBack
    BY DEF ReadsBack
  <2> DEFINE M == parsed["cached"].meta
             R == Raws(merged)
  <2>1. /\ Chosen(merged, AllRows, Len(AllRows)) /\ TypeOK
        /\ out = M \o <<Header>> \o R
    BY <1>1 DEF MergeInv, RowsInv, Output
  <2>2. M \in Seq(Line) /\ \A i \in DOMAIN M : M[i].kind = "meta"
    BY <1>1, ParsedFields DEF MergeInv, TypeOK, ParseInv, ParsedTo, Side
  <2>3. /\ R \in Seq(Line) /\ DOMAIN R = DOMAIN merged
        /\ \A i \in DOMAIN merged : R[i] = merged[i].raw
    BY <2>1, RawsType DEF TypeOK
  <2>4. ASSUME NEW i \in DOMAIN merged PROVE IsText(merged[i].raw)
    <3>1. PICK x \in DOMAIN AllRows : merged[i] = AllRows[x]
      <4>1. DOMAIN AllRows = 1..Len(AllRows)
        BY <2>1, Sizes
      <4> QED
        BY <2>1, <2>4, <4>1 DEF Chosen
    <3>2. PICK s \in Side : \E y \in DOMAIN parsed[s].rows :
                              AllRows[x] = parsed[s].rows[y]
      BY <2>1, AllRowsParts
    <3>3. merged[i].raw \in Rows(Lines(body[s]))
      BY <1>1, <3>1, <3>2, ParsedRows
    <3> QED
      BY <3>3 DEF Rows
  <2>5. Header \in Line
    BY <2>1, Sizes
  <2> HIDE DEF M, R
  <2>6. /\ Text(Headers(Lines(out))) = Text({Header})
        /\ Text(Rows(Lines(out))) = Text(ToSet(R))
    <3> DEFINE H == Header
    <3>1. H \in Line /\ H.kind = "text" /\ \A i \in DOMAIN R : IsText(R[i])
      BY <2>3, <2>4, <2>5
    <3>2. out = M \o <<H>> \o R
      BY <2>1
    <3> HIDE DEF H
    <3>3. /\ Text(Headers(Lines(out))) = Text({H})
          /\ Text(Rows(Lines(out))) = Text(ToSet(R))
      BY <2>2, <2>3, <3>1, <3>2, ReadBack
    <3> QED
      BY <3>3 DEF H
  <2> QED
    BY <2>6 DEF ReadsBack, R
<1> QED
  BY <1>1, MergeInvariant, PTL
=============================================================================
