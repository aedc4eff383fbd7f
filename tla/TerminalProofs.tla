--------------------------- MODULE TerminalProofs ---------------------------
(***************************************************************************)
(* Proofs about Terminal: the shape of the screen, whole characters, the   *)
(* marks a renderer goes by, the retired screen and the content revision   *)
(* are invariants for every size, scrollback cap and input.                *)
(*                                                                         *)
(* Every control function is an edit (Draws) or a swap of screens, and     *)
(* each edit comes down to edits of a buffer (Onto): the buffer keeps its  *)
(* shape, its tally of writes grows with its text (Later) and every cell   *)
(* that changes is marked (Dirties).  These relations compose, so a        *)
(* control function is followed call by call.                              *)
(***************************************************************************)
EXTENDS Terminal, SequenceTheorems, FiniteSetTheorems, WellFoundedInduction, TLAPS

(***************************************************************************)
(* Cells                                                                   *)
(***************************************************************************)

\* The kinds of cells.
LEMMA CellKinds ==
  /\ Blank \in Cells /\ Tail2 \in Cells /\ Wide \subseteq Cells /\ Narrow \subseteq Cells
  /\ Blank \notin Wide /\ Tail2 \notin Wide /\ Blank # Tail2 /\ "E" \in Cells
  /\ \A c \in Narrow \cup {"E"} : c \notin Wide /\ c # Tail2
BY DEF Blank, Tail2, Narrow, Wide, Cells

\* A blank row has no halves.
LEMMA NewRowType ==
  ASSUME NEW cols \in Nat \ {0}
  PROVE  NewRow(cols) \in Lines(cols)
BY CellKinds DEF NewRow, RowOf, Lines, CellRows, Paired

\* A row of one narrow kind has no halves.
LEMMA FilledType ==
  ASSUME NEW cols \in Nat \ {0}, NEW c \in {Blank, "E"}
  PROVE  RowOf([k \in 0 .. cols - 1 |-> c]) \in Lines(cols)
BY CellKinds DEF RowOf, Lines, CellRows, Paired

\* clear_wide_pair_around leaves no half, and touches the cell and its
\* neighbours only.
LEMMA ClearPairType ==
  ASSUME NEW cols \in Nat \ {0}, NEW cells \in CellRows(cols), NEW col \in 0 .. cols - 1
  PROVE  LET new == ClearPair(cells, col) IN
         /\ new \in CellRows(cols)
         /\ new[col] \notin Wide /\ new[col] # Tail2
         /\ \A i \in 0 .. cols - 1 : i \notin col - 1 .. col + 1 => new[i] = cells[i]
<1> DEFINE new == ClearPair(cells, col)
           Gone(i) ==
             \/ i = col /\ cells[col] \in Wide \cup {Tail2}
             \/ i = col - 1 /\ cells[col] = Tail2 /\ cells[i] \in Wide
             \/ i = col + 1 /\ cells[col] \in Wide /\ cells[i] = Tail2
<1>1. cells \in [0 .. cols - 1 -> Cells] /\ Paired(cells)
  BY DEF CellRows
<1>2. new = [i \in 0 .. cols - 1 |-> IF Gone(i) THEN Blank ELSE cells[i]]
  BY <1>1 DEF ClearPair
<1> HIDE DEF new
<1>3. new \in [0 .. cols - 1 -> Cells]
  BY <1>1, <1>2, CellKinds
<1>4. Paired(new)
  BY <1>1, <1>2, CellKinds DEF Paired
<1>5. \A i \in 0 .. cols - 1 : i \notin col - 1 .. col + 1 => new[i] = cells[i]
  BY <1>1, <1>2
<1>6. new[col] \notin Wide /\ new[col] # Tail2
  BY <1>1, <1>2, CellKinds
<1> QED BY <1>3, <1>4, <1>5, <1>6 DEF CellRows, new

\* sanitize_wide_pairs leaves no half, and only blanks cells.
LEMMA SanitizeType ==
  ASSUME NEW cols \in Nat \ {0}, NEW cells \in [0 .. cols - 1 -> Cells]
  PROVE  LET new == Sanitize(cells) IN
         /\ new \in CellRows(cols)
         /\ \A i \in 0 .. cols - 1 :
              \/ new[i] = cells[i]
              \/ cells[i] \in Wide /\ ~(i + 1 \in 0 .. cols - 1 /\ cells[i + 1] = Tail2)
              \/ cells[i] = Tail2 /\ ~(i - 1 \in 0 .. cols - 1 /\ cells[i - 1] \in Wide)
<1> DEFINE new == Sanitize(cells)
<1>2. new = [i \in 0 .. cols - 1 |->
    IF \/ cells[i] \in Wide /\ ~(i + 1 \in 0 .. cols - 1 /\ cells[i + 1] = Tail2)
       \/ cells[i] = Tail2 /\ ~(i - 1 \in 0 .. cols - 1 /\ cells[i - 1] \in Wide)
    THEN Blank ELSE cells[i]]
  BY DEF Sanitize
<1> HIDE DEF new
<1>3. new \in [0 .. cols - 1 -> Cells]
  BY <1>2, CellKinds
<1>4. Paired(new)
  BY <1>2, CellKinds DEF Paired
<1> QED BY <1>2, <1>3, <1>4 DEF CellRows, new

(***************************************************************************)
(* Buffers                                                                 *)
(***************************************************************************)

\* A later state of a buffer: the tally grows, and stands still only while
\* the lines do; what was dirty is, and so is every cell that differs.
Later(g, h) == h.writes >= g.writes /\ (h.writes = g.writes => h.raw = g.raw)

Dirties(g, h) ==
  /\ g.dirty.all => h.dirty.all
  /\ \A r \in 0 .. g.rows - 1 : \A c \in 0 .. g.cols - 1 :
       IsDirtyCell(g, r, c) \/ VisibleRow(h, r).cells[c] # VisibleRow(g, r).cells[c]
         => IsDirtyCell(h, r, c)

Onto(g, h, rows, cols) == h \in Buffers(rows, cols) /\ h.cap = g.cap /\ Later(g, h) /\ Dirties(g, h)

\* The fields of a buffer.
LEMMA BufferParts ==
  ASSUME NEW rows \in Nat \ {0}, NEW cols \in Nat \ {0}, NEW g \in Buffers(rows, cols)
  PROVE  /\ g.raw \in Seq(Lines(cols)) /\ Len(g.raw) \in Nat /\ Len(g.raw) >= rows
         /\ g.rows = rows /\ g.cols = cols /\ g.cap \in Nat
         /\ g.dirty \in Dirt(rows) /\ g.writes \in Nat /\ g.evicted \in Nat
         /\ Scrollback(g) = Len(g.raw) - rows /\ Scrollback(g) \in Nat
<1>1. /\ g.raw \in Seq(Lines(cols)) /\ Len(g.raw) \in Nat /\ Len(g.raw) >= rows
      /\ g.rows = rows /\ g.cols = cols /\ g.cap \in Nat
      /\ g.dirty \in Dirt(rows) /\ g.writes \in Nat /\ g.evicted \in Nat
  BY DEF Buffers
<1>2. Scrollback(g) = Len(g.raw) - rows
  BY <1>1 DEF Scrollback, Less, MaxOf
<1> QED BY <1>1, <1>2

\* The size of a buffer, in the form the provers use best.
LEMMA BufferSize ==
  \A rows \in Nat \ {0}, cols \in Nat \ {0} : \A g \in Buffers(rows, cols) : g.rows = rows /\ g.cols = cols
BY BufferParts

\* The marks of a buffer.
LEMMA DirtParts ==
  ASSUME NEW rows \in Nat \ {0}, NEW cols \in Nat \ {0}, NEW g \in Buffers(rows, cols)
  PROVE  /\ g.dirty \in Dirt(rows) /\ g.dirty.all \in BOOLEAN
         /\ g.dirty.span \in [0 .. rows - 1 -> Nat \X Nat]
         /\ g.rows = rows /\ g.cols = cols
<1>1. g.dirty \in Dirt(rows) /\ g.rows = rows /\ g.cols = cols
  BY BufferParts
<1> QED BY <1>1 DEF Dirt

\* The lines on the screen.
LEMMA VisibleRowType ==
  ASSUME NEW rows \in Nat \ {0}, NEW cols \in Nat \ {0}, NEW g \in Buffers(rows, cols),
         NEW r \in 0 .. rows - 1
  PROVE  /\ Scrollback(g) + r + 1 \in 1 .. Len(g.raw)
         /\ VisibleRow(g, r) = g.raw[Scrollback(g) + r + 1]
         /\ VisibleRow(g, r) \in Lines(cols)
         /\ VisibleRow(g, r).cells \in CellRows(cols)
         /\ VisibleRow(g, r).cells \in [0 .. cols - 1 -> Cells]
<1>1. Scrollback(g) + r + 1 \in 1 .. Len(g.raw) /\ g.raw \in Seq(Lines(cols))
  BY BufferParts
<1>2. g.raw[Scrollback(g) + r + 1] \in Lines(cols)
  BY <1>1, ElementOfSeq
<1> QED BY <1>1, <1>2 DEF VisibleRow, Lines, CellRows

\* An edit that changes nothing is one.
LEMMA OntoSelf ==
  ASSUME NEW rows \in Nat \ {0}, NEW cols \in Nat \ {0}, NEW g \in Buffers(rows, cols)
  PROVE  Onto(g, g, rows, cols)
BY BufferParts DEF Onto, Later, Dirties

\* Edits of a buffer compose.
LEMMA OntoThen ==
  ASSUME NEW rows \in Nat \ {0}, NEW cols \in Nat \ {0}, NEW g \in Buffers(rows, cols),
         NEW h, Onto(g, h, rows, cols), NEW k, Onto(h, k, rows, cols)
  PROVE  Onto(g, k, rows, cols)
<1>1. h \in Buffers(rows, cols) /\ k \in Buffers(rows, cols) /\ k.cap = g.cap
  BY DEF Onto
<1>2. Later(g, k)
  BY SMTT(30), <1>1, BufferParts DEF Onto, Later
<1>3. Dirties(g, k)
  <2>1. g.rows = rows /\ h.rows = rows /\ g.cols = cols /\ h.cols = cols
    BY <1>1, BufferParts
  <2> QED BY <2>1 DEF Onto, Dirties
<1> QED BY <1>1, <1>2, <1>3 DEF Onto

\* A buffer with other lines.
LEMMA Relined ==
  ASSUME NEW rows \in Nat \ {0}, NEW cols \in Nat \ {0}, NEW g \in Buffers(rows, cols),
         NEW n \in Nat, NEW raw \in Seq(Lines(cols)), Len(raw) >= rows
  PROVE  LET h == [Wrote(g, n) EXCEPT !.raw = raw] IN
         /\ h \in Buffers(rows, cols)
         /\ h.raw = raw /\ h.dirty = g.dirty /\ h.writes = g.writes + n /\ h.cap = g.cap
         /\ h.rows = rows /\ h.cols = cols /\ h.evicted = g.evicted
<1> DEFINE w == g.writes + n
           h == [g EXCEPT !.writes = w, !.raw = raw]
<1>1. w \in Nat
  BY BufferParts
<1>2. [Wrote(g, n) EXCEPT !.raw = raw] = h
  BY DEF Wrote, Buffers
<1> HIDE DEF w
<1>3. /\ h \in Buffers(rows, cols)
      /\ h.raw = raw /\ h.dirty = g.dirty /\ h.writes = w /\ h.cap = g.cap
      /\ h.rows = rows /\ h.cols = cols /\ h.evicted = g.evicted
  BY <1>1 DEF Buffers
<1> HIDE DEF h
<1> QED BY <1>2, <1>3 DEF w

\* mark_all
LEMMA MarkAllStep ==
  ASSUME NEW rows \in Nat \ {0}, NEW cols \in Nat \ {0}, NEW g \in Buffers(rows, cols)
  PROVE  LET h == MarkAll(g) IN
         /\ h \in Buffers(rows, cols) /\ h.dirty.all
         /\ h.raw = g.raw /\ h.writes = g.writes /\ h.cap = g.cap /\ h.evicted = g.evicted
         /\ h.rows = rows /\ h.cols = cols
         /\ Onto(g, h, rows, cols)
<1> DEFINE h == MarkAll(g)
<1>1. /\ h \in Buffers(rows, cols) /\ h.dirty.all
      /\ h.raw = g.raw /\ h.writes = g.writes /\ h.cap = g.cap /\ h.evicted = g.evicted
      /\ h.rows = rows /\ h.cols = cols
  BY DEF MarkAll, Buffers, Dirt
<1> HIDE DEF h
<1>2. Dirties(g, h)
  BY <1>1 DEF Dirties, IsDirtyCell
<1>3. Later(g, h)
  BY <1>1, BufferParts DEF Later
<1> QED BY <1>1, <1>2, <1>3 DEF Onto, h

\* mark_rows marks whole rows and clears no mark.
LEMMA MarkRowsStep ==
  ASSUME NEW rows \in Nat \ {0}, NEW cols \in Nat \ {0}, NEW g \in Buffers(rows, cols),
         NEW first \in Int, NEW end \in Int
  PROVE  LET h == MarkRows(g, first, end) IN
         /\ h \in Buffers(rows, cols)
         /\ h.raw = g.raw /\ h.writes = g.writes /\ h.cap = g.cap /\ h.evicted = g.evicted
         /\ h.rows = rows /\ h.cols = cols
         /\ \A r \in 0 .. rows - 1 : \A c \in 0 .. cols - 1 :
              IsDirtyCell(g, r, c) \/ r \in first .. end - 1 => IsDirtyCell(h, r, c)
<1> DEFINE h == MarkRows(g, first, end)
           span == [r \in 0 .. rows - 1 |-> IF r \in first .. end - 1 THEN <<0, cols>> ELSE g.dirty.span[r]]
<1>1. g.cols = cols /\ g.dirty \in Dirt(rows) /\ g.dirty.all \in BOOLEAN
      /\ g.dirty.span \in [0 .. rows - 1 -> Nat \X Nat]
  BY DirtParts
<1>2. CASE g.dirty.all
  <2>1. h = g
    BY <1>2 DEF MarkRows
  <2> HIDE DEF h
  <2> QED BY <1>2, <2>1, BufferParts DEF IsDirtyCell, h
<1>3. CASE ~g.dirty.all
  <2>1. span \in [0 .. rows - 1 -> Nat \X Nat]
    BY <1>1
  <2>2. h = [g EXCEPT !.dirty = [g.dirty EXCEPT !.span = span]]
    BY <1>1, <1>3 DEF MarkRows
  <2>3. [g.dirty EXCEPT !.span = span] \in Dirt(rows) /\ [g.dirty EXCEPT !.span = span].span = span
    <3> HIDE DEF span
    <3> QED BY <1>1, <2>1 DEF Dirt
  <2>4. h \in Buffers(rows, cols) /\ h.dirty.span = span /\ h.raw = g.raw /\ h.writes = g.writes
        /\ h.cap = g.cap /\ h.evicted = g.evicted /\ h.rows = rows /\ h.cols = cols
    <3> HIDE DEF span, h
    <3> QED BY <2>2, <2>3 DEF Buffers
  <2>5. ASSUME NEW r \in 0 .. rows - 1, NEW c \in 0 .. cols - 1,
               IsDirtyCell(g, r, c) \/ r \in first .. end - 1
        PROVE  IsDirtyCell(h, r, c)
    <3>1. CASE r \in first .. end - 1
      <4>1. h.dirty.span[r] = <<0, cols>>
        <5> HIDE DEF h
        <5> QED BY <2>4, <3>1
      <4> HIDE DEF h
      <4> QED BY <4>1 DEF IsDirtyCell
    <3>2. CASE r \notin first .. end - 1
      <4>1. h.dirty.span[r] = g.dirty.span[r]
        <5> HIDE DEF h
        <5> QED BY <2>4, <3>2
      <4> HIDE DEF h
      <4> QED BY <1>3, <2>5, <3>2, <4>1 DEF IsDirtyCell
    <3> QED BY <3>1, <3>2
  <2> HIDE DEF h
  <2> QED BY <2>4, <2>5 DEF h
<1> QED BY <1>2, <1>3

\* mark_range marks a part of a row and clears no mark.
LEMMA MarkRangeStep ==
  ASSUME NEW rows \in Nat \ {0}, NEW cols \in Nat \ {0}, NEW g \in Buffers(rows, cols),
         NEW row \in 0 .. rows - 1, NEW lo \in Nat, NEW hi \in Nat
  PROVE  LET h == MarkRange(g, row, lo, hi) IN
         /\ h \in Buffers(rows, cols)
         /\ h.raw = g.raw /\ h.writes = g.writes /\ h.cap = g.cap /\ h.evicted = g.evicted
         /\ h.rows = rows /\ h.cols = cols
         /\ \A r \in 0 .. rows - 1 : \A c \in 0 .. cols - 1 :
              IsDirtyCell(g, r, c) \/ (r = row /\ c \in lo .. hi - 1) => IsDirtyCell(h, r, c)
<1>0. /\ g.dirty \in Dirt(rows) /\ g.dirty.all \in BOOLEAN
      /\ g.dirty.span \in [0 .. rows - 1 -> Nat \X Nat]
      /\ g.rows = rows /\ g.cols = cols
  <2>1. g.dirty \in Dirt(rows) /\ g.rows = rows /\ g.cols = cols
    BY BufferParts
  <2> QED BY <2>1 DEF Dirt
<1> DEFINE h == MarkRange(g, row, lo, hi)
           a == MinOf(lo, cols)
           b == MinOf(hi, cols)
           s == g.dirty.span[row]
           t == IF s[1] = s[2] THEN <<a, b>> ELSE <<MinOf(s[1], a), MaxOf(s[2], b)>>
           span == [g.dirty.span EXCEPT ![row] = t]
<1>1. g.cols = cols /\ g.rows = rows /\ g.dirty \in Dirt(rows) /\ g.dirty.all \in BOOLEAN
      /\ g.dirty.span \in [0 .. rows - 1 -> Nat \X Nat] /\ s \in Nat \X Nat
      /\ a \in Nat /\ b \in Nat /\ a <= lo /\ b <= hi /\ a <= cols /\ b <= cols
      /\ (lo < cols => a = lo) /\ (hi <= cols => b = hi) /\ (hi > cols => b = cols)
  <2>1. /\ a \in Nat /\ b \in Nat /\ a <= lo /\ b <= hi /\ a <= cols /\ b <= cols
        /\ (lo < cols => a = lo) /\ (hi <= cols => b = hi) /\ (hi > cols => b = cols)
    BY DEF MinOf
  <2>2. s \in Nat \X Nat
    BY <1>0
  <2> HIDE DEF a, b, s
  <2> QED BY <1>0, <2>1, <2>2
<1>2. CASE g.dirty.all \/ a >= b
  <2>1. h = g
    BY <1>1, <1>2 DEF MarkRange
  <2>2. ASSUME NEW c \in 0 .. cols - 1, c \in lo .. hi - 1 PROVE g.dirty.all
    <3> HIDE DEF a, b
    <3> QED BY <1>1, <1>2, <2>2
  <2>3. ASSUME NEW r \in 0 .. rows - 1, NEW c \in 0 .. cols - 1,
               IsDirtyCell(g, r, c) \/ (r = row /\ c \in lo .. hi - 1)
        PROVE  IsDirtyCell(g, r, c)
    BY <2>2, <2>3 DEF IsDirtyCell
  <2>4. /\ g \in Buffers(rows, cols) /\ g.rows = rows /\ g.cols = cols
    BY <1>0
  <2> HIDE DEF h
  <2> QED BY <2>1, <2>3, <2>4 DEF h
<1>3. CASE ~g.dirty.all /\ a < b
  <2>1. t \in Nat \X Nat
    BY <1>1 DEF MinOf, MaxOf
  <2>2. h = [g EXCEPT !.dirty = [g.dirty EXCEPT !.span = span]]
    BY <1>1, <1>3 DEF MarkRange
  <2>3. /\ span \in [0 .. rows - 1 -> Nat \X Nat] /\ span[row] = t
        /\ \A r \in 0 .. rows - 1 : r # row => span[r] = g.dirty.span[r]
    <3> HIDE DEF t
    <3> QED BY <1>1, <2>1
  <2>4. [g.dirty EXCEPT !.span = span] \in Dirt(rows) /\ [g.dirty EXCEPT !.span = span].span = span
    <3> HIDE DEF span
    <3> QED BY <1>1, <2>3 DEF Dirt
  <2>5. h \in Buffers(rows, cols) /\ h.dirty.span = span /\ h.raw = g.raw /\ h.writes = g.writes
        /\ h.cap = g.cap /\ h.evicted = g.evicted /\ h.rows = rows /\ h.cols = cols
    <3> HIDE DEF span, h
    <3> QED BY <2>2, <2>4 DEF Buffers
  <2>6. ASSUME NEW r \in 0 .. rows - 1, NEW c \in 0 .. cols - 1,
               IsDirtyCell(g, r, c) \/ (r = row /\ c \in lo .. hi - 1)
        PROVE  IsDirtyCell(h, r, c)
    <3>1. CASE r = row
      <4>1. t[1] <= c /\ c < t[2]
        <5>1. (s[1] <= c /\ c < s[2]) \/ c \in lo .. hi - 1
          BY <1>3, <2>6, <3>1 DEF IsDirtyCell
        <5> HIDE DEF s
        <5>2. PICK x \in Nat, y \in Nat : s[1] = x /\ s[2] = y
          BY <1>1
        <5>3. CASE x = y
          <6>1. t = <<a, b>> /\ c \in lo .. hi - 1
            BY <5>1, <5>2, <5>3
          <6> HIDE DEF a, b, t
          <6> QED BY <1>1, <6>1
        <5>4. CASE x # y
          <6>1. t[1] = MinOf(x, a) /\ t[2] = MaxOf(y, b)
            BY <5>2, <5>4
          <6> HIDE DEF a, b, t
          <6> QED BY <1>1, <5>1, <5>2, <6>1 DEF MinOf, MaxOf
        <5> QED BY <5>3, <5>4
      <4>2. h.dirty.span[r] = t
        <5> HIDE DEF h, t, span
        <5> QED BY <2>3, <2>5, <3>1
      <4> HIDE DEF h, t
      <4> QED BY <4>1, <4>2 DEF IsDirtyCell
    <3>2. CASE r # row
      <4>1. h.dirty.span[r] = g.dirty.span[r]
        <5> HIDE DEF h, span
        <5> QED BY <2>3, <2>5, <3>2
      <4> HIDE DEF h
      <4> QED BY <1>3, <2>6, <3>2, <4>1 DEF IsDirtyCell
    <3> QED BY <3>1, <3>2
  <2> HIDE DEF h
  <2> QED BY <2>5, <2>6 DEF h
<1>4. a >= b \/ a < b
  <2> HIDE DEF a, b
  <2> QED BY <1>1
<1> QED BY <1>1, <1>2, <1>3, <1>4

(***************************************************************************)
(* Sequences                                                               *)
(***************************************************************************)

\* A part of a sequence.
LEMMA PartType ==
  ASSUME NEW S, NEW s \in Seq(S), NEW m \in Nat \ {0}, NEW n \in Nat, n <= Len(s)
  PROVE  /\ SubSeq(s, m, n) \in Seq(S)
         /\ Len(SubSeq(s, m, n)) = IF m <= n THEN n - m + 1 ELSE 0
         /\ \A i \in 1 .. n - m + 1 : SubSeq(s, m, n)[i] = s[m + i - 1]
<1>1. \A i \in m .. n : s[i] \in S
  <2>1. \A i \in m .. n : i \in 1 .. Len(s)
    OBVIOUS
  <2> QED BY <2>1, ElementOfSeq
<1> QED BY <1>1, SubSeqProperties

\* A sequence of one element, repeated.
LEMMA RepeatType ==
  ASSUME NEW S, NEW n \in Nat, NEW e \in S
  PROVE  /\ [i \in 1 .. n |-> e] \in Seq(S) /\ Len([i \in 1 .. n |-> e]) = n
         /\ \A i \in 1 .. n : [j \in 1 .. n |-> e][i] = e
<1>1. [i \in 1 .. n |-> e] \in [1 .. n -> S]
  OBVIOUS
<1>2. [i \in 1 .. n |-> e] \in Seq(S)
  BY <1>1, SeqDef
<1> QED BY <1>1, <1>2, LenProperties

\* A sequence mapped place by place.
LEMMA MappedType ==
  ASSUME NEW S, NEW n \in Nat, NEW f \in [1 .. n -> S]
  PROVE  f \in Seq(S) /\ Len(f) = n
<1>1. f \in Seq(S)
  BY SeqDef
<1> QED BY <1>1, LenProperties

\* Two pieces put in the place of a part as long as they are.
Splice(s, u, v, a, b) == SubSeq(s, 1, a) \o u \o v \o SubSeq(s, b + 1, Len(s))

\* A splice keeps the length, and what is outside the range it replaces.
LEMMA Spliced ==
  ASSUME NEW S, NEW s \in Seq(S), NEW u \in Seq(S), NEW v \in Seq(S),
         NEW a \in Nat, NEW b \in Nat, a <= b, b <= Len(s), Len(u) + Len(v) = b - a
  PROVE  /\ Splice(s, u, v, a, b) \in Seq(S) /\ Len(Splice(s, u, v, a, b)) = Len(s)
         /\ \A i \in 1 .. Len(s) : i <= a \/ i > b => Splice(s, u, v, a, b)[i] = s[i]
<1> DEFINE p == SubSeq(s, 1, a)
           q == SubSeq(s, b + 1, Len(s))
           x1 == p \o u
           x2 == x1 \o v
           x == x2 \o q
<1>1. p \in Seq(S) /\ Len(p) = a /\ \A i \in 1 .. a : p[i] = s[i]
  <2>1. a \in Nat /\ a <= Len(s)
    OBVIOUS
  <2>2. /\ p \in Seq(S) /\ Len(p) = IF 1 <= a THEN a - 1 + 1 ELSE 0
        /\ \A i \in 1 .. a - 1 + 1 : p[i] = s[1 + i - 1]
    BY <2>1, PartType
  <2> HIDE DEF p
  <2> QED BY <2>2
<1>2. q \in Seq(S) /\ Len(q) = Len(s) - b /\ \A i \in 1 .. Len(s) - b : q[i] = s[b + i]
  <2>1. Len(s) \in Nat /\ Len(s) <= Len(s) /\ b + 1 \in Nat \ {0}
    OBVIOUS
  <2>2. /\ q \in Seq(S) /\ Len(q) = IF b + 1 <= Len(s) THEN Len(s) - (b + 1) + 1 ELSE 0
        /\ \A i \in 1 .. Len(s) - (b + 1) + 1 : q[i] = s[b + 1 + i - 1]
    BY <2>1, PartType
  <2> HIDE DEF q
  <2> QED BY <2>1, <2>2
<1> HIDE DEF p, q
<1>3. /\ x1 \in Seq(S) /\ Len(x1) = a + Len(u)
      /\ \A i \in 1 .. a + Len(u) : x1[i] = IF i <= a THEN p[i] ELSE u[i - a]
  <2>1. p \in Seq(S) /\ Len(p) = a
    BY <1>1
  <2>2. /\ x1 \in Seq(S) /\ Len(x1) = Len(p) + Len(u)
        /\ \A i \in 1 .. Len(p) + Len(u) : x1[i] = IF i <= Len(p) THEN p[i] ELSE u[i - Len(p)]
    BY <2>1, ConcatProperties
  <2> QED BY <2>1, <2>2
<1> HIDE DEF x1
<1>4. /\ x2 \in Seq(S) /\ Len(x2) = Len(x1) + Len(v)
      /\ \A i \in 1 .. Len(x1) + Len(v) : x2[i] = IF i <= Len(x1) THEN x1[i] ELSE v[i - Len(x1)]
  BY <1>3, ConcatProperties
<1>5. Len(u) \in Nat /\ Len(v) \in Nat /\ Len(s) \in Nat
  OBVIOUS
<1> HIDE DEF x2
<1>6. Len(x2) = b
  BY <1>3, <1>4, <1>5
<1>7. /\ x \in Seq(S) /\ Len(x) = Len(x2) + Len(q)
      /\ \A i \in 1 .. Len(x2) + Len(q) : x[i] = IF i <= Len(x2) THEN x2[i] ELSE q[i - Len(x2)]
  <2>1. x2 \in Seq(S) /\ q \in Seq(S)
    BY <1>2, <1>4
  <2> QED BY <2>1, ConcatProperties
<1> HIDE DEF x
<1>8. Len(x) = Len(s)
  BY <1>2, <1>5, <1>6, <1>7
<1>9. ASSUME NEW i \in 1 .. Len(s), i <= a PROVE x[i] = s[i]
  <2>1. i \in 1 .. a /\ i \in 1 .. a + Len(u) /\ i <= Len(x1) /\ i \in 1 .. Len(x1) + Len(v)
        /\ i <= Len(x2) /\ i \in 1 .. Len(x2) + Len(q)
    BY <1>2, <1>3, <1>5, <1>6, <1>9
  <2> QED BY <1>1, <1>3, <1>4, <1>7, <1>9, <2>1
<1>10. ASSUME NEW i \in 1 .. Len(s), i > b PROVE x[i] = s[i]
  <2>1. i \in 1 .. Len(x2) + Len(q) /\ ~(i <= b) /\ i - b \in 1 .. Len(s) - b /\ b + (i - b) = i
    BY <1>2, <1>5, <1>6, <1>10
  <2>2. x[i] = q[i - b]
    BY <1>6, <1>7, <2>1
  <2> QED BY <1>2, <2>1, <2>2
<1> QED BY <1>7, <1>8, <1>9, <1>10 DEF x, x2, x1, p, q, Splice

(***************************************************************************)
(* Writing to a buffer                                                     *)
(***************************************************************************)

\* A write that marks all.
LEMMA WriteAll ==
  ASSUME NEW rows \in Nat \ {0}, NEW cols \in Nat \ {0}, NEW g \in Buffers(rows, cols),
         NEW h \in Buffers(rows, cols), h.cap = g.cap, h.writes > g.writes
  PROVE  Onto(g, MarkAll(h), rows, cols)
<1> DEFINE m == MarkAll(h)
<1>1. m \in Buffers(rows, cols) /\ m.dirty.all /\ m.writes = h.writes /\ m.cap = h.cap
  BY MarkAllStep
<1> HIDE DEF m
<1>2. Dirties(g, m)
  BY <1>1 DEF Dirties, IsDirtyCell
<1>3. Later(g, m)
  BY <1>1, BufferParts DEF Later
<1> QED BY <1>1, <1>2, <1>3 DEF Onto, m

\* No mark of a row takes the mark of the whole frame away.
LEMMA MarksStay ==
  \A g : g.dirty.all =>
    /\ \A first, end : MarkRows(g, first, end).dirty.all
    /\ \A row, lo, hi : MarkRange(g, row, lo, hi).dirty.all
BY DEF MarkRows, MarkRange

\* A write that marks rows, among them every one it changes.
LEMMA WriteRows ==
  ASSUME NEW rows \in Nat \ {0}, NEW cols \in Nat \ {0}, NEW g \in Buffers(rows, cols),
         NEW h \in Buffers(rows, cols), h.cap = g.cap, h.writes > g.writes, h.dirty = g.dirty,
         NEW first \in Int, NEW end \in Int,
         \A r \in 0 .. rows - 1 : r \notin first .. end - 1 => VisibleRow(h, r).cells = VisibleRow(g, r).cells
  PROVE  Onto(g, MarkRows(h, first, end), rows, cols)
<1> DEFINE m == MarkRows(h, first, end)
<1>1. /\ m \in Buffers(rows, cols)
      /\ m.raw = h.raw /\ m.writes = h.writes /\ m.cap = h.cap /\ m.rows = rows
      /\ \A r \in 0 .. rows - 1 : \A c \in 0 .. cols - 1 :
           IsDirtyCell(h, r, c) \/ r \in first .. end - 1 => IsDirtyCell(m, r, c)
  BY MarkRowsStep
<1> HIDE DEF m
<1>2. ASSUME NEW r \in 0 .. rows - 1, NEW c \in 0 .. cols - 1,
             IsDirtyCell(g, r, c) \/ VisibleRow(m, r).cells[c] # VisibleRow(g, r).cells[c]
      PROVE  IsDirtyCell(m, r, c)
  <2>1. IsDirtyCell(h, r, c) <=> IsDirtyCell(g, r, c)
    BY DEF IsDirtyCell
  <2>2. VisibleRow(m, r) = VisibleRow(h, r)
    <3>1. m.raw = h.raw /\ m.rows = h.rows
      <4>1. h.rows = rows
        BY BufferParts
      <4> QED BY <1>1, <4>1
    <3> QED BY <3>1 DEF VisibleRow, Scrollback
  <2> QED BY <1>1, <1>2, <2>1, <2>2
<1>3. Dirties(g, m)
  <2>1. g.rows = rows /\ g.cols = cols
    BY BufferSize, Zenon
  <2>2. g.dirty.all => m.dirty.all
    BY MarksStay, Zenon DEF m
  <2> QED BY <1>2, <2>1, <2>2 DEF Dirties
<1>4. Later(g, m)
  BY <1>1, BufferParts DEF Later
<1> QED BY <1>1, <1>3, <1>4 DEF Onto, m

\* A write that marks a part of a row, every cell it changes.
LEMMA WriteRange ==
  ASSUME NEW rows \in Nat \ {0}, NEW cols \in Nat \ {0}, NEW g \in Buffers(rows, cols),
         NEW h \in Buffers(rows, cols), h.cap = g.cap, h.writes > g.writes, h.dirty = g.dirty,
         NEW row \in 0 .. rows - 1, NEW lo \in Nat, NEW hi \in Nat,
         \A r \in 0 .. rows - 1 : r # row => VisibleRow(h, r).cells = VisibleRow(g, r).cells,
         \A c \in 0 .. cols - 1 :
           c \notin lo .. hi - 1 => VisibleRow(h, row).cells[c] = VisibleRow(g, row).cells[c]
  PROVE  Onto(g, MarkRange(h, row, lo, hi), rows, cols)
<1> DEFINE m == MarkRange(h, row, lo, hi)
<1>1. /\ m \in Buffers(rows, cols)
      /\ m.raw = h.raw /\ m.writes = h.writes /\ m.cap = h.cap /\ m.rows = rows
      /\ \A r \in 0 .. rows - 1 : \A c \in 0 .. cols - 1 :
           IsDirtyCell(h, r, c) \/ (r = row /\ c \in lo .. hi - 1) => IsDirtyCell(m, r, c)
  BY MarkRangeStep
<1> HIDE DEF m
<1>2. ASSUME NEW r \in 0 .. rows - 1, NEW c \in 0 .. cols - 1,
             IsDirtyCell(g, r, c) \/ VisibleRow(m, r).cells[c] # VisibleRow(g, r).cells[c]
      PROVE  IsDirtyCell(m, r, c)
  <2>1. IsDirtyCell(h, r, c) <=> IsDirtyCell(g, r, c)
    BY DEF IsDirtyCell
  <2>2. VisibleRow(m, r) = VisibleRow(h, r)
    <3>1. m.raw = h.raw /\ m.rows = h.rows
      <4>1. h.rows = rows
        BY BufferParts
      <4> QED BY <1>1, <4>1
    <3> QED BY <3>1 DEF VisibleRow, Scrollback
  <2> QED BY <1>1, <1>2, <2>1, <2>2
<1>3. Dirties(g, m)
  <2>1. g.rows = rows /\ g.cols = cols
    BY BufferSize, Zenon
  <2>2. g.dirty.all => m.dirty.all
    BY MarksStay, Zenon DEF m
  <2> QED BY <1>2, <2>1, <2>2 DEF Dirties
<1>4. Later(g, m)
  BY <1>1, BufferParts DEF Later
<1> QED BY <1>1, <1>3, <1>4 DEF Onto, m

\* One line of the screen replaced.
LEMMA OneLine ==
  ASSUME NEW rows \in Nat \ {0}, NEW cols \in Nat \ {0}, NEW g \in Buffers(rows, cols),
         NEW r \in 0 .. rows - 1, NEW row \in Lines(cols)
  PROVE  LET h == [Wrote(g, 1) EXCEPT !.raw = [g.raw EXCEPT ![Scrollback(g) + r + 1] = row]] IN
         /\ h \in Buffers(rows, cols) /\ h.cap = g.cap /\ h.writes > g.writes /\ h.dirty = g.dirty
         /\ VisibleRow(h, r) = row
         /\ \A q \in 0 .. rows - 1 : q # r => VisibleRow(h, q) = VisibleRow(g, q)
<1> DEFINE k == Scrollback(g) + r + 1
           raw == [g.raw EXCEPT ![k] = row]
           h == [Wrote(g, 1) EXCEPT !.raw = raw]
<1>1. k \in 1 .. Len(g.raw) /\ g.raw \in Seq(Lines(cols)) /\ Len(g.raw) >= rows
      /\ Scrollback(g) \in Nat /\ g.writes \in Nat /\ g.rows = rows
  BY VisibleRowType, BufferParts
<1> HIDE DEF k
<1>2. /\ raw \in Seq(Lines(cols)) /\ Len(raw) = Len(g.raw)
      /\ \A j \in 1 .. Len(g.raw) : raw[j] = IF j = k THEN row ELSE g.raw[j]
  BY <1>1, ExceptSeq
<1> HIDE DEF raw
<1>3. /\ h \in Buffers(rows, cols) /\ h.raw = raw /\ h.dirty = g.dirty
      /\ h.writes = g.writes + 1 /\ h.cap = g.cap /\ h.rows = rows
  <2>1. raw \in Seq(Lines(cols)) /\ Len(raw) >= rows
    BY <1>1, <1>2
  <2> QED BY <2>1, Relined
<1> HIDE DEF h
<1>4. Scrollback(h) = Scrollback(g)
  BY <1>1, <1>2, <1>3 DEF Scrollback
<1>5. VisibleRow(h, r) = row
  <2>1. VisibleRow(h, r) = raw[k]
    BY <1>3, <1>4 DEF VisibleRow, k
  <2> QED BY <1>1, <1>2, <2>1
<1>6. ASSUME NEW q \in 0 .. rows - 1, q # r PROVE VisibleRow(h, q) = VisibleRow(g, q)
  <2>1. Scrollback(g) + q + 1 \in 1 .. Len(g.raw)
    BY VisibleRowType
  <2>2. Scrollback(g) + q + 1 # k
    BY <1>1, <1>6 DEF k
  <2>3. raw[Scrollback(g) + q + 1] = g.raw[Scrollback(g) + q + 1]
    BY <1>2, <2>1, <2>2
  <2> QED BY <1>3, <1>4, <2>3 DEF VisibleRow
<1>7. h.writes > g.writes
  BY <1>1, <1>3
<1> QED BY <1>3, <1>5, <1>6, <1>7 DEF h, raw, k

\* visible_row_mut_marked and an assignment to the row
LEMMA SetRowStep ==
  ASSUME NEW rows \in Nat \ {0}, NEW cols \in Nat \ {0}, NEW g \in Buffers(rows, cols),
         NEW r \in 0 .. rows - 1, NEW row \in Lines(cols)
  PROVE  Onto(g, SetRow(g, r, row), rows, cols)
<1> DEFINE raw == [g.raw EXCEPT ![Scrollback(g) + r + 1] = row]
           h == [Wrote(g, 1) EXCEPT !.raw = raw]
           m == MarkRows(h, r, r + 1)
<1>1. /\ h \in Buffers(rows, cols) /\ h.cap = g.cap /\ h.writes > g.writes /\ h.dirty = g.dirty
      /\ \A q \in 0 .. rows - 1 : q # r => VisibleRow(h, q) = VisibleRow(g, q)
  BY OneLine
<1>2. SetRow(g, r, row) = m
  <2>1. g \in [raw : Seq(Lines(cols)), rows : {rows}, cols : {cols}, cap : Nat, dirty : Dirt(rows),
               writes : Nat, evicted : Nat]
    BY DEF Buffers
  <2> DEFINE w == Wrote(g, 1)
  <2>2. w \in [raw : Seq(Lines(cols)), rows : {rows}, cols : {cols}, cap : Nat, dirty : Dirt(rows),
               writes : Nat, evicted : Nat] /\ w.raw = g.raw
    BY <2>1 DEF Wrote
  <2> HIDE DEF w
  <2>3. SetRow(g, r, row) = [MarkRow(w, r) EXCEPT !.raw[Scrollback(g) + r + 1] = row]
    BY DEF SetRow, w
  <2>4. h = [w EXCEPT !.raw = raw]
    BY DEF w
  <2>5. CASE w.dirty.all
    <3>1. MarkRow(w, r) = w /\ m = h
      BY <2>2, <2>4, <2>5 DEF MarkRow, MarkRows
    <3> QED BY <2>2, <2>3, <2>4, <3>1
  <2>6. CASE ~w.dirty.all
    <3> DEFINE S == [q \in DOMAIN w.dirty.span |-> IF q \in r .. r + 1 - 1 THEN <<0, w.cols>> ELSE w.dirty.span[q]]
               D == [w.dirty EXCEPT !.span = S]
    <3>1. MarkRow(w, r) = [w EXCEPT !.dirty = D]
      BY <2>6 DEF MarkRow, MarkRows
    <3>2. h.dirty = w.dirty /\ h.cols = w.cols
      BY <2>2, <2>4
    <3>3. m = [h EXCEPT !.dirty = D]
      <4> HIDE DEF h
      <4> QED BY <2>6, <3>2 DEF MarkRows
    <3> HIDE DEF D, raw
    <3>4. [[w EXCEPT !.dirty = D] EXCEPT !.raw = raw] = [[w EXCEPT !.raw = raw] EXCEPT !.dirty = D]
      BY <2>2
    <3>5. SetRow(g, r, row) = [[w EXCEPT !.dirty = D] EXCEPT !.raw = raw]
      BY <2>2, <2>3, <3>1 DEF raw
    <3> QED BY <2>4, <3>3, <3>4, <3>5
  <2> QED BY <2>5, <2>6
<1> HIDE DEF h
<1>3. \A q \in 0 .. rows - 1 : q \notin r .. r + 1 - 1 => VisibleRow(h, q).cells = VisibleRow(g, q).cells
  BY <1>1
<1>4. Onto(g, m, rows, cols)
  BY <1>1, <1>3, WriteRows
<1> QED BY <1>2, <1>4

\* SetCells keeps the buffer's shape, tallies the write and marks the row.
LEMMA SetCellsStep ==
  ASSUME NEW rows \in Nat \ {0}, NEW cols \in Nat \ {0}, NEW g \in Buffers(rows, cols),
         NEW r \in 0 .. rows - 1, NEW cells \in CellRows(cols)
  PROVE  Onto(g, SetCells(g, r, cells), rows, cols)
<1>1. [VisibleRow(g, r) EXCEPT !.cells = cells] \in Lines(cols)
  BY VisibleRowType DEF Lines
<1> QED BY <1>1, SetRowStep DEF SetCells

\* visible_row_mut_untracked, a change of the row and a mark on the part changed
LEMMA EditRowStep ==
  ASSUME NEW rows \in Nat \ {0}, NEW cols \in Nat \ {0}, NEW g \in Buffers(rows, cols),
         NEW r \in 0 .. rows - 1, NEW cells \in CellRows(cols), NEW lo \in Nat, NEW hi \in Nat,
         \A c \in 0 .. cols - 1 : c \notin lo .. hi - 1 => cells[c] = VisibleRow(g, r).cells[c]
  PROVE  Onto(g, EditRow(g, r, cells, lo, hi), rows, cols)
<1> DEFINE row == [VisibleRow(g, r) EXCEPT !.cells = cells]
           raw == [g.raw EXCEPT ![Scrollback(g) + r + 1] = row]
           h == [Wrote(g, 1) EXCEPT !.raw = raw]
<1>1. row \in Lines(cols) /\ row.cells = cells
  <2>1. VisibleRow(g, r) \in Lines(cols)
    BY VisibleRowType
  <2> QED BY <2>1 DEF Lines
<1>2. EditRow(g, r, cells, lo, hi) = MarkRange(h, r, lo, hi)
  <2>1. Wrote(g, 1).raw = g.raw
    BY DEF Wrote, Buffers
  <2>2. [Wrote(g, 1) EXCEPT !.raw[Scrollback(g) + r + 1].cells = cells] = h
    BY <2>1 DEF VisibleRow
  <2> HIDE DEF h
  <2> QED BY <2>2 DEF EditRow
<1> HIDE DEF row
<1>3. /\ h \in Buffers(rows, cols) /\ h.cap = g.cap /\ h.writes > g.writes /\ h.dirty = g.dirty
      /\ VisibleRow(h, r) = row
      /\ \A q \in 0 .. rows - 1 : q # r => VisibleRow(h, q) = VisibleRow(g, q)
  BY <1>1, OneLine
<1> HIDE DEF h
<1>4. \A q \in 0 .. rows - 1 : q # r => VisibleRow(h, q).cells = VisibleRow(g, q).cells
  BY <1>3
<1>5. \A c \in 0 .. cols - 1 :
        c \notin lo .. hi - 1 => VisibleRow(h, r).cells[c] = VisibleRow(g, r).cells[c]
  BY <1>1, <1>3
<1>6. Onto(g, MarkRange(h, r, lo, hi), rows, cols)
  BY <1>3, <1>4, <1>5, WriteRange
<1> QED BY <1>2, <1>6

\* A write that changes nothing.
LEMMA WroteStep ==
  ASSUME NEW rows \in Nat \ {0}, NEW cols \in Nat \ {0}, NEW g \in Buffers(rows, cols)
  PROVE  Onto(g, Wrote(g, 1), rows, cols)
<1> DEFINE h == Wrote(g, 1)
<1>1. /\ h \in Buffers(rows, cols) /\ h.cap = g.cap /\ h.writes = g.writes + 1 /\ h.dirty = g.dirty
      /\ h.raw = g.raw /\ h.rows = rows
  <2>1. PICK w \in Nat : w = g.writes + 1
    BY BufferParts
  <2>2. h = [g EXCEPT !.writes = w]
    BY <2>1 DEF Wrote
  <2> HIDE DEF h
  <2>3. /\ h \in [raw : Seq(Lines(cols)), rows : {rows}, cols : {cols}, cap : Nat, dirty : Dirt(rows),
                 writes : Nat, evicted : Nat]
        /\ h.cap = g.cap /\ h.writes = w /\ h.dirty = g.dirty /\ h.raw = g.raw /\ h.rows = g.rows
    BY <2>2 DEF Buffers
  <2>4. Len(g.raw) >= rows /\ g.rows = rows
    BY BufferParts
  <2> QED BY <2>1, <2>3, <2>4 DEF Buffers
<1> HIDE DEF h
<1>2. VisibleRow(h, 0) = VisibleRow(g, 0) /\ \A r : VisibleRow(h, r) = VisibleRow(g, r)
  <2>1. h.rows = g.rows
    BY <1>1, BufferSize
  <2> QED BY <1>1, <2>1 DEF VisibleRow, Scrollback
<1>3. Dirties(g, h)
  BY <1>1, <1>2 DEF Dirties, IsDirtyCell
<1>4. Later(g, h)
  BY <1>1, BufferParts DEF Later
<1> QED BY <1>1, <1>3, <1>4 DEF Onto, h

\* erase_chars is an edit, with the halves it would leave erased too.
LEMMA EraseCharsStep ==
  ASSUME NEW rows \in Nat \ {0}, NEW cols \in Nat \ {0}, NEW g \in Buffers(rows, cols),
         NEW r \in 0 .. rows - 1, NEW col \in 0 .. cols - 1, NEW count \in Nat
  PROVE  Onto(g, EraseChars(g, r, col, count), rows, cols)
<1> DEFINE cells == VisibleRow(g, r).cells
           end0 == MinOf(col + count, cols)
           lo == IF col > 0 /\ cells[col] = Tail2 /\ cells[col - 1] \in Wide THEN col - 1 ELSE col
           hi == IF end0 < cols /\ cells[end0 - 1] \in Wide /\ cells[end0] = Tail2
                 THEN end0 + 1 ELSE end0
           new == [i \in 0 .. cols - 1 |-> IF i \in lo .. hi - 1 THEN Blank ELSE cells[i]]
<1>1. g.cols = cols /\ cells \in [0 .. cols - 1 -> Cells] /\ Paired(cells)
  BY BufferSize, VisibleRowType DEF CellRows
<1>2. end0 \in 0 .. cols
  BY DEF MinOf
<1>3. DOMAIN cells = 0 .. cols - 1
  BY <1>1
<1>4. EraseChars(g, r, col, count) =
        IF col >= end0 THEN Wrote(g, 1) ELSE EditRow(g, r, new, lo, hi)
  BY <1>1, <1>3 DEF EraseChars
<1>5. CASE col >= end0
  BY <1>4, <1>5, WroteStep
<1>6. CASE col < end0
  <2> HIDE DEF cells, end0
  <2>1. lo \in Nat /\ hi \in Nat /\ lo < hi /\ hi <= cols
    BY <1>2, <1>6
  <2>2. /\ lo - 1 \in 0 .. cols - 1 => ~(cells[lo] = Tail2 /\ cells[lo - 1] \in Wide)
        /\ hi \in 0 .. cols - 1 => ~(cells[hi - 1] \in Wide /\ cells[hi] = Tail2)
    BY <1>1, <1>2, <1>6, CellKinds
  <2> HIDE DEF lo, hi
  <2>3. new \in [0 .. cols - 1 -> Cells]
    BY <1>1, CellKinds
  <2>4. Paired(new)
    <3> SUFFICES ASSUME NEW k \in 0 .. cols - 1
                 PROVE  /\ new[k] \in Wide => k + 1 \in 0 .. cols - 1 /\ new[k + 1] = Tail2
                        /\ new[k] = Tail2 => k - 1 \in 0 .. cols - 1 /\ new[k - 1] \in Wide
      BY DEF Paired
    <3>1. ASSUME new[k] \in Wide PROVE k + 1 \in 0 .. cols - 1 /\ new[k + 1] = Tail2
      <4>1. k \notin lo .. hi - 1 /\ cells[k] \in Wide
        BY <3>1, CellKinds
      <4>2. k + 1 \in 0 .. cols - 1 /\ cells[k + 1] = Tail2
        BY <1>1, <1>3, <4>1 DEF Paired
      <4>3. k + 1 \notin lo .. hi - 1
        <5> SUFFICES ASSUME k + 1 \in lo .. hi - 1 PROVE FALSE
          OBVIOUS
        <5>1. k = lo - 1 /\ k + 1 = lo
          BY <2>1, <4>1
        <5> QED BY <2>2, <4>1, <4>2, <5>1
      <4> QED BY <4>2, <4>3
    <3>2. ASSUME new[k] = Tail2 PROVE k - 1 \in 0 .. cols - 1 /\ new[k - 1] \in Wide
      <4>1. k \notin lo .. hi - 1 /\ cells[k] = Tail2
        BY <3>2, CellKinds
      <4>2. k - 1 \in 0 .. cols - 1 /\ cells[k - 1] \in Wide
        BY <1>1, <1>3, <4>1 DEF Paired
      <4>3. k - 1 \notin lo .. hi - 1
        <5> SUFFICES ASSUME k - 1 \in lo .. hi - 1 PROVE FALSE
          OBVIOUS
        <5>1. k = hi /\ k - 1 = hi - 1
          BY <2>1, <4>1
        <5> QED BY <2>2, <4>1, <4>2, <5>1
      <4> QED BY <4>2, <4>3
    <3> QED BY <3>1, <3>2
  <2>5. new \in CellRows(cols)
    BY <2>3, <2>4 DEF CellRows
  <2>6. \A c \in 0 .. cols - 1 : c \notin lo .. hi - 1 => new[c] = cells[c]
    OBVIOUS
  <2> HIDE DEF new
  <2>7. Onto(g, EditRow(g, r, new, lo, hi), rows, cols)
    <3>1. \A c \in 0 .. cols - 1 : c \notin lo .. hi - 1 => new[c] = VisibleRow(g, r).cells[c]
      BY <2>6 DEF cells
    <3> QED BY <2>1, <2>5, <3>1, EditRowStep
  <2>8. ~(col >= end0)
    BY <1>2, <1>6
  <2> QED BY <1>4, <2>7, <2>8
<1> HIDE DEF end0
<1> QED BY <1>2, <1>5, <1>6

\* insert_chars is an edit: the shift leaves no half of a character.
LEMMA InsertCharsStep ==
  ASSUME NEW rows \in Nat \ {0}, NEW cols \in Nat \ {0}, NEW g \in Buffers(rows, cols),
         NEW r \in 0 .. rows - 1, NEW col \in 0 .. cols - 1, NEW count \in Nat \ {0}
  PROVE  Onto(g, InsertChars(g, r, col, count), rows, cols)
<1> DEFINE old == VisibleRow(g, r).cells
           cells == ClearPair(old, col)
           shifted == [i \in 0 .. cols - 1 |->
                        IF i < col THEN cells[i]
                        ELSE IF i < col + count THEN Blank ELSE cells[i - count]]
           new == Sanitize(shifted)
           lo == Less(col, 1)
<1>1. g.cols = cols /\ old \in CellRows(cols)
  BY BufferSize, VisibleRowType
<1>2. old \in [0 .. cols - 1 -> Cells] /\ Paired(old)
  BY <1>1 DEF CellRows
<1> HIDE DEF old
<1>3. /\ cells \in CellRows(cols)
      /\ cells[col] \notin Wide /\ cells[col] # Tail2
      /\ \A i \in 0 .. cols - 1 : i \notin col - 1 .. col + 1 => cells[i] = old[i]
  BY <1>1, ClearPairType
<1> HIDE DEF cells
<1>4. cells \in [0 .. cols - 1 -> Cells] /\ Paired(cells) /\ DOMAIN cells = 0 .. cols - 1
  BY <1>3 DEF CellRows
<1>5. InsertChars(g, r, col, count) = EditRow(g, r, new, lo, cols)
  BY <1>1, <1>4 DEF InsertChars, cells, old
<1>6. shifted \in [0 .. cols - 1 -> Cells]
  BY <1>4, CellKinds
<1>7. /\ new \in CellRows(cols)
      /\ \A i \in 0 .. cols - 1 :
           \/ new[i] = shifted[i]
           \/ shifted[i] \in Wide /\ ~(i + 1 \in 0 .. cols - 1 /\ shifted[i + 1] = Tail2)
           \/ shifted[i] = Tail2 /\ ~(i - 1 \in 0 .. cols - 1 /\ shifted[i - 1] \in Wide)
  <2> HIDE DEF shifted
  <2> QED BY <1>6, SanitizeType
<1> HIDE DEF new
<1>8. lo \in Nat /\ (lo = 0 \/ lo = col - 1)
  BY DEF Less, MaxOf
<1> HIDE DEF lo
<1>9. ASSUME NEW c \in 0 .. cols - 1, c \notin lo .. cols - 1 PROVE new[c] = old[c]
  <2>1. c < col - 1
    BY <1>8, <1>9
  <2>2. cells[c] = old[c]
    BY <1>3, <2>1
  <2>3. c + 1 \in 0 .. cols - 1 /\ shifted[c] = cells[c] /\ shifted[c + 1] = cells[c + 1]
        /\ (c - 1 \in 0 .. cols - 1 => shifted[c - 1] = cells[c - 1])
    BY <2>1
  <2> HIDE DEF shifted
  <2>4. /\ cells[c] \in Wide => cells[c + 1] = Tail2
        /\ cells[c] = Tail2 => c - 1 \in 0 .. cols - 1 /\ cells[c - 1] \in Wide
    BY <1>4 DEF Paired
  <2> QED BY <1>7, <2>2, <2>3, <2>4
<1>10. \A c \in 0 .. cols - 1 : c \notin lo .. cols - 1 => new[c] = VisibleRow(g, r).cells[c]
  BY <1>9 DEF old
<1>11. new \in CellRows(cols) /\ cols \in Nat
  BY <1>7
<1>12. Onto(g, EditRow(g, r, new, lo, cols), rows, cols)
  BY <1>8, <1>10, <1>11, EditRowStep
<1> QED BY <1>5, <1>12

\* delete_chars is an edit: the shift leaves no half of a character.
LEMMA DeleteCharsStep ==
  ASSUME NEW rows \in Nat \ {0}, NEW cols \in Nat \ {0}, NEW g \in Buffers(rows, cols),
         NEW r \in 0 .. rows - 1, NEW col \in 0 .. cols - 1, NEW count \in Nat
  PROVE  Onto(g, DeleteChars(g, r, col, count), rows, cols)
<1> DEFINE cells == VisibleRow(g, r).cells
           n == MinOf(count, Less(cols, col))
           shifted == [i \in 0 .. cols - 1 |->
                        IF i < col THEN cells[i]
                        ELSE IF i + n < cols THEN cells[i + n] ELSE Blank]
           new == Sanitize(shifted)
           lo == Less(col, 1)
<1>1. g.cols = cols /\ cells \in CellRows(cols)
  BY BufferSize, VisibleRowType
<1>2. cells \in [0 .. cols - 1 -> Cells] /\ Paired(cells) /\ DOMAIN cells = 0 .. cols - 1
  BY <1>1 DEF CellRows
<1>3. n \in Nat
  BY DEF MinOf, Less, MaxOf
<1>4. DeleteChars(g, r, col, count) = IF n = 0 THEN Wrote(g, 1) ELSE EditRow(g, r, new, lo, cols)
  BY <1>1, <1>2 DEF DeleteChars
<1> HIDE DEF cells, n
<1>6. shifted \in [0 .. cols - 1 -> Cells]
  BY <1>2, <1>3, CellKinds
<1>7. /\ new \in CellRows(cols)
      /\ \A i \in 0 .. cols - 1 :
           \/ new[i] = shifted[i]
           \/ shifted[i] \in Wide /\ ~(i + 1 \in 0 .. cols - 1 /\ shifted[i + 1] = Tail2)
           \/ shifted[i] = Tail2 /\ ~(i - 1 \in 0 .. cols - 1 /\ shifted[i - 1] \in Wide)
  <2> HIDE DEF shifted
  <2> QED BY <1>6, SanitizeType
<1> HIDE DEF new
<1>8. lo \in Nat /\ (lo = 0 \/ lo = col - 1)
  BY DEF Less, MaxOf
<1> HIDE DEF lo
<1>9. ASSUME NEW c \in 0 .. cols - 1, c \notin lo .. cols - 1 PROVE new[c] = cells[c]
  <2>1. c < col - 1
    BY <1>8, <1>9
  <2>3. c + 1 \in 0 .. cols - 1 /\ shifted[c] = cells[c] /\ shifted[c + 1] = cells[c + 1]
        /\ (c - 1 \in 0 .. cols - 1 => shifted[c - 1] = cells[c - 1])
    BY <2>1
  <2> HIDE DEF shifted
  <2>4. /\ cells[c] \in Wide => cells[c + 1] = Tail2
        /\ cells[c] = Tail2 => c - 1 \in 0 .. cols - 1 /\ cells[c - 1] \in Wide
    BY <1>2 DEF Paired
  <2> QED BY <1>7, <2>3, <2>4
<1>10. \A c \in 0 .. cols - 1 : c \notin lo .. cols - 1 => new[c] = VisibleRow(g, r).cells[c]
  BY <1>9 DEF cells
<1>11. new \in CellRows(cols) /\ cols \in Nat
  BY <1>7
<1>12. Onto(g, EditRow(g, r, new, lo, cols), rows, cols)
  BY <1>8, <1>10, <1>11, EditRowStep
<1>13. Onto(g, Wrote(g, 1), rows, cols)
  BY WroteStep
<1> QED BY <1>4, <1>12, <1>13

\* Rows filled with one kind of cell.
LEMMA FillRowsStep ==
  ASSUME NEW rows \in Nat \ {0}, NEW cols \in Nat \ {0}, NEW g \in Buffers(rows, cols),
         NEW first \in Int, NEW end \in Int, NEW c \in {Blank, "E"}
  PROVE  Onto(g, FillRows(g, first, end, c), rows, cols) /\ FillRows(g, first, end, c).writes > g.writes
<1> DEFINE filled == RowOf([k \in 0 .. cols - 1 |-> c])
           In(i) == i - 1 - Scrollback(g) \in first .. end - 1
           raw == [i \in 1 .. Len(g.raw) |-> IF In(i) THEN filled ELSE g.raw[i]]
           h == [Wrote(g, 1) EXCEPT !.raw = raw]
           m == MarkRows(h, first, end)
<1>1. /\ g.raw \in Seq(Lines(cols)) /\ Len(g.raw) \in Nat /\ Len(g.raw) >= rows /\ g.rows = rows
      /\ Scrollback(g) \in Nat /\ g.writes \in Nat
  BY BufferParts
<1>2. filled \in Lines(cols)
  BY FilledType
<1>3. \A i \in 1 .. Len(g.raw) : g.raw[i] \in Lines(cols) /\ ColsOf(g.raw[i]) = 0 .. cols - 1
  <2>1. \A row \in Lines(cols) : ColsOf(row) = 0 .. cols - 1
    BY DEF Lines, CellRows, ColsOf
  <2> QED BY <1>1, <2>1, ElementOfSeq
<1>4. FillRows(g, first, end, c) = m
  <2>1. Wrote(g, 1).raw = g.raw /\ DOMAIN g.raw = 1 .. Len(g.raw)
    BY <1>1 DEF Wrote, Buffers
  <2>2. [i \in DOMAIN g.raw |-> IF In(i) THEN RowOf([k \in ColsOf(g.raw[i]) |-> c]) ELSE g.raw[i]] = raw
    <3> HIDE DEF In
    <3> QED BY <1>3, <2>1
  <2> HIDE DEF raw
  <2>3. [Wrote(g, 1) EXCEPT !.raw =
          [i \in DOMAIN @ |-> IF In(i) THEN RowOf([k \in ColsOf(@[i]) |-> c]) ELSE @[i]]] = h
    BY <2>1, <2>2
  <2> HIDE DEF h
  <2> QED BY <2>3 DEF FillRows
<1> HIDE DEF filled
<1>5. raw \in Seq(Lines(cols)) /\ Len(raw) = Len(g.raw)
  <2>1. raw \in [1 .. Len(g.raw) -> Lines(cols)]
    <3> HIDE DEF In
    <3> QED BY <1>2, <1>3
  <2> HIDE DEF raw
  <2> QED BY <1>1, <2>1, MappedType
<1>6. \A i \in 1 .. Len(g.raw) : ~In(i) => raw[i] = g.raw[i]
  <2> HIDE DEF In
  <2> QED OBVIOUS
<1> HIDE DEF raw
<1>7. /\ h \in Buffers(rows, cols) /\ h.raw = raw /\ h.dirty = g.dirty
      /\ h.writes = g.writes + 1 /\ h.cap = g.cap /\ h.rows = rows
  <2>1. raw \in Seq(Lines(cols)) /\ Len(raw) >= rows
    BY <1>1, <1>5
  <2> QED BY <2>1, Relined
<1> HIDE DEF h
<1>8. Scrollback(h) = Scrollback(g)
  BY <1>1, <1>5, <1>7 DEF Scrollback
<1>9. ASSUME NEW r \in 0 .. rows - 1, r \notin first .. end - 1
      PROVE  VisibleRow(h, r).cells = VisibleRow(g, r).cells
  <2> DEFINE i == Scrollback(g) + r + 1
  <2>1. i \in 1 .. Len(g.raw) /\ i - 1 - Scrollback(g) = r
    BY <1>1, VisibleRowType
  <2>2. ~In(i)
    BY <1>9, <2>1
  <2>3. raw[i] = g.raw[i]
    <3> HIDE DEF i, In
    <3> QED BY <1>6, <2>1, <2>2
  <2> QED BY <1>7, <1>8, <2>3 DEF VisibleRow
<1>10. h.writes > g.writes
  BY <1>1, <1>7
<1>11. Onto(g, m, rows, cols)
  BY <1>7, <1>9, <1>10, WriteRows
<1>12. m.writes = h.writes
  BY <1>7, MarkRowsStep
<1> HIDE DEF m
<1> QED BY <1>4, <1>10, <1>11, <1>12

\* Lines dropped at the front: what the screen shows stays.
LEMMA DropFrontType ==
  ASSUME NEW rows \in Nat \ {0}, NEW cols \in Nat \ {0}, NEW g \in Buffers(rows, cols),
         NEW n \in Nat, n <= Len(g.raw) - rows
  PROVE  LET h == DropFront(g, n) IN
         /\ h \in Buffers(rows, cols) /\ h.dirty = g.dirty /\ h.writes = g.writes /\ h.cap = g.cap
         /\ h.raw = SubSeq(g.raw, n + 1, Len(g.raw))
         /\ \A r \in 0 .. rows - 1 : VisibleRow(h, r) = VisibleRow(g, r)
<1> DEFINE raw == SubSeq(g.raw, n + 1, Len(g.raw))
           e == g.evicted + n
           h == [g EXCEPT !.raw = raw, !.evicted = e]
<1>1. /\ g.raw \in Seq(Lines(cols)) /\ Len(g.raw) \in Nat /\ Len(g.raw) >= rows /\ g.rows = rows
      /\ Scrollback(g) = Len(g.raw) - rows /\ e \in Nat
  BY BufferParts
<1>2. /\ raw \in Seq(Lines(cols))
      /\ Len(raw) = IF n + 1 <= Len(g.raw) THEN Len(g.raw) - (n + 1) + 1 ELSE 0
      /\ \A i \in 1 .. Len(g.raw) - (n + 1) + 1 : raw[i] = g.raw[n + 1 + i - 1]
  <2>1. n + 1 \in Nat \ {0} /\ Len(g.raw) <= Len(g.raw)
    BY <1>1
  <2> QED BY <1>1, <2>1, PartType
<1> HIDE DEF raw, e
<1>3. Len(raw) = Len(g.raw) - n /\ Len(raw) >= rows
  BY <1>1, <1>2
<1>4. DropFront(g, n) = h
  BY DEF DropFront, raw, e
<1>5. /\ h \in Buffers(rows, cols) /\ h.dirty = g.dirty /\ h.writes = g.writes /\ h.cap = g.cap
      /\ h.raw = raw /\ h.rows = rows
  BY <1>1, <1>2, <1>3 DEF Buffers
<1> HIDE DEF h
<1>6. ASSUME NEW r \in 0 .. rows - 1 PROVE VisibleRow(h, r) = VisibleRow(g, r)
  <2>1. Scrollback(h) = Len(g.raw) - n - rows
    BY SMTT(30), <1>1, <1>3, <1>5, BufferParts
  <2> DEFINE i == Len(g.raw) - n - rows + r + 1
  <2>2. i \in 1 .. Len(g.raw) - (n + 1) + 1 /\ n + 1 + i - 1 = Len(g.raw) - rows + r + 1
    <3>1. PICK L \in Nat : Len(g.raw) = L
      BY <1>1
    <3>2. n <= L - rows
      BY <3>1
    <3> QED BY <3>1, <3>2
  <2>3. raw[i] = g.raw[Len(g.raw) - rows + r + 1]
    <3> HIDE DEF i
    <3> QED BY <1>2, <2>2
  <2> QED BY <1>1, <1>5, <2>1, <2>3 DEF VisibleRow
<1> QED BY <1>4, <1>5, <1>6 DEF raw

\* clear_visible and then clear_scrollback
LEMMA ClearAllStep ==
  ASSUME NEW rows \in Nat \ {0}, NEW cols \in Nat \ {0}, NEW g \in Buffers(rows, cols)
  PROVE  Onto(g, ClearScrollback(ClearVisible(g)), rows, cols)
<1> DEFINE v == ClearVisible(g)
           h == ClearScrollback(v)
<1>1. Onto(g, v, rows, cols) /\ v.writes > g.writes
  <2>1. g.rows = rows
    BY BufferSize
  <2>2. v = FillRows(g, 0, rows, Blank)
    BY <2>1 DEF ClearVisible
  <2> HIDE DEF v
  <2> QED BY <2>2, FillRowsStep
<1> HIDE DEF v
<1>2. v \in Buffers(rows, cols) /\ v.cap = g.cap /\ Dirties(g, v)
  BY <1>1 DEF Onto
<1>3. Scrollback(v) \in Nat /\ Scrollback(v) <= Len(v.raw) - rows
  BY <1>2, BufferParts
<1>4. /\ h \in Buffers(rows, cols) /\ h.dirty = v.dirty /\ h.writes = v.writes /\ h.cap = v.cap
      /\ \A r \in 0 .. rows - 1 : VisibleRow(h, r) = VisibleRow(v, r)
  BY <1>2, <1>3, DropFrontType DEF ClearScrollback
<1> HIDE DEF h
<1>5. Dirties(g, h)
  <2>1. g.rows = rows
    BY BufferSize
  <2> QED BY <1>2, <1>4, <2>1 DEF Dirties, IsDirtyCell
<1>6. Later(g, h)
  BY <1>1, <1>4, BufferParts DEF Later
<1>7. Onto(g, h, rows, cols)
  BY <1>2, <1>4, <1>5, <1>6 DEF Onto
<1> QED BY <1>7 DEF h, v

\* A write that marks the region it scrolled.
LEMMA ScrolledStep ==
  ASSUME NEW rows \in Nat \ {0}, NEW cols \in Nat \ {0}, NEW g \in Buffers(rows, cols),
         NEW h \in Buffers(rows, cols), h.cap = g.cap, h.writes > g.writes, h.dirty = g.dirty,
         NEW top \in Nat, NEW bottom \in Nat,
         \A r \in 0 .. rows - 1 : r \notin top .. bottom => VisibleRow(h, r) = VisibleRow(g, r)
  PROVE  Onto(g, MarkScrolled(h, top, bottom), rows, cols)
<1>1. Onto(g, MarkAll(h), rows, cols)
  BY WriteAll
<1>2. \A r \in 0 .. rows - 1 :
        r \notin top .. (bottom + 1) - 1 => VisibleRow(h, r).cells = VisibleRow(g, r).cells
  <2>1. (bottom + 1) - 1 = bottom
    OBVIOUS
  <2> QED BY <2>1
<1>3. top \in Int /\ bottom + 1 \in Int
  OBVIOUS
<1>4. Onto(g, MarkRows(h, top, bottom + 1), rows, cols)
  BY <1>2, <1>3, WriteRows
<1> QED BY <1>1, <1>4 DEF MarkScrolled

\* scroll_up is an edit: what moves is marked, in the region or with the history.
LEMMA ScrollUpStep ==
  ASSUME NEW rows \in Nat \ {0}, NEW cols \in Nat \ {0}, NEW g \in Buffers(rows, cols),
         NEW regionTop \in Nat, NEW regionBottom \in Nat, NEW count \in Nat
  PROVE  Onto(g, ScrollUp(g, regionTop, regionBottom, count), rows, cols)
<1> DEFINE bottom == MinOf(regionBottom, g.rows - 1)
           n == MinOf(count, bottom - regionTop + 1)
           blanks == [i \in 1 .. n |-> NewRow(g.cols)]
           first == Scrollback(g) + regionTop
           last == Scrollback(g) + bottom + 1
           long == g.raw \o blanks
           longer == [Wrote(g, n) EXCEPT !.raw = @ \o blanks]
           raw == SubSeq(g.raw, 1, first) \o SubSeq(g.raw, first + n + 1, last) \o blanks
                    \o SubSeq(g.raw, last + 1, Len(g.raw))
           shuffled == [Wrote(g, n) EXCEPT !.raw =
                         SubSeq(@, 1, first) \o SubSeq(@, first + n + 1, last) \o blanks
                           \o SubSeq(@, last + 1, Len(@))]
           off == Less(Len(longer.raw), g.rows + g.cap)
<1>1. /\ g.raw \in Seq(Lines(cols)) /\ Len(g.raw) \in Nat /\ Len(g.raw) >= rows
      /\ g.rows = rows /\ g.cols = cols /\ g.cap \in Nat /\ g.writes \in Nat
      /\ Scrollback(g) = Len(g.raw) - rows /\ Scrollback(g) \in Nat
  BY BufferParts
<1>2. ScrollUp(g, regionTop, regionBottom, count) =
        IF regionTop > bottom \/ n = 0 THEN g
        ELSE IF regionTop = 0 /\ bottom = g.rows - 1
        THEN MarkScrolled(DropFront(longer, off), regionTop, bottom)
        ELSE MarkScrolled(shuffled, regionTop, bottom)
  BY DEF ScrollUp
<1>8. Wrote(g, n).raw = g.raw
  BY DEF Wrote, Buffers
<1>9. longer = [Wrote(g, n) EXCEPT !.raw = long]
  BY <1>8
<1>10. shuffled = [Wrote(g, n) EXCEPT !.raw = raw]
  BY <1>8
<1>3. bottom \in 0 .. rows - 1
  BY <1>1 DEF MinOf
<1>4. CASE regionTop > bottom \/ n = 0
  BY <1>2, <1>4, OntoSelf
<1>5. CASE ~(regionTop > bottom \/ n = 0)
  <2> HIDE DEF bottom
  <2>1. regionTop <= bottom
    BY <1>3, <1>5
  <2>2. n \in 1 .. bottom - regionTop + 1
    BY <1>3, <1>5, <2>1 DEF MinOf
  <2> HIDE DEF n
  <2>3. n \in Nat /\ n > 0
    BY <1>3, <2>2
  <2>4. blanks \in Seq(Lines(cols)) /\ Len(blanks) = n
    BY <1>1, <2>3, NewRowType, RepeatType
  <2> HIDE DEF blanks
  <2>5. CASE regionTop = 0 /\ bottom = rows - 1
    <3>1. long \in Seq(Lines(cols)) /\ Len(long) = Len(g.raw) + n
      BY <1>1, <2>4, ConcatProperties
    <3> HIDE DEF long, longer
    <3>2. Len(long) >= rows
      BY <1>1, <2>3, <3>1
    <3>3. /\ longer \in Buffers(rows, cols) /\ longer.raw = long
          /\ longer.dirty = g.dirty /\ longer.writes = g.writes + n /\ longer.cap = g.cap
      BY <1>9, <2>3, <3>1, <3>2, Relined
    <3> HIDE DEF longer
    <3>4. off \in Nat /\ off <= Len(longer.raw) - rows
      <4>1. PICK L \in Nat : Len(longer.raw) = L /\ L >= rows
        BY <1>1, <2>3, <3>1, <3>2, <3>3
      <4> QED BY <1>1, <4>1 DEF Less, MaxOf
    <3> HIDE DEF off
    <3> DEFINE h == DropFront(longer, off)
    <3>5. h \in Buffers(rows, cols) /\ h.dirty = longer.dirty /\ h.writes = longer.writes /\ h.cap = longer.cap
      BY <3>3, <3>4, DropFrontType
    <3> HIDE DEF h
    <3>6. h.writes > g.writes /\ h.cap = g.cap /\ h.dirty = g.dirty
      BY <1>1, <2>3, <3>3, <3>5
    <3>7. \A r \in 0 .. rows - 1 : r \notin regionTop .. bottom => VisibleRow(h, r) = VisibleRow(g, r)
      BY <2>5
    <3>8. bottom \in Nat
      BY <1>3
    <3>9. Onto(g, MarkScrolled(h, regionTop, bottom), rows, cols)
      BY <3>5, <3>6, <3>7, <3>8, ScrolledStep
    <3> QED BY <1>1, <1>2, <1>5, <2>5, <3>9 DEF h
  <2>6. CASE ~(regionTop = 0 /\ bottom = rows - 1)
    <3>1. /\ first \in Nat /\ last \in Nat /\ first <= last /\ last <= Len(g.raw)
          /\ first + n <= last
      BY <1>1, <1>3, <2>1, <2>2
    <3> DEFINE u == SubSeq(g.raw, first + n + 1, last)
    <3>2. u \in Seq(Lines(cols)) /\ Len(u) = last - first - n
      <4> HIDE DEF first, last
      <4>1. first + n + 1 \in Nat \ {0}
        BY <2>3, <3>1
      <4>2. u \in Seq(Lines(cols)) /\ Len(u) = IF first + n + 1 <= last THEN last - (first + n + 1) + 1 ELSE 0
        BY <1>1, <3>1, <4>1, PartType
      <4> HIDE DEF u
      <4> QED BY <2>3, <3>1, <4>2
    <3>3. /\ raw \in Seq(Lines(cols)) /\ Len(raw) = Len(g.raw)
          /\ \A i \in 1 .. Len(g.raw) : i <= first \/ i > last => raw[i] = g.raw[i]
      <4> HIDE DEF first, last, u
      <4>1. Len(u) + Len(blanks) = last - first
        BY <2>3, <2>4, <3>1, <3>2
      <4>2. LET x == Splice(g.raw, u, blanks, first, last) IN
            /\ x \in Seq(Lines(cols)) /\ Len(x) = Len(g.raw)
            /\ \A i \in 1 .. Len(g.raw) : i <= first \/ i > last => x[i] = g.raw[i]
        <5>1. /\ g.raw \in Seq(Lines(cols)) /\ u \in Seq(Lines(cols)) /\ blanks \in Seq(Lines(cols))
              /\ first \in Nat /\ last \in Nat /\ first <= last /\ last <= Len(g.raw)
          BY <1>1, <2>4, <3>1, <3>2
        <5> QED BY <4>1, <5>1, Spliced
      <4> QED BY <4>2 DEF u, Splice
    <3> HIDE DEF raw, shuffled
    <3>4. /\ shuffled \in Buffers(rows, cols) /\ shuffled.raw = raw /\ shuffled.rows = rows
          /\ shuffled.dirty = g.dirty /\ shuffled.writes = g.writes + n /\ shuffled.cap = g.cap
      <4>1. raw \in Seq(Lines(cols)) /\ Len(raw) >= rows
        BY <1>1, <3>3
      <4> QED BY <1>10, <2>3, <4>1, Relined
    <3> HIDE DEF shuffled
    <3>5. shuffled.writes > g.writes
      BY <1>1, <2>3, <3>4
    <3>6. ASSUME NEW r \in 0 .. rows - 1, r \notin regionTop .. bottom
          PROVE  VisibleRow(shuffled, r) = VisibleRow(g, r)
      <4> DEFINE i == Scrollback(g) + r + 1
      <4>1. i \in 1 .. Len(g.raw)
        BY VisibleRowType
      <4>2. i <= first \/ i > last
        BY <1>1, <1>3, <3>6
      <4>3. raw[i] = g.raw[i]
        <5> HIDE DEF i, first, last
        <5> QED BY <3>3, <4>1, <4>2
      <4>4. Scrollback(shuffled) = Scrollback(g)
        BY <1>1, <3>3, <3>4 DEF Scrollback
      <4> QED BY <3>4, <4>3, <4>4 DEF VisibleRow
    <3>7. bottom \in Nat
      BY <1>3
    <3>8. Onto(g, MarkScrolled(shuffled, regionTop, bottom), rows, cols)
      BY <3>4, <3>5, <3>6, <3>7, ScrolledStep
    <3> QED BY <1>1, <1>2, <1>5, <2>6, <3>8
  <2> QED BY <2>5, <2>6
<1> QED BY <1>4, <1>5

\* scroll_down is an edit: what moves is marked.
LEMMA ScrollDownStep ==
  ASSUME NEW rows \in Nat \ {0}, NEW cols \in Nat \ {0}, NEW g \in Buffers(rows, cols),
         NEW regionTop \in Nat, NEW regionBottom \in Nat, NEW count \in Nat
  PROVE  Onto(g, ScrollDown(g, regionTop, regionBottom, count), rows, cols)
<1> DEFINE bottom == MinOf(regionBottom, g.rows - 1)
           n == MinOf(count, bottom - regionTop + 1)
           blanks == [i \in 1 .. n |-> NewRow(g.cols)]
           first == Scrollback(g) + regionTop
           last == Scrollback(g) + bottom + 1
           raw == SubSeq(g.raw, 1, first) \o blanks \o SubSeq(g.raw, first + 1, last - n)
                    \o SubSeq(g.raw, last + 1, Len(g.raw))
           shuffled == [Wrote(g, n) EXCEPT !.raw = raw]
<1>1. /\ g.raw \in Seq(Lines(cols)) /\ Len(g.raw) \in Nat /\ Len(g.raw) >= rows
      /\ g.rows = rows /\ g.cols = cols /\ g.cap \in Nat /\ g.writes \in Nat
      /\ Scrollback(g) = Len(g.raw) - rows /\ Scrollback(g) \in Nat
  BY BufferParts
<1>2. ScrollDown(g, regionTop, regionBottom, count) =
        IF regionTop > bottom \/ n = 0 THEN g ELSE MarkScrolled(shuffled, regionTop, bottom)
  <2>1. Wrote(g, n).raw = g.raw
    BY DEF Wrote, Buffers
  <2> QED BY <2>1 DEF ScrollDown
<1>3. bottom \in 0 .. rows - 1
  BY <1>1 DEF MinOf
<1>4. CASE regionTop > bottom \/ n = 0
  BY <1>2, <1>4, OntoSelf
<1>5. CASE ~(regionTop > bottom \/ n = 0)
  <2> HIDE DEF bottom
  <2>1. regionTop <= bottom
    BY <1>3, <1>5
  <2>2. n \in 1 .. bottom - regionTop + 1
    BY <1>3, <1>5, <2>1 DEF MinOf
  <2> HIDE DEF n
  <2>3. n \in Nat /\ n > 0
    BY <1>3, <2>2
  <2>4. blanks \in Seq(Lines(cols)) /\ Len(blanks) = n
    BY <1>1, <2>3, NewRowType, RepeatType
  <2> HIDE DEF blanks
  <2>6. /\ first \in Nat /\ last \in Nat /\ first <= last /\ last <= Len(g.raw)
        /\ first + n <= last
    BY <1>1, <1>3, <2>1, <2>2
  <2> DEFINE u == SubSeq(g.raw, first + 1, last - n)
  <2>7. u \in Seq(Lines(cols)) /\ Len(u) = last - first - n
    <3> HIDE DEF first, last
    <3>1. first + 1 \in Nat \ {0} /\ last - n \in Nat /\ last - n <= Len(g.raw)
      BY <1>1, <2>3, <2>6
    <3>2. u \in Seq(Lines(cols)) /\ Len(u) = IF first + 1 <= last - n THEN (last - n) - (first + 1) + 1 ELSE 0
      BY <1>1, <3>1, PartType
    <3> HIDE DEF u
    <3> QED BY <2>3, <2>6, <3>2
  <2>8. /\ raw \in Seq(Lines(cols)) /\ Len(raw) = Len(g.raw)
        /\ \A i \in 1 .. Len(g.raw) : i <= first \/ i > last => raw[i] = g.raw[i]
    <3> HIDE DEF first, last, u
    <3>1. Len(blanks) + Len(u) = last - first
      BY <2>3, <2>4, <2>6, <2>7
    <3>2. LET x == Splice(g.raw, blanks, u, first, last) IN
          /\ x \in Seq(Lines(cols)) /\ Len(x) = Len(g.raw)
          /\ \A i \in 1 .. Len(g.raw) : i <= first \/ i > last => x[i] = g.raw[i]
      <4>1. /\ g.raw \in Seq(Lines(cols)) /\ u \in Seq(Lines(cols)) /\ blanks \in Seq(Lines(cols))
            /\ first \in Nat /\ last \in Nat /\ first <= last /\ last <= Len(g.raw)
        BY <1>1, <2>4, <2>6, <2>7
      <4> QED BY <3>1, <4>1, Spliced
    <3> QED BY <3>2 DEF u, Splice
  <2> HIDE DEF raw
  <2>9. /\ shuffled \in Buffers(rows, cols) /\ shuffled.raw = raw /\ shuffled.rows = rows
        /\ shuffled.dirty = g.dirty /\ shuffled.writes = g.writes + n /\ shuffled.cap = g.cap
    <3>1. raw \in Seq(Lines(cols)) /\ Len(raw) >= rows
      BY <1>1, <2>8
    <3> QED BY <2>3, <3>1, Relined
  <2> HIDE DEF shuffled
  <2>10. shuffled.writes > g.writes
    BY <1>1, <2>3, <2>9
  <2>11. ASSUME NEW r \in 0 .. rows - 1, r \notin regionTop .. bottom
         PROVE  VisibleRow(shuffled, r) = VisibleRow(g, r)
    <3> DEFINE i == Scrollback(g) + r + 1
    <3>1. i \in 1 .. Len(g.raw)
      BY VisibleRowType
    <3>2. i <= first \/ i > last
      BY <1>1, <1>3, <2>11
    <3>3. raw[i] = g.raw[i]
      <4> HIDE DEF i, first, last
      <4> QED BY <2>8, <3>1, <3>2
    <3>4. Scrollback(shuffled) = Scrollback(g)
      BY <1>1, <2>8, <2>9 DEF Scrollback
    <3> QED BY <2>9, <3>3, <3>4 DEF VisibleRow
  <2>12. bottom \in Nat
    BY <1>3
  <2>13. Onto(g, MarkScrolled(shuffled, regionTop, bottom), rows, cols)
    BY <2>9, <2>10, <2>11, <2>12, ScrolledStep
  <2> QED BY <1>2, <1>5, <2>13
<1> QED BY <1>4, <1>5

\* A new buffer is blank, and its tally says so.
Fresh(g) == g.writes = 0 => \A i \in 1 .. Len(g.raw) : g.raw[i] = NewRow(g.cols)

\* A new buffer has its shape.
LEMMA NewGridType ==
  ASSUME NEW rows \in Nat \ {0}, NEW cols \in Nat \ {0}, NEW cap \in Nat
  PROVE  NewGrid(rows, cols, cap) \in Buffers(rows, cols) /\ Fresh(NewGrid(rows, cols, cap))
<1> DEFINE raw == [i \in 1 .. rows |-> NewRow(cols)]
           d == Clean(rows)
           g == [raw |-> raw, rows |-> rows, cols |-> cols, cap |-> cap,
                 dirty |-> d, writes |-> 0, evicted |-> 0]
<1>1. raw \in Seq(Lines(cols)) /\ Len(raw) = rows /\ \A i \in 1 .. rows : raw[i] = NewRow(cols)
  BY NewRowType, RepeatType
<1>2. d \in Dirt(rows)
  BY DEF Clean, Dirt
<1>3. NewGrid(rows, cols, cap) = g
  BY DEF NewGrid
<1> HIDE DEF raw, d
<1>4. g \in Buffers(rows, cols)
  BY <1>1, <1>2 DEF Buffers
<1>5. Fresh(g)
  BY <1>1 DEF Fresh
<1> QED BY <1>3, <1>4, <1>5

\* A renderer has drawn a buffer.
LEMMA TakeDirtyType ==
  ASSUME NEW rows \in Nat \ {0}, NEW cols \in Nat \ {0}, NEW g \in Buffers(rows, cols)
  PROVE  LET h == TakeDirty(g) IN
         /\ h \in Buffers(rows, cols) /\ h.raw = g.raw /\ h.writes = g.writes /\ h.cap = g.cap
         /\ h.rows = rows /\ h.cols = cols
<1> DEFINE d == Clean(g.rows)
<1>1. d \in Dirt(rows)
  <2>1. g.rows = rows
    BY BufferSize
  <2> QED BY <2>1 DEF Clean, Dirt
<1> HIDE DEF d
<1>2. TakeDirty(g) = [g EXCEPT !.dirty = d]
  BY DEF TakeDirty, d
<1> QED BY <1>1, <1>2 DEF Buffers

\* Buffers with the same lines show the same.
LEMMA SameView ==
  ASSUME NEW rows \in Nat \ {0}, NEW cols \in Nat \ {0}, NEW g \in Buffers(rows, cols),
         NEW h \in Buffers(rows, cols), h.raw = g.raw
  PROVE  /\ \A r \in 0 .. rows - 1 : VisibleRow(h, r) = VisibleRow(g, r)
         /\ Viewport(h) = Viewport(g) /\ Scrollback(h) = Scrollback(g)
<1>1. h.rows = rows /\ g.rows = rows
  BY BufferSize
<1>2. Scrollback(h) = Scrollback(g)
  BY <1>1 DEF Scrollback
<1>3. \A r \in 0 .. rows - 1 : VisibleRow(h, r) = VisibleRow(g, r)
  BY <1>2 DEF VisibleRow
<1>4. Viewport(h) = Viewport(g)
  BY <1>1, <1>3 DEF Viewport
<1> QED BY <1>2, <1>3, <1>4

\* The frame that is frozen shows what the buffer shows.
LEMMA PresentedViewportType ==
  ASSUME NEW rows \in Nat \ {0}, NEW cols \in Nat \ {0}, NEW g \in Buffers(rows, cols)
  PROVE  LET h == PresentedViewport(g) IN
         /\ h \in Buffers(rows, cols) /\ h.dirty = g.dirty
         /\ \A r \in 0 .. rows - 1 : VisibleRow(h, r) = VisibleRow(g, r)
<1> DEFINE n == Scrollback(g)
           d == DropFront(g, n)
           h == PresentedViewport(g)
<1>1. n \in Nat /\ n <= Len(g.raw) - rows /\ g.rows = rows /\ g.cap \in Nat
  BY BufferParts
<1>2. /\ d \in Buffers(rows, cols) /\ d.dirty = g.dirty
      /\ \A r \in 0 .. rows - 1 : VisibleRow(d, r) = VisibleRow(g, r)
  <2> HIDE DEF n
  <2> QED BY <1>1, DropFrontType
<1>3. h = [d EXCEPT !.cap = rows]
  BY <1>1 DEF PresentedViewport, DropFront, Buffers
<1> HIDE DEF d, h, n
<1>4. h \in Buffers(rows, cols) /\ h.dirty = d.dirty /\ h.raw = d.raw
  BY <1>2, <1>3 DEF Buffers
<1>5. \A r \in 0 .. rows - 1 : VisibleRow(h, r) = VisibleRow(d, r)
  BY <1>2, <1>4, SameView
<1> QED BY <1>2, <1>4, <1>5 DEF h

(***************************************************************************)
(* Resizing the alternate screen                                           *)
(***************************************************************************)

\* A set that holds 0 and with each number the next holds them all.
LEMMA Induct ==
  ASSUME NEW S, 0 \in S, \A n \in Nat : n \in S => n + 1 \in S
  PROVE  Nat \subseteq S
<1> DEFINE T == Nat \ S
           R == OpToRel(<, Nat)
<1> SUFFICES ASSUME T # {} PROVE FALSE
  OBVIOUS
<1>1. IsWellFoundedOn(R, Nat)
  BY NatLessThanWellFounded
<1>2. T \subseteq Nat
  OBVIOUS
<1>3. PICK x \in T : \A y \in T : ~ (<<y, x>> \in R)
  <2> HIDE DEF T, R
  <2> QED BY <1>1, <1>2, WFMin
<1>4. \A y \in T : ~(y < x)
  BY <1>3 DEF OpToRel
<1>5. x # 0 /\ x - 1 \in Nat /\ x - 1 < x
  BY <1>2
<1>6. x - 1 \in S
  BY <1>4, <1>5
<1> QED BY <1>5, <1>6

\* The last place of a kind.
LEMMA LastPlace ==
  ASSUME NEW n \in Nat, NEW P, P \subseteq 1 .. n, P # {}
  PROVE  (CHOOSE i \in P : \A j \in P : j <= i) \in P
<1> DEFINE Best(i) == \A j \in P : j <= i
           S == {m \in Nat : (\E i \in P : i <= m) => \E i \in P : i <= m /\ \A j \in P : j <= m => j <= i}
<1>1. 0 \in S
  OBVIOUS
<1>2. ASSUME NEW m \in Nat, m \in S PROVE m + 1 \in S
  <2>1. CASE m + 1 \in P
    <3>1. \A j \in P : j <= m + 1 => j <= m + 1
      OBVIOUS
    <3>2. m + 1 <= m + 1
      OBVIOUS
    <3>3. \E i \in P : i <= m + 1 /\ \A j \in P : j <= m + 1 => j <= i
      BY <2>1, <3>1, <3>2
    <3> QED BY <3>3
  <2>2. CASE m + 1 \notin P
    <3>1. \A j \in P : j <= m + 1 <=> j <= m
      BY <2>2
    <3> QED BY <1>2, <3>1
  <2> QED BY <2>1, <2>2
<1>3. Nat \subseteq S
  <2> HIDE DEF S
  <2> QED BY <1>1, <1>2, Induct
<1>4. \E i \in P : Best(i)
  <2>1. n \in S
    BY <1>3
  <2>2. \E i \in P : i <= n
    <3>1. PICK i \in P : i \in 1 .. n
      OBVIOUS
    <3> QED BY <3>1
  <2>3. PICK i \in P : i <= n /\ \A j \in P : j <= n => j <= i
    BY <2>1, <2>2
  <2>4. Best(i)
    BY <2>3
  <2> QED BY <2>4
<1> HIDE DEF Best
<1>5. (CHOOSE i \in P : Best(i)) \in P
  BY <1>4
<1> QED BY <1>5 DEF Best

\* No more rows are blank at the end than there are.
LEMMA TrailingBlanksType ==
  ASSUME NEW S, NEW raw \in Seq(S)
  PROVE  TrailingBlanks(raw) \in 0 .. Len(raw)
<1> DEFINE full == {i \in DOMAIN raw : ~IsBlankRow(raw[i])}
           last == CHOOSE i \in full : \A j \in full : j <= i
<1>1. full \subseteq 1 .. Len(raw) /\ Len(raw) \in Nat
  OBVIOUS
<1>2. TrailingBlanks(raw) = Len(raw) - (IF full = {} THEN 0 ELSE last)
  BY DEF TrailingBlanks
<1> HIDE DEF full
<1>3. full # {} => last \in full
  BY <1>1, LastPlace
<1> HIDE DEF last
<1>4. full # {} => last \in 1 .. Len(raw)
  BY <1>1, <1>3
<1> QED BY <1>1, <1>2, <1>4

\* Blank rows dropped at the end.
LEMMA DropBackType ==
  ASSUME NEW S, NEW raw \in Seq(S), NEW n \in 0 .. Len(raw)
  PROVE  /\ DropBack(raw, n) \in Seq(S) /\ Len(DropBack(raw, n)) = Len(raw) - n
         /\ \A i \in 1 .. Len(raw) - n : DropBack(raw, n)[i] = raw[i]
<1>1. Len(raw) - n \in Nat /\ Len(raw) - n <= Len(raw) /\ 1 \in Nat \ {0}
  OBVIOUS
<1> DEFINE m == Len(raw) - n
<1>2. /\ SubSeq(raw, 1, m) \in Seq(S) /\ Len(SubSeq(raw, 1, m)) = IF 1 <= m THEN m - 1 + 1 ELSE 0
      /\ \A i \in 1 .. m - 1 + 1 : SubSeq(raw, 1, m)[i] = raw[1 + i - 1]
  <2> HIDE DEF m
  <2> QED BY <1>1, PartType DEF m
<1>3. DropBack(raw, n) = SubSeq(raw, 1, m)
  BY DEF DropBack
<1>4. m \in Nat
  BY <1>1
<1> HIDE DEF m
<1>5. Len(SubSeq(raw, 1, m)) = m /\ \A i \in 1 .. m : SubSeq(raw, 1, m)[i] = raw[i]
  BY <1>2, <1>4
<1> QED BY <1>2, <1>3, <1>5 DEF m

\* Blank rows added at the end.
LEMMA PadToType ==
  ASSUME NEW cols \in Nat \ {0}, NEW raw \in Seq(Lines(cols)), NEW n \in Nat
  PROVE  LET x == PadTo(raw, n, cols) IN
         /\ x \in Seq(Lines(cols)) /\ Len(x) >= n /\ Len(x) >= Len(raw)
         /\ Len(raw) >= n => x = raw
         /\ \A i \in 1 .. Len(x) : x[i] = IF i <= Len(raw) THEN raw[i] ELSE NewRow(cols)
<1> DEFINE k == Less(n, Len(raw))
           pad == [i \in 1 .. k |-> NewRow(cols)]
           x == raw \o pad
<1>1. k \in Nat /\ Len(raw) \in Nat /\ Len(raw) + k >= n /\ (Len(raw) >= n => k = 0)
  BY DEF Less, MaxOf
<1>2. PadTo(raw, n, cols) = x
  BY DEF PadTo
<1> HIDE DEF k
<1>3. pad \in Seq(Lines(cols)) /\ Len(pad) = k /\ \A i \in 1 .. k : pad[i] = NewRow(cols)
  BY <1>1, NewRowType, RepeatType
<1> HIDE DEF pad
<1>4. /\ x \in Seq(Lines(cols)) /\ Len(x) = Len(raw) + Len(pad)
      /\ \A i \in 1 .. Len(raw) + Len(pad) : x[i] = IF i <= Len(raw) THEN raw[i] ELSE pad[i - Len(raw)]
  <2>1. pad \in Seq(Lines(cols))
    BY <1>3
  <2> QED BY <2>1, ConcatProperties
<1> HIDE DEF x
<1>5. ASSUME NEW i \in 1 .. Len(x) PROVE x[i] = IF i <= Len(raw) THEN raw[i] ELSE NewRow(cols)
  <2>1. i \in 1 .. Len(raw) + k
    BY <1>3, <1>4
  <2>2. ~(i <= Len(raw)) => i - Len(raw) \in 1 .. k
    BY <1>1, <2>1
  <2> QED BY <1>3, <1>4, <2>1, <2>2
<1>6. ASSUME Len(raw) >= n PROVE x = raw
  <2>1. Len(x) = Len(raw)
    BY <1>1, <1>3, <1>4, <1>6
  <2>2. \A i \in 1 .. Len(x) : x[i] = raw[i]
    BY <1>1, <1>5, <2>1
  <2>3. x \in Seq(Lines(cols))
    BY <1>4
  <2> QED BY <2>1, <2>2, <2>3, SeqEqual
<1>7. Len(x) >= n /\ Len(x) >= Len(raw)
  BY <1>1, <1>3, <1>4
<1> QED BY <1>2, <1>4, <1>5, <1>6, <1>7

\* A row of another width.
FitRow(row, cols) ==
  [row EXCEPT !.cells = Sanitize([i \in 0 .. cols - 1 |-> IF i \in DOMAIN @ THEN @[i] ELSE Blank])]

\* A row cut or padded to another width is a row of that width.
LEMMA FitRowType ==
  ASSUME NEW old \in Nat \ {0}, NEW cols \in Nat \ {0}, NEW row \in Lines(old)
  PROVE  /\ FitRow(row, cols) \in Lines(cols)
         /\ FitRow(row, cols) =
              [cells |-> Sanitize([i \in 0 .. cols - 1 |-> IF i \in DOMAIN row.cells THEN row.cells[i] ELSE Blank]),
               wrapped |-> row.wrapped]
<1> DEFINE cut == [i \in 0 .. cols - 1 |-> IF i \in DOMAIN row.cells THEN row.cells[i] ELSE Blank]
<1>1. row.cells \in [0 .. old - 1 -> Cells] /\ row.wrapped \in BOOLEAN
      /\ row = [cells |-> row.cells, wrapped |-> row.wrapped]
  BY DEF Lines, CellRows
<1>2. cut \in [0 .. cols - 1 -> Cells]
  BY <1>1, CellKinds
<1>3. Sanitize(cut) \in CellRows(cols)
  <2> HIDE DEF cut
  <2> QED BY <1>2, SanitizeType
<1>4. FitRow(row, cols) = [cells |-> Sanitize(cut), wrapped |-> row.wrapped]
  BY <1>1 DEF FitRow
<1>5. FitRow(row, cols) \in Lines(cols)
  <2> HIDE DEF cut
  <2> QED BY <1>1, <1>3, <1>4 DEF Lines
<1> QED BY <1>4, <1>5

\* A blank row stays one.
LEMMA FitBlank ==
  ASSUME NEW old \in Nat \ {0}, NEW cols \in Nat \ {0}
  PROVE  FitRow(NewRow(old), cols) = NewRow(cols)
<1> DEFINE new == NewRow(old)
           cut == [i \in 0 .. cols - 1 |-> IF i \in DOMAIN new.cells THEN new.cells[i] ELSE Blank]
           b == [i \in 0 .. cols - 1 |-> Blank]
<1>1. new \in Lines(old)
  BY NewRowType
<1>2. new = [cells |-> [i \in 0 .. old - 1 |-> Blank], wrapped |-> FALSE]
  BY DEF NewRow, RowOf
<1>3. cut = b /\ new.wrapped = FALSE
  BY <1>2
<1>4. Sanitize(b) = b
  BY CellKinds DEF Sanitize
<1>5. FitRow(new, cols) = [cells |-> Sanitize(cut), wrapped |-> new.wrapped]
  <2> HIDE DEF new
  <2> QED BY <1>1, FitRowType
<1>6. FitRow(new, cols) = [cells |-> b, wrapped |-> FALSE]
  <2> HIDE DEF new, cut, b
  <2> QED BY <1>3, <1>4, <1>5
<1> QED BY <1>6 DEF NewRow, RowOf

\* resize_canvas: any size to any other.  Marks follow a change of size, and
\* without one nothing changes.
LEMMA ResizeCanvasType ==
  ASSUME NEW rows \in Nat \ {0}, NEW cols \in Nat \ {0}, NEW g \in Buffers(rows, cols),
         NEW rows2 \in Nat \ {0}, NEW cols2 \in Nat \ {0}
  PROVE  LET h == ResizeCanvas(g, rows2, cols2) IN
         /\ h \in Buffers(rows2, cols2) /\ h.writes = g.writes /\ h.cap = g.cap
         /\ rows2 # rows \/ cols2 # cols => h.dirty.all
         /\ rows2 = rows /\ cols2 = cols => h.raw = g.raw /\ h.dirty = g.dirty
         /\ Fresh(g) => Fresh(h)
<1> DEFINE raw == IF cols2 = cols THEN g.raw ELSE [i \in 1 .. Len(g.raw) |-> FitRow(g.raw[i], cols2)]
           n == MinOf(Less(rows, rows2), TrailingBlanks(raw))
           kept == DropBack(raw, n)
           padded == PadTo(kept, rows2, cols2)
           d == IF rows2 = rows /\ cols2 = cols THEN g.dirty ELSE [Clean(rows2) EXCEPT !.all = TRUE]
           h == [g EXCEPT !.raw = padded, !.rows = rows2, !.cols = cols2, !.dirty = d]
<1>1. /\ g.raw \in Seq(Lines(cols)) /\ Len(g.raw) \in Nat /\ Len(g.raw) >= rows
      /\ g.rows = rows /\ g.cols = cols /\ g.dirty \in Dirt(rows) /\ DOMAIN g.raw = 1 .. Len(g.raw)
  BY BufferParts
<1>2. \A i \in 1 .. Len(g.raw) : g.raw[i] \in Lines(cols)
  BY <1>1, ElementOfSeq
<1>3. raw \in Seq(Lines(cols2)) /\ Len(raw) = Len(g.raw)
  <2>1. CASE cols2 = cols
    BY <1>1, <2>1
  <2>2. CASE cols2 # cols
    <3>1. raw \in [1 .. Len(g.raw) -> Lines(cols2)]
      BY <1>2, <2>2, FitRowType
    <3> HIDE DEF raw
    <3> QED BY <1>1, <3>1, MappedType
  <2> QED BY <2>1, <2>2
<1>4. ASSUME \A i \in 1 .. Len(g.raw) : g.raw[i] = NewRow(cols)
      PROVE  \A i \in 1 .. Len(g.raw) : raw[i] = NewRow(cols2)
  <2>1. CASE cols2 = cols
    BY <1>4, <2>1
  <2>2. CASE cols2 # cols
    <3>1. \A i \in 1 .. Len(g.raw) : raw[i] = FitRow(g.raw[i], cols2)
      BY <2>2
    <3>2. FitRow(NewRow(cols), cols2) = NewRow(cols2)
      BY FitBlank
    <3> HIDE DEF raw
    <3> QED BY <1>4, <3>1, <3>2
  <2> QED BY <2>1, <2>2
<1>5. ResizeCanvas(g, rows2, cols2) = h
  BY <1>1 DEF ResizeCanvas, FitRow
<1>6. rows2 = rows /\ cols2 = cols => raw = g.raw
  OBVIOUS
<1> HIDE DEF raw
<1>7. n \in 0 .. Len(raw) /\ (rows2 = rows => n = 0)
  <2>1. TrailingBlanks(raw) \in 0 .. Len(raw) /\ Len(raw) \in Nat
    BY <1>3, TrailingBlanksType
  <2> QED BY <2>1 DEF MinOf, Less, MaxOf
<1> HIDE DEF n
<1>8. /\ kept \in Seq(Lines(cols2)) /\ Len(kept) = Len(raw) - n
      /\ \A i \in 1 .. Len(raw) - n : kept[i] = raw[i]
  BY <1>3, <1>7, DropBackType
<1> HIDE DEF kept
<1>9. n = 0 => kept = raw
  <2> SUFFICES ASSUME n = 0 PROVE kept = raw
    OBVIOUS
  <2>1. Len(raw) \in Nat /\ Len(raw) - 0 = Len(raw)
    BY <1>1, <1>3
  <2>2. Len(kept) = Len(raw) /\ \A i \in 1 .. Len(kept) : kept[i] = raw[i]
    BY <1>8, <2>1
  <2>3. kept \in Seq(Lines(cols2)) /\ raw \in Seq(Lines(cols2))
    BY <1>3, <1>8
  <2> QED BY <2>2, <2>3, SeqEqual
<1>10. /\ padded \in Seq(Lines(cols2)) /\ Len(padded) >= rows2
       /\ Len(kept) >= rows2 => padded = kept
       /\ \A i \in 1 .. Len(padded) : padded[i] = IF i <= Len(kept) THEN kept[i] ELSE NewRow(cols2)
  <2>1. kept \in Seq(Lines(cols2)) /\ rows2 \in Nat
    BY <1>8
  <2> QED BY <2>1, PadToType
<1> HIDE DEF padded
<1>11. d \in Dirt(rows2) /\ (rows2 # rows \/ cols2 # cols => d.all)
       /\ (rows2 = rows /\ cols2 = cols => d = g.dirty)
  <2>1. Clean(rows2) \in Dirt(rows2)
    BY DEF Clean, Dirt
  <2>2. [Clean(rows2) EXCEPT !.all = TRUE] \in Dirt(rows2) /\ [Clean(rows2) EXCEPT !.all = TRUE].all
    BY <2>1 DEF Dirt
  <2> QED BY <1>1, <2>2
<1> HIDE DEF d
<1>12. /\ h \in Buffers(rows2, cols2) /\ h.writes = g.writes /\ h.cap = g.cap
       /\ h.dirty = d /\ h.raw = padded /\ h.cols = cols2
  BY <1>10, <1>11 DEF Buffers
<1> HIDE DEF h
<1>13. ASSUME rows2 = rows, cols2 = cols PROVE h.raw = g.raw
  <2>1. kept = g.raw
    BY <1>6, <1>7, <1>9, <1>13
  <2> QED BY <1>1, <1>10, <1>12, <1>13, <2>1
<1>14. ASSUME Fresh(g) PROVE Fresh(h)
  <2> SUFFICES ASSUME g.writes = 0, NEW i \in 1 .. Len(padded) PROVE padded[i] = NewRow(cols2)
    BY <1>12 DEF Fresh
  <2>1. \A j \in 1 .. Len(g.raw) : raw[j] = NewRow(cols2)
    BY <1>1, <1>4, <1>14 DEF Fresh
  <2>2. CASE i <= Len(kept)
    <3>1. i \in 1 .. Len(raw) - n /\ i \in 1 .. Len(g.raw)
      BY <1>1, <1>3, <1>7, <1>8, <2>2
    <3> QED BY <1>8, <1>10, <2>1, <2>2, <3>1
  <2>3. CASE ~(i <= Len(kept))
    BY <1>10, <2>3
  <2> QED BY <2>2, <2>3
<1> QED BY <1>5, <1>11, <1>12, <1>13, <1>14

(***************************************************************************)
(* Rewrapping the primary screen                                           *)
(***************************************************************************)

\* A function defined by its first value and a step exists.
Steps(f, n, b, step) == f[0] = b /\ \A i \in 1 .. n : f[i] = step[<<f[i - 1], i>>]

\* A function defined by steps over 1 .. n exists.
LEMMA RecursionExists ==
  ASSUME NEW S, NEW n \in Nat, NEW b \in S, NEW step \in [S \X (1 .. n) -> S]
  PROVE  \E f \in [0 .. n -> S] : Steps(f, n, b, step)
<1> DEFINE Is(f, m) == f[0] = b /\ \A i \in 1 .. m : f[i] = step[<<f[i - 1], i>>]
           T == {m \in Nat : m <= n => \E f \in [0 .. m -> S] : Is(f, m)}
<1>1. 0 \in T
  <2> DEFINE f == [i \in 0 .. 0 |-> b]
  <2>1. f \in [0 .. 0 -> S] /\ Is(f, 0)
    OBVIOUS
  <2> HIDE DEF f, Is
  <2> QED BY <2>1
<1>2. ASSUME NEW m \in Nat, m \in T PROVE m + 1 \in T
  <2> SUFFICES ASSUME m + 1 <= n PROVE \E f \in [0 .. m + 1 -> S] : Is(f, m + 1)
    <3> HIDE DEF Is
    <3> QED OBVIOUS
  <2>1. PICK f \in [0 .. m -> S] : Is(f, m)
    <3> HIDE DEF Is
    <3> QED BY <1>2
  <2> DEFINE g == [i \in 0 .. m + 1 |-> IF i = m + 1 THEN step[<<f[m], m + 1>>] ELSE f[i]]
  <2>2. f[m] \in S /\ m + 1 \in 1 .. n
    OBVIOUS
  <2>3. step[<<f[m], m + 1>>] \in S
    BY <2>2
  <2>4. g \in [0 .. m + 1 -> S]
    BY <2>3
  <2>5. ASSUME NEW i \in 1 .. m + 1 PROVE g[i] = step[<<g[i - 1], i>>]
    <3>1. CASE i = m + 1
      <4>1. m \in 0 .. m + 1 /\ m # m + 1 /\ m + 1 \in 0 .. m + 1 /\ i - 1 = m
        BY <3>1
      <4>2. g[m + 1] = step[<<f[m], m + 1>>] /\ g[m] = f[m]
        BY <4>1
      <4> QED BY <3>1, <4>1, <4>2
    <3>2. CASE i # m + 1
      <4>1. i \in 1 .. m /\ i - 1 \in 0 .. m /\ i \in 0 .. m + 1 /\ i - 1 \in 0 .. m + 1 /\ i - 1 # m + 1
        BY <3>2
      <4>2. g[i] = f[i] /\ g[i - 1] = f[i - 1]
        BY <3>2, <4>1
      <4>3. f[i] = step[<<f[i - 1], i>>]
        BY <2>1, <4>1
      <4> QED BY <4>2, <4>3
    <3> QED BY <3>1, <3>2
  <2>6. g[0] = b
    BY <2>1
  <2>7. Is(g, m + 1)
    BY <2>5, <2>6
  <2> HIDE DEF g, Is
  <2> QED BY <2>4, <2>7
<1>3. Nat \subseteq T
  <2> HIDE DEF T
  <2> QED BY <1>1, <1>2, Induct
<1>4. \E f \in [0 .. n -> S] : Is(f, n)
  <2> HIDE DEF Is
  <2>1. n \in T /\ n <= n
    BY <1>3
  <2> QED BY <2>1
<1> QED BY <1>4 DEF Steps

\* What each step keeps, every value has.
LEMMA Carried ==
  ASSUME NEW S, NEW n \in Nat, NEW f, f[0] \in S,
         \A i \in 1 .. n : f[i - 1] \in S => f[i] \in S
  PROVE  \A i \in 0 .. n : f[i] \in S
<1> DEFINE T == {m \in Nat : m <= n => f[m] \in S}
<1>1. 0 \in T
  OBVIOUS
<1>2. ASSUME NEW m \in Nat, m \in T PROVE m + 1 \in T
  <2> SUFFICES ASSUME m + 1 <= n PROVE f[m + 1] \in S
    OBVIOUS
  <2>1. m + 1 \in 1 .. n /\ (m + 1) - 1 = m /\ f[m] \in S
    BY <1>2
  <2>2. f[(m + 1) - 1] \in S
    BY <2>1
  <2> QED BY <2>1, <2>2
<1>3. Nat \subseteq T
  <2> HIDE DEF T
  <2> QED BY <1>1, <1>2, Induct
<1> QED BY <1>3

\* The cells of a line as a sequence.
LEMMA CellSeqType ==
  ASSUME NEW cols \in Nat \ {0}, NEW row \in Lines(cols), NEW n \in Nat
  PROVE  CellSeq(row, n) \in Seq(Cells)
<1>1. row.cells \in [0 .. cols - 1 -> Cells] /\ ColsOf(row) = 0 .. cols - 1
  BY DEF Lines, CellRows, ColsOf
<1>2. Cardinality(0 .. cols - 1) = cols
  BY FS_Interval
<1> DEFINE m == MinOf(n, Cardinality(ColsOf(row)))
<1>3. m \in Nat /\ m <= cols
  BY <1>1, <1>2 DEF MinOf
<1>4. CellSeq(row, n) = [i \in 1 .. m |-> row.cells[i - 1]]
  BY DEF CellSeq
<1> HIDE DEF m
<1>5. \A i \in 1 .. m : i - 1 \in 0 .. cols - 1
  BY <1>3
<1>6. [i \in 1 .. m |-> row.cells[i - 1]] \in [1 .. m -> Cells]
  BY <1>1, <1>5
<1> QED BY <1>3, <1>4, <1>6, MappedType

\* The columns of a line are a number.
LEMMA WidthOfType ==
  ASSUME NEW cells \in Seq(Cells)
  PROVE  WidthOf(cells) \in Nat
<1>1. IsFiniteSet(DOMAIN cells)
  <2>1. DOMAIN cells = 1 .. Len(cells) /\ Len(cells) \in Nat /\ 1 \in Int /\ Len(cells) \in Int
    OBVIOUS
  <2>2. IsFiniteSet(1 .. Len(cells))
    BY <2>1, FS_Interval
  <2> QED BY <2>1, <2>2
<1>2. \A T \in SUBSET DOMAIN cells : Cardinality(T) \in Nat
  BY <1>1, FS_Subset, FS_CardinalityType
<1>3. /\ {i \in DOMAIN cells : cells[i] # Tail2} \in SUBSET DOMAIN cells
      /\ {i \in DOMAIN cells : cells[i] \in Wide} \in SUBSET DOMAIN cells
  OBVIOUS
<1>4. Cardinality({i \in DOMAIN cells : cells[i] # Tail2}) \in Nat
  BY <1>2, <1>3
<1>5. Cardinality({i \in DOMAIN cells : cells[i] \in Wide}) \in Nat
  BY <1>2, <1>3
<1> QED BY <1>4, <1>5 DEF WidthOf

\* A line without its trailing blanks is a line.
LEMMA TrimBlanksType ==
  ASSUME NEW cells \in Seq(Cells)
  PROVE  TrimBlanks(cells) \in Seq(Cells)
<1> DEFINE full == {i \in DOMAIN cells : cells[i] # Blank}
           last == CHOOSE i \in full : \A j \in full : j <= i
           m == IF full = {} THEN 0 ELSE last
<1>1. full \subseteq 1 .. Len(cells) /\ Len(cells) \in Nat
  OBVIOUS
<1>2. TrimBlanks(cells) = SubSeq(cells, 1, m)
  BY DEF TrimBlanks
<1> HIDE DEF full
<1>3. full # {} => last \in full
  BY <1>1, LastPlace
<1> HIDE DEF last
<1>4. full # {} => last \in 1 .. Len(cells)
  BY <1>1, <1>3
<1>5. m \in Nat /\ m <= Len(cells) /\ 1 \in Nat \ {0}
  BY <1>1, <1>4
<1> HIDE DEF m
<1> QED BY <1>2, <1>5, PartType

\* The lines joined so far, the line in the making and the anchor.
Joins2 == [lines : Seq(Seq(Cells)), line : Seq(Cells), anchor : Nat \X Nat]

\* Joining one more row keeps the lines and the anchor of resize_reflowing_columns.
LEMMA JoinRowType ==
  ASSUME NEW rows \in Nat \ {0}, NEW cols \in Nat \ {0}, NEW g \in Buffers(rows, cols),
         NEW cursor, cursor.row \in Nat, cursor.col \in Nat,
         NEW acc \in Joins2, NEW i \in 1 .. Len(g.raw)
  PROVE  JoinRow(g, cursor, acc, i) \in Joins2
<1> DEFINE row == g.raw[i]
           cells == CellSeq(row, g.cols)
           tail == IF row.wrapped THEN cells ELSE TrimBlanks(cells)
           line == acc.line \o tail
           lines == IF row.wrapped THEN acc.lines ELSE Append(acc.lines, line)
           rest == IF row.wrapped THEN line ELSE <<>>
           anchor == IF i = Scrollback(g) + cursor.row + 1
                     THEN <<Len(acc.lines) + 1, WidthOf(acc.line) + WidthOf(CellSeq(row, cursor.col))>>
                     ELSE acc.anchor
<1>1. g.raw \in Seq(Lines(cols)) /\ g.cols = cols
  BY BufferParts
<1>2. row \in Lines(cols)
  BY <1>1, ElementOfSeq
<1>3. acc.lines \in Seq(Seq(Cells)) /\ acc.line \in Seq(Cells) /\ acc.anchor \in Nat \X Nat
  BY DEF Joins2
<1>4. JoinRow(g, cursor, acc, i) = [lines |-> lines, line |-> rest, anchor |-> anchor]
  BY DEF JoinRow
<1> HIDE DEF row
<1>5. cells \in Seq(Cells) /\ CellSeq(row, cursor.col) \in Seq(Cells)
  <2>1. cols \in Nat
    OBVIOUS
  <2> QED BY <1>1, <1>2, <2>1, CellSeqType
<1> HIDE DEF cells
<1>6. tail \in Seq(Cells)
  BY <1>5, TrimBlanksType
<1> HIDE DEF tail
<1>7. line \in Seq(Cells)
  BY <1>3, <1>6, ConcatProperties
<1> HIDE DEF line
<1>8. lines \in Seq(Seq(Cells))
  BY <1>3, <1>7, AppendProperties
<1>9. rest \in Seq(Cells)
  BY <1>7, EmptySeq
<1>10. anchor \in Nat \X Nat
  <2>1. Len(acc.lines) \in Nat /\ WidthOf(acc.line) \in Nat /\ WidthOf(CellSeq(row, cursor.col)) \in Nat
    <3>1. WidthOf(acc.line) \in Nat
      BY <1>3, WidthOfType
    <3>2. WidthOf(CellSeq(row, cursor.col)) \in Nat
      BY <1>5, WidthOfType
    <3>3. Len(acc.lines) \in Nat
      BY <1>3
    <3> QED BY <3>1, <3>2, <3>3
  <2> QED BY <1>3, <2>1
<1> HIDE DEF lines, rest, anchor
<1> QED BY <1>4, <1>8, <1>9, <1>10 DEF Joins2

\* The logical lines of a buffer, and the anchor of the cursor among them.
LEMMA LogicalLinesType ==
  ASSUME NEW rows \in Nat \ {0}, NEW cols \in Nat \ {0}, NEW g \in Buffers(rows, cols),
         NEW cursor, cursor.row \in Nat, cursor.col \in Nat
  PROVE  /\ LogicalLines(g, cursor).lines \in Seq(Seq(Cells))
         /\ LogicalLines(g, cursor).anchor \in Nat \X Nat
<1> DEFINE n == Len(g.raw)
           b == [lines |-> <<>>, line |-> <<>>, anchor |-> <<1, 0>>]
           Is(f) == f = [i \in 0 .. n |-> IF i = 0 THEN b ELSE JoinRow(g, cursor, f[i - 1], i)]
           step == [p \in Joins2 \X (1 .. n) |-> JoinRow(g, cursor, p[1], p[2])]
           J == JoinedRows(g, cursor)
<1>1. n \in Nat
  BY BufferParts
<1>2. b \in Joins2
  <2>1. <<>> \in Seq(Seq(Cells)) /\ <<>> \in Seq(Cells) /\ <<1, 0>> \in Nat \X Nat
    BY EmptySeq
  <2> QED BY <2>1 DEF Joins2
<1> HIDE DEF b
<1>3. \A acc \in Joins2 : \A i \in 1 .. n : JoinRow(g, cursor, acc, i) \in Joins2
  BY JoinRowType
<1> HIDE DEF n
<1>4. step \in [Joins2 \X (1 .. n) -> Joins2]
  BY <1>3
<1> HIDE DEF step
<1>4a. PICK f \in [0 .. n -> Joins2] : Steps(f, n, b, step)
  BY <1>1, <1>2, <1>4, RecursionExists
<1>5. f[0] = b /\ \A i \in 1 .. n : f[i] = step[<<f[i - 1], i>>]
  BY <1>4a DEF Steps
<1>6. Is(f)
  <2>1. ASSUME NEW i \in 0 .. n PROVE f[i] = IF i = 0 THEN b ELSE JoinRow(g, cursor, f[i - 1], i)
    <3>1. CASE i = 0
      BY <1>5, <3>1
    <3>2. CASE i # 0
      <4>1. i \in 1 .. n /\ i - 1 \in 0 .. n
        BY <1>1, <3>2
      <4>2. f[i - 1] \in Joins2
        BY <4>1
      <4>3. step[<<f[i - 1], i>>] = JoinRow(g, cursor, f[i - 1], i)
        BY <4>1, <4>2 DEF step
      <4> QED BY <1>5, <3>2, <4>1, <4>3
    <3> QED BY <3>1, <3>2
  <2> QED BY <2>1
<1>7. J = CHOOSE x : Is(x)
  BY DEF JoinedRows, b, n
<1>8. Is(J)
  <2> HIDE DEF Is, J
  <2> QED BY <1>6, <1>7
<1> HIDE DEF J
<1>9. J[0] = b /\ \A i \in 1 .. n : J[i] = JoinRow(g, cursor, J[i - 1], i)
  <2>1. \A i \in 0 .. n : J[i] = IF i = 0 THEN b ELSE JoinRow(g, cursor, J[i - 1], i)
    BY <1>8
  <2>2. \A i \in 1 .. n : i \in 0 .. n /\ i # 0
    BY <1>1
  <2>3. 0 \in 0 .. n
    BY <1>1
  <2> QED BY <2>1, <2>2, <2>3
<1>10. \A i \in 1 .. n : J[i - 1] \in Joins2 => J[i] \in Joins2
  BY <1>3, <1>9
<1>11. J[0] \in Joins2
  BY <1>2, <1>9
<1>12. \A i \in 0 .. n : J[i] \in Joins2
  BY <1>1, <1>10, <1>11, Carried
<1>13. J[n] \in Joins2
  BY <1>1, <1>12
<1> DEFINE all == J[n]
           more == IF all.line = <<>> THEN all.lines ELSE Append(all.lines, all.line)
<1>14. LogicalLines(g, cursor) = [all EXCEPT !.lines = more]
  BY DEF LogicalLines, J, n
<1>15. all \in Joins2
  BY <1>13
<1> HIDE DEF all
<1>16. all.lines \in Seq(Seq(Cells)) /\ all.line \in Seq(Cells) /\ all.anchor \in Nat \X Nat
  BY <1>15 DEF Joins2
<1>17. more \in Seq(Seq(Cells))
  BY <1>16, AppendProperties
<1> HIDE DEF more
<1> QED BY <1>14, <1>15, <1>16, <1>17 DEF Joins2

\* Where the characters of a line went.
Places == Seq([off : Nat, row : Nat, col : Nat, w : Nat])

\* A line in the making: from its column on, its last row is blank.
Placing(cols) ==
  {a \in [rows : Seq(Lines(cols)), row : Lines(cols), col : 0 .. cols, off : Nat, at : Places] :
     \A i \in 0 .. cols - 1 : i >= a.col => a.row.cells[i] = Blank}

\* A character is put where there is room for it.
PutAt(to, c, cols) ==
  LET w == MaxOf(Width(c), 1)
      shown == IF w > cols THEN 1 ELSE w
  IN  [to EXCEPT
        !.row.cells = [i \in DOMAIN @ |->
           IF i = to.col THEN IF w > cols THEN Blank ELSE c
           ELSE IF i = to.col + 1 /\ shown = 2 THEN Tail2 ELSE @[i]],
        !.col = @ + shown,
        !.off = @ + w,
        !.at = Append(@, [off |-> to.off, row |-> Len(to.rows), col |-> to.col, w |-> shown])]

\* A character takes two columns or one.
LEMMA WidthKinds ==
  \A c \in Cells : c # Tail2 =>
    /\ MaxOf(Width(c), 1) = IF c \in Wide THEN 2 ELSE 1
BY CellKinds DEF Width, MaxOf

\* A character put where it has room leaves no half of another.
LEMMA PutAtType ==
  ASSUME NEW cols \in Nat \ {0}, NEW to \in Placing(cols), NEW c \in Cells, c # Tail2,
         to.col + (IF MaxOf(Width(c), 1) > cols THEN 1 ELSE MaxOf(Width(c), 1)) <= cols
  PROVE  PutAt(to, c, cols) \in Placing(cols)
<1> DEFINE w == MaxOf(Width(c), 1)
           shown == IF w > cols THEN 1 ELSE w
           old == to.row.cells
           cells == [i \in 0 .. cols - 1 |->
             IF i = to.col THEN IF w > cols THEN Blank ELSE c
             ELSE IF i = to.col + 1 /\ shown = 2 THEN Tail2 ELSE old[i]]
           row == [to.row EXCEPT !.cells = cells]
           col == to.col + shown
           off == to.off + w
           place == [off |-> to.off, row |-> Len(to.rows), col |-> to.col, w |-> shown]
           at == Append(to.at, place)
<1>1. /\ to.rows \in Seq(Lines(cols)) /\ to.row \in Lines(cols) /\ to.col \in 0 .. cols /\ to.off \in Nat
      /\ to.at \in Places /\ \A i \in 0 .. cols - 1 : i >= to.col => old[i] = Blank
  BY DEF Placing
<1>2. old \in [0 .. cols - 1 -> Cells] /\ Paired(old)
  BY <1>1 DEF Lines, CellRows
<1>3. PutAt(to, c, cols) = [to EXCEPT !.row = row, !.col = col, !.off = off, !.at = at]
  <2>1. DOMAIN old = 0 .. cols - 1
    BY <1>2
  <2>2. [i \in DOMAIN old |->
           IF i = to.col THEN IF w > cols THEN Blank ELSE c
           ELSE IF i = to.col + 1 /\ shown = 2 THEN Tail2 ELSE old[i]] = cells
    BY <2>1
  <2> HIDE DEF cells
  <2> QED BY <2>2 DEF PutAt
<1>4. w = (IF c \in Wide THEN 2 ELSE 1) /\ to.col + shown <= cols
  BY WidthKinds
<1> HIDE DEF w, old
<1>5. shown \in {1, 2} /\ (shown = 2 <=> c \in Wide /\ w <= cols) /\ (w > cols <=> c \in Wide /\ cols = 1)
  BY <1>4
<1>6. cells \in [0 .. cols - 1 -> Cells]
  BY <1>2, CellKinds
<1>7. /\ shown = 2 => to.col \in 0 .. cols - 1 /\ to.col + 1 \in 0 .. cols - 1
      /\ to.col \in 0 .. cols - 1
  BY <1>1, <1>4, <1>5
<1>8. to.col - 1 \in 0 .. cols - 1 => old[to.col - 1] \notin Wide
  BY <1>1, <1>2, <1>7, CellKinds DEF Paired
<1> HIDE DEF shown
<1>9. Paired(cells)
  <2> SUFFICES ASSUME NEW k \in 0 .. cols - 1
               PROVE  /\ cells[k] \in Wide => k + 1 \in 0 .. cols - 1 /\ cells[k + 1] = Tail2
                      /\ cells[k] = Tail2 => k - 1 \in 0 .. cols - 1 /\ cells[k - 1] \in Wide
    BY DEF Paired
  <2>1. CASE k < to.col
    <3>1. cells[k] = old[k]
      BY <1>1, <2>1
    <3>2. ASSUME old[k] \in Wide PROVE k + 1 \in 0 .. cols - 1 /\ cells[k + 1] = Tail2
      <4>1. k + 1 \in 0 .. cols - 1 /\ old[k + 1] = Tail2
        BY <1>2, <3>2 DEF Paired
      <4>2. k + 1 < to.col
        BY <1>1, <1>8, <2>1, <3>2
      <4> QED BY <1>1, <4>1, <4>2
    <3>3. ASSUME old[k] = Tail2 PROVE k - 1 \in 0 .. cols - 1 /\ cells[k - 1] \in Wide
      <4>1. k - 1 \in 0 .. cols - 1 /\ old[k - 1] \in Wide
        BY <1>2, <3>3 DEF Paired
      <4> QED BY <1>1, <2>1, <4>1
    <3> QED BY <3>1, <3>2, <3>3
  <2>2. CASE k = to.col
    <3>1. cells[k] = IF w > cols THEN Blank ELSE c
      BY <2>2
    <3>2. c \in Wide /\ ~(w > cols) => k + 1 \in 0 .. cols - 1 /\ cells[k + 1] = Tail2
      BY <1>4, <1>5, <1>7, <2>2
    <3> QED BY <3>1, <3>2, CellKinds
  <2>3. CASE k = to.col + 1 /\ shown = 2
    <3>1. cells[k] = Tail2 /\ k - 1 = to.col /\ c \in Wide /\ ~(w > cols)
      BY <1>1, <1>4, <1>5, <2>3
    <3>2. cells[k - 1] \in Wide /\ k - 1 \in 0 .. cols - 1
      BY <1>7, <2>3, <3>1
    <3> QED BY <3>1, <3>2, CellKinds
  <2>4. CASE k > to.col /\ ~(k = to.col + 1 /\ shown = 2)
    <3>1. cells[k] = Blank
      BY <1>1, <2>4
    <3> QED BY <3>1, CellKinds
  <2> QED BY <1>1, <2>1, <2>2, <2>3, <2>4
<1>10. \A i \in 0 .. cols - 1 : i >= col => cells[i] = Blank
  BY <1>1, <1>5
<1> HIDE DEF cells
<1>11. row \in Lines(cols) /\ row.cells = cells
  <2>1. cells \in CellRows(cols)
    BY <1>6, <1>9 DEF CellRows
  <2> QED BY <1>1, <2>1 DEF Lines
<1>12. col \in 0 .. cols /\ off \in Nat
  BY <1>1, <1>4, <1>5
<1>13. at \in Places
  <2>1. Len(to.rows) \in Nat /\ to.col \in Nat /\ shown \in Nat
    BY <1>1, <1>5
  <2>2. place \in [off : Nat, row : Nat, col : Nat, w : Nat]
    BY <1>1, <2>1
  <2> HIDE DEF place
  <2> QED BY <1>1, <2>2, AppendProperties DEF Places
<1> DEFINE new == [to EXCEPT !.row = row, !.col = col, !.off = off, !.at = at]
<1> HIDE DEF row, col, off, at
<1>14. new \in [rows : Seq(Lines(cols)), row : Lines(cols), col : 0 .. cols, off : Nat, at : Places]
       /\ new.row = row /\ new.col = col
  BY <1>11, <1>12, <1>13 DEF Placing
<1> HIDE DEF new
<1>15. new \in Placing(cols)
  BY <1>10, <1>11, <1>14 DEF Placing
<1> QED BY <1>3, <1>15 DEF new

\* append_reflowed_line puts one more character, on a new row when it has no room.
LEMMA PlaceCellType ==
  ASSUME NEW cols \in Nat \ {0}, NEW acc \in Placing(cols), NEW c \in Cells
  PROVE  PlaceCell(acc, c, cols) \in Placing(cols)
<1> DEFINE w == MaxOf(Width(c), 1)
           shown == IF w > cols THEN 1 ELSE w
           full == [acc.row EXCEPT !.wrapped = TRUE]
           broken == [acc EXCEPT !.rows = Append(@, full), !.row = NewRow(cols), !.col = 0]
<1>1. PlaceCell(acc, c, cols) = IF c = Tail2 THEN acc
                                ELSE IF acc.col + shown <= cols THEN PutAt(acc, c, cols)
                                ELSE PutAt(broken, c, cols)
  BY DEF PlaceCell, PutAt
<1>2. CASE c = Tail2
  BY <1>1, <1>2
<1>3. CASE c # Tail2 /\ acc.col + shown <= cols
  <2>1. PutAt(acc, c, cols) \in Placing(cols)
    BY <1>3, PutAtType
  <2> QED BY <1>1, <1>3, <2>1
<1>4. CASE c # Tail2 /\ ~(acc.col + shown <= cols)
  <2>1. acc.rows \in Seq(Lines(cols)) /\ acc.row \in Lines(cols)
    BY DEF Placing
  <2>2. full \in Lines(cols)
    BY <2>1 DEF Lines
  <2> HIDE DEF full
  <2> DEFINE more == Append(acc.rows, full)
  <2>3. more \in Seq(Lines(cols))
    BY <2>1, <2>2, AppendProperties
  <2> HIDE DEF more
  <2> DEFINE blank == NewRow(cols)
  <2>4. blank \in Lines(cols) /\ \A i \in 0 .. cols - 1 : blank.cells[i] = Blank
    BY NewRowType DEF NewRow, RowOf
  <2> HIDE DEF blank
  <2>5. broken = [acc EXCEPT !.rows = more, !.row = blank, !.col = 0]
    BY DEF more, blank
  <2> HIDE DEF broken
  <2>6. broken \in [rows : Seq(Lines(cols)), row : Lines(cols), col : 0 .. cols, off : Nat, at : Places]
        /\ broken.row = blank /\ broken.col = 0
    <3>1. acc \in [rows : Seq(Lines(cols)), row : Lines(cols), col : 0 .. cols, off : Nat, at : Places]
      BY DEF Placing
    <3>2. 0 \in 0 .. cols /\ blank \in Lines(cols)
      BY <2>4
    <3> QED BY <2>3, <2>5, <3>1, <3>2
  <2>7. broken \in Placing(cols)
    BY <2>4, <2>6 DEF Placing
  <2>8. broken.col + shown <= cols
    BY <1>4, <2>6, WidthKinds
  <2>9. PutAt(broken, c, cols) \in Placing(cols)
    BY <1>4, <2>7, <2>8, PutAtType
  <2> QED BY <1>1, <1>4, <2>9
<1> QED BY <1>2, <1>3, <1>4

\* Laying a line out adds rows of the new width after the ones there are.
LEMMA PlacedCellsType ==
  ASSUME NEW cols \in Nat \ {0}, NEW rows \in Seq(Lines(cols)), NEW line \in Seq(Cells)
  PROVE  PlacedCells(rows, line, cols)[Len(line)] \in Placing(cols)
<1> DEFINE n == Len(line)
           b == [rows |-> rows, row |-> NewRow(cols), col |-> 0, off |-> 0, at |-> <<>>]
           S == Placing(cols)
           Is(f) == f = [i \in 0 .. n |-> IF i = 0 THEN b ELSE PlaceCell(f[i - 1], line[i], cols)]
           step == [p \in S \X (1 .. n) |-> PlaceCell(p[1], line[p[2]], cols)]
           J == PlacedCells(rows, line, cols)
<1>1. n \in Nat
  OBVIOUS
<1>2. b \in S
  <2> DEFINE blank == NewRow(cols)
  <2>1. blank \in Lines(cols) /\ \A i \in 0 .. cols - 1 : blank.cells[i] = Blank
    BY NewRowType DEF NewRow, RowOf
  <2> HIDE DEF blank
  <2>2. <<>> \in Places
    BY EmptySeq DEF Places
  <2>3. 0 \in 0 .. cols /\ 0 \in Nat
    OBVIOUS
  <2>4. [rows |-> rows, row |-> blank, col |-> 0, off |-> 0, at |-> <<>>]
          \in [rows : Seq(Lines(cols)), row : Lines(cols), col : 0 .. cols, off : Nat, at : Places]
    BY <2>1, <2>2, <2>3
  <2> QED BY <2>1, <2>4 DEF Placing, blank
<1> HIDE DEF b
<1>3. \A acc \in S : \A i \in 1 .. n : PlaceCell(acc, line[i], cols) \in S
  <2>1. \A i \in 1 .. n : line[i] \in Cells
    BY ElementOfSeq
  <2> QED BY <2>1, PlaceCellType
<1> HIDE DEF n, S
<1>4. step \in [S \X (1 .. n) -> S]
  BY <1>3
<1> HIDE DEF step
<1>4a. PICK f \in [0 .. n -> S] : Steps(f, n, b, step)
  BY <1>1, <1>2, <1>4, RecursionExists
<1>5. f[0] = b /\ \A i \in 1 .. n : f[i] = step[<<f[i - 1], i>>]
  BY <1>4a DEF Steps
<1>6. Is(f)
  <2>1. ASSUME NEW i \in 0 .. n PROVE f[i] = IF i = 0 THEN b ELSE PlaceCell(f[i - 1], line[i], cols)
    <3>1. CASE i = 0
      BY <1>5, <3>1
    <3>2. CASE i # 0
      <4>1. i \in 1 .. n /\ i - 1 \in 0 .. n
        BY <1>1, <3>2
      <4>2. f[i - 1] \in S
        BY <4>1
      <4>3. step[<<f[i - 1], i>>] = PlaceCell(f[i - 1], line[i], cols)
        BY <4>1, <4>2 DEF step
      <4> QED BY <1>5, <3>2, <4>1, <4>3
    <3> QED BY <3>1, <3>2
  <2> QED BY <2>1
<1>7. J = CHOOSE x : Is(x)
  BY DEF PlacedCells, b, n
<1>8. Is(J)
  <2> HIDE DEF Is, J
  <2> QED BY <1>6, <1>7
<1> HIDE DEF J
<1>9. J[0] = b /\ \A i \in 1 .. n : J[i] = PlaceCell(J[i - 1], line[i], cols)
  <2>1. \A i \in 0 .. n : J[i] = IF i = 0 THEN b ELSE PlaceCell(J[i - 1], line[i], cols)
    BY <1>8
  <2>2. \A i \in 1 .. n : i \in 0 .. n /\ i # 0
    BY <1>1
  <2>3. 0 \in 0 .. n
    BY <1>1
  <2> QED BY <2>1, <2>2, <2>3
<1>10. \A i \in 1 .. n : J[i - 1] \in S => J[i] \in S
  BY <1>3, <1>9
<1>11. J[0] \in S
  BY <1>2, <1>9
<1>12. \A i \in 0 .. n : J[i] \in S
  BY <1>1, <1>10, <1>11, Carried
<1>13. J[n] \in S
  BY <1>1, <1>12
<1> QED BY <1>13 DEF J, n, S

\* The rows of one line laid out at another width.
LEMMA LayoutType ==
  ASSUME NEW cols \in Nat \ {0}, NEW rows \in Seq(Lines(cols)), NEW line \in Seq(Cells)
  PROVE  /\ Layout(rows, line, cols).rows \in Seq(Lines(cols))
         /\ Layout(rows, line, cols).at \in Places
         /\ Layout(rows, line, cols).end \in Nat \X Nat
<1> DEFINE done == PlacedCells(rows, line, cols)[Len(line)]
           all == Append(done.rows, done.row)
           end == <<Len(done.rows), MinOf(done.col, cols - 1)>>
<1>1. done \in Placing(cols)
  BY PlacedCellsType
<1>2. Layout(rows, line, cols) = [rows |-> all, at |-> done.at, end |-> end]
  BY DEF Layout
<1> HIDE DEF done
<1>3. done.rows \in Seq(Lines(cols)) /\ done.row \in Lines(cols) /\ done.col \in 0 .. cols /\ done.at \in Places
  BY <1>1 DEF Placing
<1>4. all \in Seq(Lines(cols))
  BY <1>3, AppendProperties
<1>5. Len(done.rows) \in Nat /\ MinOf(done.col, cols - 1) \in Nat
  BY <1>3 DEF MinOf
<1> HIDE DEF all
<1> QED BY <1>2, <1>3, <1>4, <1>5

\* position_for_offset: a row and a column.
LEMMA PositionOfType ==
  ASSUME NEW laid, laid.at \in Places, laid.end \in Nat \X Nat,
         NEW offset \in Nat, NEW width \in Nat, NEW start \in Nat
  PROVE  PositionOf(laid, offset, width, start) \in Nat \X Nat
<1> DEFINE hits == {k \in DOMAIN laid.at :
                      laid.at[k].off <= offset /\ offset < laid.at[k].off + laid.at[k].w}
           k0 == CHOOSE k \in hits : TRUE
           p == laid.at[k0]
<1>1. PositionOf(laid, offset, width, start) =
        IF offset >= width THEN laid.end ELSE IF hits = {} THEN <<start, 0>> ELSE <<p.row, p.col + offset - p.off>>
  BY DEF PositionOf
<1>2. ASSUME hits # {} PROVE <<p.row, p.col + offset - p.off>> \in Nat \X Nat
  <2>1. k0 \in hits
    <3> HIDE DEF hits
    <3> QED BY <1>2
  <2>2. k0 \in DOMAIN laid.at /\ p.off <= offset
    BY <2>1
  <2>3. DOMAIN laid.at = 1 .. Len(laid.at)
    BY DEF Places
  <2> HIDE DEF k0
  <2>4. p \in [off : Nat, row : Nat, col : Nat, w : Nat]
    BY <2>2, <2>3, ElementOfSeq DEF Places
  <2> HIDE DEF p
  <2>5. p.off \in Nat /\ p.row \in Nat /\ p.col \in Nat
    BY <2>4
  <2>6. p.col + offset - p.off \in Nat
    BY <2>2, <2>5
  <2> QED BY <2>5, <2>6
<1> HIDE DEF hits, p
<1>3. <<start, 0>> \in Nat \X Nat
  OBVIOUS
<1> QED BY <1>1, <1>2, <1>3

\* The rows laid out so far, and where the cursor went.
Laid(cols) == [rows : Seq(Lines(cols)), pos : Nat \X Nat]

LayStep(split, acc, k, cols) == LayLine(split, acc, k, Layout(acc.rows, split.lines[k], cols))

\* Laying out one more line.
LEMMA LayStepType ==
  ASSUME NEW cols \in Nat \ {0}, NEW split, split.lines \in Seq(Seq(Cells)), split.anchor \in Nat \X Nat,
         NEW acc \in Laid(cols), NEW k \in 1 .. Len(split.lines)
  PROVE  LayStep(split, acc, k, cols) \in Laid(cols)
<1> DEFINE line == split.lines[k]
           laid == Layout(acc.rows, line, cols)
           at == PositionOf(laid, split.anchor[2], WidthOf(line), Len(acc.rows))
           pos == IF k = split.anchor[1] THEN at ELSE acc.pos
<1>1. line \in Seq(Cells) /\ acc.rows \in Seq(Lines(cols)) /\ acc.pos \in Nat \X Nat
  BY ElementOfSeq DEF Laid
<1>2. LayStep(split, acc, k, cols) = [rows |-> laid.rows, pos |-> pos]
  BY DEF LayStep, LayLine
<1> HIDE DEF line
<1>3. laid.rows \in Seq(Lines(cols)) /\ laid.at \in Places /\ laid.end \in Nat \X Nat
  BY <1>1, LayoutType
<1> HIDE DEF laid
<1>4. WidthOf(line) \in Nat /\ Len(acc.rows) \in Nat /\ split.anchor[2] \in Nat
  <2>1. WidthOf(line) \in Nat
    BY <1>1, WidthOfType
  <2> QED BY <1>1, <2>1
<1>5. at \in Nat \X Nat
  BY <1>3, <1>4, PositionOfType
<1> HIDE DEF at
<1> QED BY <1>1, <1>2, <1>3, <1>5 DEF Laid

\* The rows of all lines laid out at another width.
LEMMA LayLinesType ==
  ASSUME NEW cols \in Nat \ {0}, NEW split, split.lines \in Seq(Seq(Cells)), split.anchor \in Nat \X Nat
  PROVE  LayLines(split, cols) \in Laid(cols)
<1> DEFINE n == Len(split.lines)
           b == [rows |-> <<>>, pos |-> <<0, 0>>]
           S == Laid(cols)
           Is(f) == f = [i \in 0 .. n |-> IF i = 0 THEN b ELSE LayStep(split, f[i - 1], i, cols)]
           step == [p \in S \X (1 .. n) |-> LayStep(split, p[1], p[2], cols)]
           J == LaidLines(split, cols)
<1>1. n \in Nat
  OBVIOUS
<1>2. b \in S
  <2>1. <<>> \in Seq(Lines(cols)) /\ <<0, 0>> \in Nat \X Nat
    BY EmptySeq
  <2> QED BY <2>1 DEF Laid
<1> HIDE DEF b
<1>3. \A acc \in S : \A i \in 1 .. n : LayStep(split, acc, i, cols) \in S
  BY LayStepType
<1> HIDE DEF n, S
<1>4. step \in [S \X (1 .. n) -> S]
  BY <1>3
<1> HIDE DEF step
<1>4a. PICK f \in [0 .. n -> S] : Steps(f, n, b, step)
  BY <1>1, <1>2, <1>4, RecursionExists
<1>5. f[0] = b /\ \A i \in 1 .. n : f[i] = step[<<f[i - 1], i>>]
  BY <1>4a DEF Steps
<1>6. Is(f)
  <2>1. ASSUME NEW i \in 0 .. n PROVE f[i] = IF i = 0 THEN b ELSE LayStep(split, f[i - 1], i, cols)
    <3>1. CASE i = 0
      BY <1>5, <3>1
    <3>2. CASE i # 0
      <4>1. i \in 1 .. n /\ i - 1 \in 0 .. n
        BY <1>1, <3>2
      <4>2. f[i - 1] \in S
        BY <4>1
      <4>3. step[<<f[i - 1], i>>] = LayStep(split, f[i - 1], i, cols)
        BY <4>1, <4>2 DEF step
      <4> QED BY <1>5, <3>2, <4>1, <4>3
    <3> QED BY <3>1, <3>2
  <2> QED BY <2>1
<1>7. J = CHOOSE x : Is(x)
  BY DEF LaidLines, LayStep, b, n
<1>8. Is(J)
  <2> HIDE DEF Is, J
  <2> QED BY <1>6, <1>7
<1> HIDE DEF J
<1>9. J[0] = b /\ \A i \in 1 .. n : J[i] = LayStep(split, J[i - 1], i, cols)
  <2>1. \A i \in 0 .. n : J[i] = IF i = 0 THEN b ELSE LayStep(split, J[i - 1], i, cols)
    BY <1>8
  <2>2. \A i \in 1 .. n : i \in 0 .. n /\ i # 0
    BY <1>1
  <2>3. 0 \in 0 .. n
    BY <1>1
  <2> QED BY <2>1, <2>2, <2>3
<1>10. \A i \in 1 .. n : J[i - 1] \in S => J[i] \in S
  BY <1>3, <1>9
<1>11. J[0] \in S
  BY <1>2, <1>9
<1>12. \A i \in 0 .. n : J[i] \in S
  BY <1>1, <1>10, <1>11, Carried
<1>13. J[n] \in S
  BY <1>1, <1>12
<1> QED BY <1>13 DEF J, n, S, LayLines

\* The trim of trailing blank rows leaves a full screen.
LEMMA KeepRowsType ==
  ASSUME NEW rows \in Nat \ {0}, NEW cols \in Nat \ {0}, NEW g \in Buffers(rows, cols),
         NEW S, NEW padded \in Seq(S), NEW rows2 \in Nat \ {0}, Len(padded) >= rows2
  PROVE  KeepRows(g, padded, rows2) \in Seq(S) /\ Len(KeepRows(g, padded, rows2)) >= rows2
<1> DEFINE len == Len(padded)
           keep == MinOf(Scrollback(g), g.cap) + rows2
           n == MinOf(Less(len, keep), TrailingBlanks(padded))
<1>1. len \in Nat /\ TrailingBlanks(padded) \in 0 .. len
  BY TrailingBlanksType
<1>2. keep \in Nat /\ keep >= rows2
  BY BufferParts DEF MinOf
<1>3. KeepRows(g, padded, rows2) = DropBack(padded, n)
  BY DEF KeepRows
<1> HIDE DEF keep
<1>4. n \in 0 .. len /\ len - n >= rows2
  <2> HIDE DEF len
  <2>1. PICK t \in 0 .. len : TrailingBlanks(padded) = t
    BY <1>1
  <2>2. len >= rows2
    BY DEF len
  <2> QED BY <1>1, <1>2, <2>1, <2>2 DEF MinOf, Less, MaxOf
<1> HIDE DEF n
<1> QED BY <1>3, <1>4, DropBackType

\* visible_cursor_from_abs puts the cursor on the screen.
LEMMA VisibleCursorType ==
  ASSUME NEW rows \in Nat \ {0}, NEW cols \in Nat \ {0}, NEW g \in Buffers(rows, cols),
         NEW abs \in Nat, NEW col \in Nat
  PROVE  /\ VisibleCursor(g, abs, col).row \in 0 .. rows - 1
         /\ VisibleCursor(g, abs, col).col \in 0 .. cols - 1
         /\ \A r \in 0 .. rows - 1 : abs = Scrollback(g) + r => VisibleCursor(g, abs, col).row = r
         /\ col \in 0 .. cols - 1 => VisibleCursor(g, abs, col).col = col
<1>1. g.rows = rows /\ g.cols = cols /\ Scrollback(g) \in Nat
  BY BufferParts
<1>2. PICK s \in Nat : Scrollback(g) = s
  BY <1>1
<1>3. VisibleCursor(g, abs, col) = [row |-> MinOf(Less(abs, s), rows - 1), col |-> MinOf(col, cols - 1)]
  BY <1>1, <1>2 DEF VisibleCursor
<1>4. MinOf(Less(abs, s), rows - 1) \in 0 .. rows - 1 /\ MinOf(col, cols - 1) \in 0 .. cols - 1
  BY DEF MinOf, Less, MaxOf
<1>5. \A r \in 0 .. rows - 1 : abs = s + r => MinOf(Less(abs, s), rows - 1) = r
  BY DEF MinOf, Less, MaxOf
<1>6. col \in 0 .. cols - 1 => MinOf(col, cols - 1) = col
  BY DEF MinOf
<1> QED BY <1>2, <1>3, <1>4, <1>5, <1>6

\* What a resize promises.
ResizedTo(x, g, cursor, rows, cols, rows2, cols2) ==
  /\ x.grid \in Buffers(rows2, cols2) /\ x.grid.writes = g.writes /\ x.grid.cap = g.cap
  /\ x.cursor.row \in 0 .. rows2 - 1 /\ x.cursor.col \in 0 .. cols2 - 1
  /\ rows2 # rows \/ cols2 # cols => x.grid.dirty.all
  /\ rows2 = rows /\ cols2 = cols =>
       /\ x.grid.raw = g.raw /\ x.grid.dirty = g.dirty
       /\ x.cursor.row = cursor.row /\ x.cursor.col = cursor.col

\* The rows kept make a buffer of the new size, with the cursor on it.
LEMMA TakeRowsType ==
  ASSUME NEW rows \in Nat \ {0}, NEW cols \in Nat \ {0}, NEW g \in Buffers(rows, cols),
         NEW rows2 \in Nat \ {0}, NEW cols2 \in Nat \ {0}, NEW kept \in Seq(Lines(cols2)),
         Len(kept) >= rows2, NEW pos \in Nat \X Nat, NEW cursor, cols2 # cols
  PROVE  ResizedTo(TakeRows(g, kept, pos, rows2, cols2), g, cursor, rows, cols, rows2, cols2)
<1> DEFINE len == Len(kept)
           lost == Less(len, rows2 + g.cap)
           part == SubSeq(kept, lost + 1, len)
           gone == g.evicted + lost
           d == [Clean(rows2) EXCEPT !.all = TRUE]
           new == [g EXCEPT !.raw = part, !.evicted = gone, !.rows = rows2, !.cols = cols2, !.dirty = d]
           abs == Less(pos[1], lost)
           at == VisibleCursor(new, abs, pos[2])
<1>1. len \in Nat /\ len >= rows2 /\ g.cap \in Nat /\ g.evicted \in Nat
  BY BufferParts
<1>2. TakeRows(g, kept, pos, rows2, cols2) = [grid |-> new, cursor |-> at]
  BY DEF TakeRows
<1>3. lost \in 0 .. len /\ len - lost >= rows2
  <2> HIDE DEF len
  <2> QED BY <1>1 DEF Less, MaxOf
<1> HIDE DEF lost
<1>4. part \in Seq(Lines(cols2)) /\ Len(part) >= rows2
  <2>1. lost + 1 \in Nat \ {0} /\ len \in Nat /\ len <= Len(kept)
    BY <1>1, <1>3
  <2>2. part \in Seq(Lines(cols2)) /\ Len(part) = IF lost + 1 <= len THEN len - (lost + 1) + 1 ELSE 0
    BY <2>1, PartType
  <2> HIDE DEF part, len
  <2> QED BY <1>1, <1>3, <2>2
<1> HIDE DEF part
<1>5. d \in Dirt(rows2) /\ d.all
  <2>1. Clean(rows2) \in Dirt(rows2)
    BY DEF Clean, Dirt
  <2> QED BY <2>1 DEF Dirt
<1> HIDE DEF d
<1>6. gone \in Nat
  BY <1>1, <1>3
<1> HIDE DEF gone
<1>7. new \in Buffers(rows2, cols2) /\ new.writes = g.writes /\ new.cap = g.cap /\ new.dirty = d
  BY <1>4, <1>5, <1>6 DEF Buffers
<1> HIDE DEF new
<1>8. abs \in Nat /\ pos[2] \in Nat
  <2>1. PICK p \in Nat : pos[1] = p
    OBVIOUS
  <2> QED BY <1>3, <2>1 DEF Less, MaxOf
<1> HIDE DEF abs
<1>9. at.row \in 0 .. rows2 - 1 /\ at.col \in 0 .. cols2 - 1
  <2>1. PICK q \in Nat : pos[2] = q
    BY <1>8
  <2>2. new \in Buffers(rows2, cols2) /\ abs \in Nat
    BY <1>7, <1>8
  <2>3. VisibleCursor(new, abs, q).row \in 0 .. rows2 - 1 /\ VisibleCursor(new, abs, q).col \in 0 .. cols2 - 1
    BY <2>2, VisibleCursorType
  <2> QED BY <2>1, <2>3
<1> HIDE DEF at
<1> QED BY <1>2, <1>5, <1>7, <1>9 DEF ResizedTo

\* resize_reflowing_columns makes a buffer of the new size, with the cursor on it.
LEMMA ReflowType ==
  ASSUME NEW rows \in Nat \ {0}, NEW cols \in Nat \ {0}, NEW g \in Buffers(rows, cols),
         NEW rows2 \in Nat \ {0}, NEW cols2 \in Nat \ {0}, cols2 # cols,
         NEW cursor, cursor.row \in Nat, cursor.col \in Nat
  PROVE  ResizedTo(Reflow(g, rows2, cols2, cursor), g, cursor, rows, cols, rows2, cols2)
<1> DEFINE split == LogicalLines(g, cursor)
           laid == LayLines(split, cols2)
           padded == PadTo(laid.rows, rows2, cols2)
           kept == KeepRows(g, padded, rows2)
<1>1. Reflow(g, rows2, cols2, cursor) = TakeRows(g, kept, laid.pos, rows2, cols2)
  BY DEF Reflow
<1>2. split.lines \in Seq(Seq(Cells)) /\ split.anchor \in Nat \X Nat
  BY LogicalLinesType
<1> HIDE DEF split
<1>3. laid \in Laid(cols2)
  BY <1>2, LayLinesType
<1> HIDE DEF laid
<1>4. laid.rows \in Seq(Lines(cols2)) /\ laid.pos \in Nat \X Nat
  BY <1>3 DEF Laid
<1>5. padded \in Seq(Lines(cols2)) /\ Len(padded) >= rows2
  <2>1. rows2 \in Nat
    OBVIOUS
  <2> QED BY <1>4, <2>1, PadToType
<1> HIDE DEF padded
<1>6. kept \in Seq(Lines(cols2)) /\ Len(kept) >= rows2
  BY <1>5, KeepRowsType
<1> HIDE DEF kept
<1>7. ResizedTo(TakeRows(g, kept, laid.pos, rows2, cols2), g, cursor, rows, cols, rows2, cols2)
  BY <1>4, <1>6, TakeRowsType
<1> QED BY <1>1, <1>7

\* resize_with_cursor: any size to any other, and the cursor on the screen.
LEMMA ResizeWithCursorType ==
  ASSUME NEW rows \in Nat \ {0}, NEW cols \in Nat \ {0}, NEW g \in Buffers(rows, cols),
         NEW rows2 \in Nat \ {0}, NEW cols2 \in Nat \ {0},
         NEW cursor, cursor.row \in 0 .. rows - 1, cursor.col \in 0 .. cols - 1
  PROVE  ResizedTo(ResizeWithCursor(g, rows2, cols2, cursor), g, cursor, rows, cols, rows2, cols2)
<1>0. g.cols = cols /\ Scrollback(g) \in Nat
  BY BufferParts
<1>1. CASE cols2 # cols
  <2>1. ResizeWithCursor(g, rows2, cols2, cursor) = Reflow(g, rows2, cols2, cursor)
    BY <1>0, <1>1 DEF ResizeWithCursor
  <2>2. cursor.row \in Nat /\ cursor.col \in Nat
    OBVIOUS
  <2>3. ResizedTo(Reflow(g, rows2, cols2, cursor), g, cursor, rows, cols, rows2, cols2)
    BY <1>1, <2>2, ReflowType
  <2> QED BY <2>1, <2>3
<1>2. CASE cols2 = cols
  <2> DEFINE new == ResizeCanvas(g, rows2, cols2)
             abs == Scrollback(g) + cursor.row
             at == VisibleCursor(new, abs, cursor.col)
  <2>1. ResizeWithCursor(g, rows2, cols2, cursor) = [grid |-> new, cursor |-> at]
    BY <1>0, <1>2 DEF ResizeWithCursor
  <2>2. /\ new \in Buffers(rows2, cols2) /\ new.writes = g.writes /\ new.cap = g.cap
        /\ rows2 # rows \/ cols2 # cols => new.dirty.all
        /\ rows2 = rows /\ cols2 = cols => new.raw = g.raw /\ new.dirty = g.dirty
    BY ResizeCanvasType
  <2> HIDE DEF new
  <2>3. abs \in Nat /\ cursor.col \in Nat
    BY <1>0
  <2>4. /\ at.row \in 0 .. rows2 - 1 /\ at.col \in 0 .. cols2 - 1
        /\ \A r \in 0 .. rows2 - 1 : abs = Scrollback(new) + r => at.row = r
        /\ cursor.col \in 0 .. cols2 - 1 => at.col = cursor.col
    <3> HIDE DEF abs
    <3>1. PICK q \in Nat : cursor.col = q
      BY <2>3
    <3>2. new \in Buffers(rows2, cols2) /\ abs \in Nat
      BY <2>2, <2>3
    <3> DEFINE v == VisibleCursor(new, abs, q)
    <3>3. v.row \in 0 .. rows2 - 1 /\ v.col \in 0 .. cols2 - 1
      BY <3>2, VisibleCursorType
    <3>4. ASSUME NEW r \in 0 .. rows2 - 1, abs = Scrollback(new) + r PROVE v.row = r
      BY <3>2, <3>4, VisibleCursorType
    <3>5. q \in 0 .. cols2 - 1 => v.col = q
      BY <3>2, VisibleCursorType
    <3> HIDE DEF v
    <3> QED BY <3>1, <3>3, <3>4, <3>5 DEF v
  <2>5. ASSUME rows2 = rows PROVE at.row = cursor.row /\ at.col = cursor.col
    <3>1. Scrollback(new) = Scrollback(g)
      BY <1>2, <2>2, <2>5, SameView
    <3> HIDE DEF at
    <3> QED BY <1>2, <2>4, <2>5, <3>1
  <2> HIDE DEF at
  <2> QED BY <2>1, <2>2, <2>4, <2>5 DEF ResizedTo
<1> QED BY <1>1, <1>2

(***************************************************************************)
(* The terminal                                                            *)
(***************************************************************************)

Colors == {"default", "dark"}
Saves == [row : Nat, col : Nat, pending : BOOLEAN, origin : BOOLEAN]
Cursors(rows, cols) ==
  [row : 0 .. rows - 1, col : 0 .. cols - 1, pending : BOOLEAN, visible : BOOLEAN, saved : Saves \cup {None}]
Modes == [origin : BOOLEAN, wrap : BOOLEAN, insert : BOOLEAN, newline : BOOLEAN, alt : BOOLEAN]
Snapshots(rows, cols) == [grid : Buffers(rows, cols), history : Nat, evicted : Nat]
Spots(rows, cols) == (0 .. rows - 1) \X (0 .. cols - 1)

Vts(rows, cols) ==
  [grid : Buffers(rows, cols), cursor : Cursors(rows, cols),
   stash : Buffers(rows, cols) \cup {None}, stashCursor : Cursors(rows, cols) \cup {None},
   spare : Buffers(rows, cols) \cup {None}, modes : Modes, top : 0 .. rows - 1, bottom : 0 .. rows - 1,
   active : Spots(rows, cols) \cup {None}, color : Colors, armed : BOOLEAN,
   frozenGrid : Snapshots(rows, cols) \cup {None}, frozenCursor : Cursors(rows, cols) \cup {None},
   frozenColor : Colors \cup {None}, frozenAlt : BOOLEAN \cup {None},
   flooded : BOOLEAN, hidden : BOOLEAN, revision : Nat]

\* What only a swap, a window, a reset or a resize changes.
Keeps(t, u) ==
  /\ u.stash = t.stash /\ u.stashCursor = t.stashCursor /\ u.spare = t.spare /\ u.armed = t.armed
  /\ u.frozenColor = t.frozenColor /\ u.frozenAlt = t.frozenAlt /\ u.color = t.color
  /\ u.flooded = t.flooded /\ u.hidden = t.hidden /\ u.revision = t.revision
  /\ u.modes.alt = t.modes.alt

\* What printing and moving leave alone besides.
Holds(t, u) == u.modes = t.modes /\ u.top = t.top /\ u.bottom = t.bottom /\ u.active = t.active

\* What an edit of the live screen does: the buffer and what is presented of
\* it change with their marks.
Draws(t, u, rows, cols) ==
  /\ u \in Vts(rows, cols) /\ Keeps(t, u)
  /\ Onto(t.grid, u.grid, rows, cols)
  /\ Dirties(ShownGrid(t), ShownGrid(u))
  /\ ~t.armed => u.frozenGrid = t.frozenGrid /\ u.frozenCursor = t.frozenCursor
  /\ t.top <= t.bottom => u.top <= u.bottom

\* The buffer presented is one of the size of the screen.
LEMMA ShownType ==
  ASSUME NEW rows \in Nat \ {0}, NEW cols \in Nat \ {0}, NEW t \in Vts(rows, cols)
  PROVE  ShownGrid(t) \in Buffers(rows, cols)
<1>1. t.grid \in Buffers(rows, cols) /\ t.frozenGrid \in Snapshots(rows, cols) \cup {None}
  BY DEF Vts
<1>2. t.frozenGrid # None => t.frozenGrid.grid \in Buffers(rows, cols)
  BY <1>1 DEF Snapshots
<1> QED BY <1>1, <1>2 DEF ShownGrid

\* A snapshot shows what its buffer shows.
LEMMA SnapshotType ==
  ASSUME NEW rows \in Nat \ {0}, NEW cols \in Nat \ {0}, NEW g \in Buffers(rows, cols)
  PROVE  Snapshot(g) \in Snapshots(rows, cols) /\ Snapshot(g).grid = PresentedViewport(g)
<1> DEFINE p == PresentedViewport(g)
<1>1. p \in Buffers(rows, cols)
  BY PresentedViewportType
<1>2. Scrollback(g) \in Nat /\ g.evicted \in Nat
  BY BufferParts
<1>3. Snapshot(g) = [grid |-> p, history |-> Scrollback(g), evicted |-> g.evicted]
  BY DEF Snapshot
<1> HIDE DEF p
<1> QED BY <1>1, <1>2, <1>3 DEF Snapshots, p

\* Marks carry over from one buffer to the next.
LEMMA DirtiesThen ==
  ASSUME NEW rows \in Nat \ {0}, NEW cols \in Nat \ {0}, NEW g \in Buffers(rows, cols),
         NEW h \in Buffers(rows, cols), NEW k \in Buffers(rows, cols), Dirties(g, h), Dirties(h, k)
  PROVE  Dirties(g, k)
<1>1. g.rows = rows /\ h.rows = rows /\ g.cols = cols /\ h.cols = cols
  BY BufferParts
<1> QED BY <1>1 DEF Dirties

\* Buffers with the same marks and the same screen differ in nothing unmarked.
LEMMA DirtiesSame ==
  ASSUME NEW rows \in Nat \ {0}, NEW cols \in Nat \ {0}, NEW g \in Buffers(rows, cols),
         NEW h \in Buffers(rows, cols), h.dirty = g.dirty,
         \A r \in 0 .. rows - 1 : VisibleRow(h, r) = VisibleRow(g, r)
  PROVE  Dirties(g, h)
<1>1. g.rows = rows /\ g.cols = cols
  BY BufferParts
<1> QED BY <1>1 DEF Dirties, IsDirtyCell

\* Another live buffer: what is presented changes with its marks, whether the
\* buffer is presented, frozen already or frozen now.
LEMMA PutGridShows ==
  ASSUME NEW rows \in Nat \ {0}, NEW cols \in Nat \ {0}, NEW t \in Vts(rows, cols),
         NEW g \in Buffers(rows, cols), Dirties(t.grid, g)
  PROVE  LET u == PutGrid(t, g) IN
         /\ u \in Vts(rows, cols) /\ Keeps(t, u) /\ Holds(t, u) /\ u.grid = g /\ u.cursor = t.cursor
         /\ Dirties(ShownGrid(t), ShownGrid(u)) /\ u.frozenCursor = t.frozenCursor
         /\ ~t.armed => u.frozenGrid = t.frozenGrid
<1> DEFINE f == IF t.armed /\ t.frozenGrid = None THEN Snapshot(t.grid) ELSE t.frozenGrid
           u == [t EXCEPT !.grid = g, !.frozenGrid = f]
<1>1. PutGrid(t, g) = u
  BY DEF PutGrid, Vts
<1>2. /\ t.grid \in Buffers(rows, cols) /\ t.frozenGrid \in Snapshots(rows, cols) \cup {None}
      /\ g \in Buffers(rows, cols) /\ t.armed \in BOOLEAN
  BY DEF Vts
<1>3. f \in Snapshots(rows, cols) \cup {None}
  BY <1>2, SnapshotType
<1>4. ~t.armed => f = t.frozenGrid
  OBVIOUS
<1>5. f = t.frozenGrid \/ (t.frozenGrid = None /\ f = Snapshot(t.grid))
  OBVIOUS
<1> HIDE DEF f
<1>6. /\ u \in Vts(rows, cols) /\ Keeps(t, u) /\ Holds(t, u) /\ u.grid = g /\ u.cursor = t.cursor
      /\ u.frozenGrid = f /\ u.frozenCursor = t.frozenCursor
  <2>1. u \in Vts(rows, cols)
    BY <1>2, <1>3 DEF Vts
  <2>2. Keeps(t, u)
    BY DEF Vts, Keeps
  <2>3. Holds(t, u) /\ u.grid = g /\ u.cursor = t.cursor /\ u.frozenGrid = f /\ u.frozenCursor = t.frozenCursor
    BY DEF Vts, Holds
  <2> QED BY <2>1, <2>2, <2>3
<1> HIDE DEF u
<1>7. Dirties(ShownGrid(t), ShownGrid(u))
  <2>1. Dirties(t.grid, g)
    OBVIOUS
  <2>2. CASE f # t.frozenGrid /\ f # None
    <3>1. ShownGrid(t) = t.grid /\ ShownGrid(u) = PresentedViewport(t.grid)
      BY <1>2, <1>5, <1>6, <2>2, SnapshotType DEF ShownGrid
    <3>2. /\ PresentedViewport(t.grid) \in Buffers(rows, cols) /\ PresentedViewport(t.grid).dirty = t.grid.dirty
          /\ \A r \in 0 .. rows - 1 : VisibleRow(PresentedViewport(t.grid), r) = VisibleRow(t.grid, r)
      BY <1>2, PresentedViewportType
    <3>3. Dirties(t.grid, PresentedViewport(t.grid))
      BY <1>2, <3>2, DirtiesSame
    <3> QED BY <3>1, <3>3
  <2>3. CASE f = t.frozenGrid \/ f = None
    <3>1. CASE t.frozenGrid = None
      BY <1>6, <2>1, <2>3, <3>1 DEF ShownGrid
    <3>2. CASE t.frozenGrid # None
      <4>1. ShownGrid(u) = ShownGrid(t)
        BY <1>5, <1>6, <3>2 DEF ShownGrid
      <4> QED BY <4>1 DEF Dirties
    <3> QED BY <3>1, <3>2
  <2> QED BY <2>2, <2>3
<1> QED BY <1>1, <1>4, <1>6, <1>7

\* A write to the live buffer.
LEMMA PutGridStep ==
  ASSUME NEW rows \in Nat \ {0}, NEW cols \in Nat \ {0}, NEW t \in Vts(rows, cols),
         NEW g, Onto(t.grid, g, rows, cols)
  PROVE  LET u == PutGrid(t, g) IN
         Draws(t, u, rows, cols) /\ Holds(t, u) /\ u.grid = g /\ u.cursor = t.cursor
<1> DEFINE u == PutGrid(t, g)
<1>1. g \in Buffers(rows, cols) /\ Dirties(t.grid, g)
  BY DEF Onto
<1>2. /\ u \in Vts(rows, cols) /\ Keeps(t, u) /\ Holds(t, u) /\ u.grid = g /\ u.cursor = t.cursor
      /\ Dirties(ShownGrid(t), ShownGrid(u)) /\ u.frozenCursor = t.frozenCursor
      /\ ~t.armed => u.frozenGrid = t.frozenGrid
  BY <1>1, PutGridShows
<1> HIDE DEF u
<1> QED BY <1>2 DEF Draws, Holds, u

\* A write to the cursor.
LEMMA PutCursorStep ==
  ASSUME NEW rows \in Nat \ {0}, NEW cols \in Nat \ {0}, NEW t \in Vts(rows, cols),
         NEW c \in Cursors(rows, cols)
  PROVE  LET u == PutCursor(t, c) IN
         Draws(t, u, rows, cols) /\ Holds(t, u) /\ u.grid = t.grid /\ u.cursor = c
           /\ u.frozenGrid = t.frozenGrid
<1> DEFINE f == IF t.armed /\ t.frozenCursor = None THEN t.cursor ELSE t.frozenCursor
           u == [t EXCEPT !.cursor = c, !.frozenCursor = f]
<1>1. PutCursor(t, c) = u
  BY DEF PutCursor, Vts
<1>2. t.grid \in Buffers(rows, cols)
  BY DEF Vts
<1>3. f \in Cursors(rows, cols) \cup {None}
  BY DEF Vts
<1>4. ~t.armed => f = t.frozenCursor
  OBVIOUS
<1> HIDE DEF f
<1>6. /\ u \in Vts(rows, cols) /\ Keeps(t, u) /\ Holds(t, u) /\ u.grid = t.grid /\ u.cursor = c
      /\ u.frozenGrid = t.frozenGrid /\ u.frozenCursor = f
  <2>1. u \in Vts(rows, cols)
    BY <1>3 DEF Vts
  <2>2. Keeps(t, u)
    BY DEF Vts, Keeps
  <2>3. Holds(t, u) /\ u.grid = t.grid /\ u.cursor = c /\ u.frozenGrid = t.frozenGrid /\ u.frozenCursor = f
    BY DEF Vts, Holds
  <2> QED BY <2>1, <2>2, <2>3
<1> HIDE DEF u
<1>7. Dirties(ShownGrid(t), ShownGrid(u))
  BY <1>6 DEF ShownGrid, Dirties
<1>8. Onto(t.grid, t.grid, rows, cols)
  BY <1>2, OntoSelf
<1> QED BY <1>1, <1>4, <1>6, <1>7, <1>8 DEF Draws, Holds

\* Doing nothing is an edit of the screen.
LEMMA DrawsSelf ==
  ASSUME NEW rows \in Nat \ {0}, NEW cols \in Nat \ {0}, NEW t \in Vts(rows, cols)
  PROVE  Draws(t, t, rows, cols) /\ Holds(t, t)
<1>1. t.grid \in Buffers(rows, cols)
  BY DEF Vts
<1>2. Onto(t.grid, t.grid, rows, cols)
  BY <1>1, OntoSelf
<1> QED BY <1>2 DEF Draws, Keeps, Holds, Dirties

\* Edits of the screen compose.
LEMMA DrawsThen ==
  ASSUME NEW rows \in Nat \ {0}, NEW cols \in Nat \ {0}, NEW t \in Vts(rows, cols),
         NEW u, Draws(t, u, rows, cols), NEW v, Draws(u, v, rows, cols)
  PROVE  Draws(t, v, rows, cols)
<1>1. u \in Vts(rows, cols) /\ v \in Vts(rows, cols)
  BY DEF Draws
<1>2. t.grid \in Buffers(rows, cols) /\ Onto(t.grid, u.grid, rows, cols) /\ Onto(u.grid, v.grid, rows, cols)
  BY DEF Draws, Vts
<1>3. Onto(t.grid, v.grid, rows, cols)
  BY <1>2, OntoThen
<1>4. ShownGrid(t) \in Buffers(rows, cols) /\ ShownGrid(u) \in Buffers(rows, cols) /\ ShownGrid(v) \in Buffers(rows, cols)
  BY <1>1, ShownType
<1>5. Dirties(ShownGrid(t), ShownGrid(u)) /\ Dirties(ShownGrid(u), ShownGrid(v))
  BY DEF Draws
<1>6. Dirties(ShownGrid(t), ShownGrid(v))
  BY <1>4, <1>5, DirtiesThen
<1>7. /\ Keeps(t, v) /\ (~t.armed => v.frozenGrid = t.frozenGrid /\ v.frozenCursor = t.frozenCursor)
      /\ t.top <= t.bottom => v.top <= v.bottom
  BY DEF Draws, Keeps
<1> QED BY <1>1, <1>3, <1>6, <1>7 DEF Draws

\* The fields of a terminal.
LEMMA VtParts ==
  ASSUME NEW rows \in Nat \ {0}, NEW cols \in Nat \ {0}, NEW t \in Vts(rows, cols)
  PROVE  /\ t.grid \in Buffers(rows, cols) /\ t.grid.rows = rows /\ t.grid.cols = cols
         /\ LastRow(t) = rows - 1 /\ LastCol(t) = cols - 1
         /\ t.cursor \in Cursors(rows, cols)
         /\ t.cursor.row \in 0 .. rows - 1 /\ t.cursor.col \in 0 .. cols - 1
         /\ t.top \in 0 .. rows - 1 /\ t.bottom \in 0 .. rows - 1
         /\ t.active \in Spots(rows, cols) \cup {None} /\ t.modes \in Modes
<1>1. /\ t.grid \in Buffers(rows, cols) /\ t.cursor \in Cursors(rows, cols)
      /\ t.top \in 0 .. rows - 1 /\ t.bottom \in 0 .. rows - 1
      /\ t.active \in Spots(rows, cols) \cup {None} /\ t.modes \in Modes
  BY DEF Vts
<1>2. t.grid.rows = rows /\ t.grid.cols = cols
  BY <1>1, BufferParts
<1>3. t.cursor.row \in 0 .. rows - 1 /\ t.cursor.col \in 0 .. cols - 1
  BY <1>1 DEF Cursors
<1> QED BY <1>1, <1>2, <1>3 DEF LastRow, LastCol

\* A cursor with other fields.
LEMMA CursorPut ==
  ASSUME NEW rows \in Nat \ {0}, NEW cols \in Nat \ {0}, NEW c \in Cursors(rows, cols),
         NEW row \in 0 .. rows - 1, NEW col \in 0 .. cols - 1, NEW pending \in BOOLEAN
  PROVE  LET d == [c EXCEPT !.row = row, !.col = col, !.pending = pending] IN
         d \in Cursors(rows, cols) /\ d.row = row /\ d.col = col /\ d.pending = pending
BY DEF Cursors

\* A motion of the cursor.
LEMMA MoveToStep ==
  ASSUME NEW rows \in Nat \ {0}, NEW cols \in Nat \ {0}, NEW t \in Vts(rows, cols),
         NEW row \in 0 .. rows - 1, NEW col \in 0 .. cols - 1
  PROVE  LET u == MoveTo(t, row, col) IN
         Draws(t, u, rows, cols) /\ Holds(t, u) /\ u.grid = t.grid /\ u.cursor.row = row /\ u.cursor.col = col
<1> DEFINE d == [t.cursor EXCEPT !.row = row, !.col = col, !.pending = FALSE]
<1>1. t.cursor \in Cursors(rows, cols)
  BY VtParts
<1>2. d \in Cursors(rows, cols) /\ d.row = row /\ d.col = col
  BY <1>1 DEF Cursors
<1>3. MoveTo(t, row, col) = PutCursor(t, d)
  BY DEF MoveTo
<1> HIDE DEF d
<1> DEFINE u == PutCursor(t, d)
<1>4. Draws(t, u, rows, cols) /\ Holds(t, u) /\ u.grid = t.grid /\ u.cursor = d
  BY <1>2, PutCursorStep
<1> HIDE DEF u
<1> QED BY <1>2, <1>3, <1>4 DEF u

\* The cell that accepts joins moves or goes.
LEMMA ActiveStep ==
  ASSUME NEW rows \in Nat \ {0}, NEW cols \in Nat \ {0}, NEW t \in Vts(rows, cols),
         NEW a \in Spots(rows, cols) \cup {None}
  PROVE  LET u == [t EXCEPT !.active = a] IN
         /\ Draws(t, u, rows, cols) /\ u.modes = t.modes /\ u.top = t.top /\ u.bottom = t.bottom
         /\ u.active = a /\ u.grid = t.grid /\ u.cursor = t.cursor
<1> DEFINE u == [t EXCEPT !.active = a]
<1>1. u \in Vts(rows, cols)
  BY DEF Vts
<1>2. Keeps(t, u)
  BY DEF Vts, Keeps
<1>3. /\ u.modes = t.modes /\ u.top = t.top /\ u.bottom = t.bottom /\ u.active = a /\ u.grid = t.grid
      /\ u.cursor = t.cursor /\ u.frozenGrid = t.frozenGrid /\ u.frozenCursor = t.frozenCursor
  BY DEF Vts
<1> HIDE DEF u
<1>4. Dirties(ShownGrid(t), ShownGrid(u))
  BY <1>3 DEF ShownGrid, Dirties
<1>5. Onto(t.grid, t.grid, rows, cols)
  BY VtParts, OntoSelf
<1> QED BY <1>1, <1>2, <1>3, <1>4, <1>5 DEF Draws, u

\* A scroll of the region.
LEMMA ScrollRegionStep ==
  ASSUME NEW rows \in Nat \ {0}, NEW cols \in Nat \ {0}, NEW t \in Vts(rows, cols), NEW n \in Nat
  PROVE  /\ LET u == ScrollRegionUp(t, n) IN
            Draws(t, u, rows, cols) /\ Holds(t, u) /\ u.cursor = t.cursor
         /\ LET u == ScrollRegionDown(t, n) IN
            Draws(t, u, rows, cols) /\ Holds(t, u) /\ u.cursor = t.cursor
<1> DEFINE up == ScrollUp(t.grid, t.top, t.bottom, n)
           down == ScrollDown(t.grid, t.top, t.bottom, n)
<1>1. t.grid \in Buffers(rows, cols) /\ t.top \in Nat /\ t.bottom \in Nat
  BY VtParts
<1>2. Onto(t.grid, up, rows, cols)
  BY <1>1, ScrollUpStep
<1>3. Onto(t.grid, down, rows, cols)
  BY <1>1, ScrollDownStep
<1> HIDE DEF up, down
<1>4. LET u == PutGrid(t, up) IN Draws(t, u, rows, cols) /\ Holds(t, u) /\ u.cursor = t.cursor
  BY <1>2, PutGridStep
<1>5. LET u == PutGrid(t, down) IN Draws(t, u, rows, cols) /\ Holds(t, u) /\ u.cursor = t.cursor
  BY <1>3, PutGridStep
<1> QED BY <1>4, <1>5 DEF ScrollRegionUp, ScrollRegionDown, up, down

\* linefeed.
LEMMA LinefeedStep ==
  ASSUME NEW rows \in Nat \ {0}, NEW cols \in Nat \ {0}, NEW t \in Vts(rows, cols)
  PROVE  Draws(t, Linefeed(t), rows, cols)
<1> DEFINE moved == IF t.cursor.row = t.bottom THEN ScrollRegionUp(t, 1) ELSE t
           row == IF t.cursor.row # t.bottom /\ t.cursor.row < LastRow(t)
                  THEN t.cursor.row + 1 ELSE t.cursor.row
           col == IF t.modes.newline THEN 0 ELSE t.cursor.col
<1>1. Draws(t, moved, rows, cols)
  BY ScrollRegionStep, DrawsSelf
<1>2. row \in 0 .. rows - 1 /\ col \in 0 .. cols - 1
  BY VtParts
<1>3. Linefeed(t) = MoveTo(moved, row, col)
  BY DEF Linefeed
<1> HIDE DEF moved, row, col
<1>4. moved \in Vts(rows, cols)
  BY <1>1 DEF Draws
<1>5. Draws(moved, MoveTo(moved, row, col), rows, cols)
  BY <1>2, <1>4, MoveToStep
<1> QED BY <1>1, <1>3, <1>5, DrawsThen

\* reverse_index.
LEMMA ReverseIndexStep ==
  ASSUME NEW rows \in Nat \ {0}, NEW cols \in Nat \ {0}, NEW t \in Vts(rows, cols)
  PROVE  Draws(t, ReverseIndex(t), rows, cols)
<1>1. t.cursor.row \in 0 .. rows - 1 /\ t.cursor.col \in 0 .. cols - 1
  BY VtParts
<1>2. CASE t.cursor.row = t.top
  <2> DEFINE u == ScrollRegionDown(t, 1)
  <2>1. Draws(t, u, rows, cols)
    BY ScrollRegionStep
  <2> HIDE DEF u
  <2>2. u \in Vts(rows, cols)
    BY <2>1 DEF Draws
  <2>3. Draws(u, MoveTo(u, t.cursor.row, t.cursor.col), rows, cols)
    BY <1>1, <2>2, MoveToStep
  <2>4. Draws(t, MoveTo(u, t.cursor.row, t.cursor.col), rows, cols)
    BY <2>1, <2>3, DrawsThen
  <2> QED BY <1>2, <2>4 DEF ReverseIndex, u
<1>3. CASE t.cursor.row # t.top
  <2> DEFINE row == Less(t.cursor.row, 1)
  <2>1. row \in 0 .. rows - 1
    <3>1. PICK x \in 0 .. rows - 1 : t.cursor.row = x
      BY <1>1
    <3> QED BY <3>1 DEF Less, MaxOf
  <2> HIDE DEF row
  <2>2. Draws(t, MoveTo(t, row, t.cursor.col), rows, cols)
    BY <1>1, <2>1, MoveToStep
  <2> QED BY <1>3, <2>2 DEF ReverseIndex, row
<1> QED BY <1>2, <1>3

\* save_cursor_state.
LEMMA SaveCursorStep ==
  ASSUME NEW rows \in Nat \ {0}, NEW cols \in Nat \ {0}, NEW t \in Vts(rows, cols)
  PROVE  LET u == SaveCursor(t) IN
         Draws(t, u, rows, cols) /\ Holds(t, u) /\ u.grid = t.grid /\ u.cursor \in Cursors(rows, cols)
<1> DEFINE s == [row |-> t.cursor.row, col |-> t.cursor.col, pending |-> t.cursor.pending,
                 origin |-> t.modes.origin]
           d == [t.cursor EXCEPT !.saved = s]
<1>1. t.cursor \in Cursors(rows, cols) /\ t.modes \in Modes
  BY VtParts
<1>2. s \in Saves
  BY <1>1 DEF Cursors, Modes, Saves
<1> HIDE DEF s
<1>3. d \in Cursors(rows, cols)
  BY <1>1, <1>2 DEF Cursors
<1>4. SaveCursor(t) = PutCursor(t, d)
  BY DEF SaveCursor, s
<1> HIDE DEF d
<1> DEFINE u == PutCursor(t, d)
<1>5. Draws(t, u, rows, cols) /\ Holds(t, u) /\ u.grid = t.grid /\ u.cursor = d
  BY <1>3, PutCursorStep
<1> HIDE DEF u
<1> QED BY <1>3, <1>4, <1>5 DEF u

\* A mode other than the alternate screen's flag.
LEMMA ModesStep ==
  ASSUME NEW rows \in Nat \ {0}, NEW cols \in Nat \ {0}, NEW t \in Vts(rows, cols),
         NEW m \in Modes, m.alt = t.modes.alt
  PROVE  LET u == [t EXCEPT !.modes = m] IN
         /\ Draws(t, u, rows, cols) /\ u.modes = m /\ u.top = t.top /\ u.bottom = t.bottom
         /\ u.active = t.active /\ u.grid = t.grid /\ u.cursor = t.cursor
<1> DEFINE u == [t EXCEPT !.modes = m]
<1>1. u \in Vts(rows, cols)
  BY DEF Vts
<1>2. u.modes = m
  BY DEF Vts
<1>3. /\ u.stash = t.stash /\ u.stashCursor = t.stashCursor /\ u.spare = t.spare /\ u.armed = t.armed
      /\ u.frozenColor = t.frozenColor /\ u.frozenAlt = t.frozenAlt /\ u.color = t.color
      /\ u.flooded = t.flooded /\ u.hidden = t.hidden /\ u.revision = t.revision
  BY DEF Vts
<1>4. /\ u.top = t.top /\ u.bottom = t.bottom /\ u.active = t.active /\ u.grid = t.grid
      /\ u.cursor = t.cursor /\ u.frozenGrid = t.frozenGrid /\ u.frozenCursor = t.frozenCursor
  BY DEF Vts
<1> HIDE DEF u
<1>5. Dirties(ShownGrid(t), ShownGrid(u))
  BY <1>4 DEF ShownGrid, Dirties
<1>6. Onto(t.grid, t.grid, rows, cols)
  BY VtParts, OntoSelf
<1>7. Keeps(t, u)
  BY <1>2, <1>3 DEF Keeps
<1> QED BY <1>1, <1>2, <1>4, <1>5, <1>6, <1>7 DEF Draws, u

\* restore_cursor_state: the saved place is clamped to the screen of today.
LEMMA RestoreCursorStep ==
  ASSUME NEW rows \in Nat \ {0}, NEW cols \in Nat \ {0}, NEW t \in Vts(rows, cols)
  PROVE  Draws(t, RestoreCursor(t), rows, cols)
<1> DEFINE s == t.cursor.saved
           row == MinOf(s.row, LastRow(t))
           col == MinOf(s.col, LastCol(t))
           pending == s.pending /\ row = s.row /\ col = s.col
           d == [t.cursor EXCEPT !.row = row, !.col = col, !.pending = pending]
           u == PutCursor(t, d)
           m == [u.modes EXCEPT !.origin = s.origin]
<1>1. t.cursor \in Cursors(rows, cols) /\ t.modes \in Modes /\ LastRow(t) = rows - 1 /\ LastCol(t) = cols - 1
  BY VtParts
<1>2. s \in Saves \cup {None}
  BY <1>1 DEF Cursors
<1>3. CASE s = None
  <2>1. Draws(t, PutCursor(t, t.cursor), rows, cols)
    BY <1>1, PutCursorStep
  <2> QED BY <1>3, <2>1 DEF RestoreCursor
<1>4. CASE s # None
  <2>1. s.row \in Nat /\ s.col \in Nat /\ s.pending \in BOOLEAN /\ s.origin \in BOOLEAN
    BY <1>2, <1>4 DEF Saves
  <2>2. RestoreCursor(t) = [u EXCEPT !.modes = m]
    BY <1>4 DEF RestoreCursor
  <2> HIDE DEF s
  <2>3. row \in 0 .. rows - 1 /\ col \in 0 .. cols - 1
    <3>1. PICK x \in Nat, y \in Nat : s.row = x /\ s.col = y
      BY <2>1
    <3> QED BY <1>1, <3>1 DEF MinOf
  <2>4. pending \in BOOLEAN
    BY <2>1
  <2> HIDE DEF row, col, pending
  <2>5. d \in Cursors(rows, cols)
    BY <1>1, <2>3, <2>4, CursorPut
  <2> HIDE DEF d
  <2>6. Draws(t, u, rows, cols) /\ Holds(t, u)
    BY <2>5, PutCursorStep
  <2> HIDE DEF u
  <2>7. m \in Modes /\ m.alt = u.modes.alt
    BY <1>1, <2>1, <2>6 DEF Modes, Holds
  <2> HIDE DEF m
  <2>8. u \in Vts(rows, cols)
    BY <2>6 DEF Draws
  <2>9. Draws(u, [u EXCEPT !.modes = m], rows, cols)
    BY <2>7, <2>8, ModesStep
  <2> QED BY <2>2, <2>6, <2>9, DrawsThen
<1> QED BY <1>3, <1>4

(***************************************************************************)
(* Printing                                                                *)
(***************************************************************************)

\* A character of one column put where no half stands.
LEMMA NarrowAt ==
  ASSUME NEW cols \in Nat \ {0}, NEW cells \in CellRows(cols), NEW col \in 0 .. cols - 1,
         cells[col] \notin Wide, cells[col] # Tail2, NEW c \in Cells, c \notin Wide, c # Tail2,
         NEW new, new = [i \in 0 .. cols - 1 |-> IF i = col THEN c ELSE cells[i]]
  PROVE  new \in CellRows(cols)
<1>1. cells \in [0 .. cols - 1 -> Cells] /\ Paired(cells)
  BY DEF CellRows
<1>2. new \in [0 .. cols - 1 -> Cells]
  BY <1>1
<1>3. Paired(new)
  <2> SUFFICES ASSUME NEW k \in 0 .. cols - 1
               PROVE  /\ new[k] \in Wide => k + 1 \in 0 .. cols - 1 /\ new[k + 1] = Tail2
                      /\ new[k] = Tail2 => k - 1 \in 0 .. cols - 1 /\ new[k - 1] \in Wide
    BY DEF Paired
  <2>1. /\ cells[k] \in Wide => k + 1 \in 0 .. cols - 1 /\ cells[k + 1] = Tail2
        /\ cells[k] = Tail2 => k - 1 \in 0 .. cols - 1 /\ cells[k - 1] \in Wide
    BY <1>1 DEF Paired
  <2> QED BY <2>1
<1> QED BY <1>2, <1>3 DEF CellRows

\* A character of two columns put where neither end cuts another in half.
LEMMA WideAt ==
  ASSUME NEW cols \in Nat \ {0}, NEW cells \in CellRows(cols), NEW col \in 0 .. cols - 1,
         col + 1 \in 0 .. cols - 1, cells[col] # Tail2, cells[col + 1] \notin Wide,
         NEW c \in Wide,
         NEW new, new = [i \in 0 .. cols - 1 |-> IF i = col THEN c ELSE IF i = col + 1 THEN Tail2 ELSE cells[i]]
  PROVE  new \in CellRows(cols)
<1>1. cells \in [0 .. cols - 1 -> Cells] /\ Paired(cells)
  BY DEF CellRows
<1>2. new \in [0 .. cols - 1 -> Cells]
  BY <1>1, CellKinds
<1>3. Paired(new)
  <2> SUFFICES ASSUME NEW k \in 0 .. cols - 1
               PROVE  /\ new[k] \in Wide => k + 1 \in 0 .. cols - 1 /\ new[k + 1] = Tail2
                      /\ new[k] = Tail2 => k - 1 \in 0 .. cols - 1 /\ new[k - 1] \in Wide
    BY DEF Paired
  <2>1. /\ cells[k] \in Wide => k + 1 \in 0 .. cols - 1 /\ cells[k + 1] = Tail2
        /\ cells[k] = Tail2 => k - 1 \in 0 .. cols - 1 /\ cells[k - 1] \in Wide
    BY <1>1 DEF Paired
  <2>2. CASE k = col
    BY <2>2, CellKinds
  <2>3. CASE k = col + 1
    BY <2>3, CellKinds
  <2>4. CASE k # col /\ k # col + 1
    BY <2>1, <2>4
  <2> QED BY <2>2, <2>3, <2>4
<1> QED BY <1>2, <1>3 DEF CellRows

\* A write of one row of the live buffer.
LEMMA PutCellsStep ==
  ASSUME NEW rows \in Nat \ {0}, NEW cols \in Nat \ {0}, NEW t \in Vts(rows, cols),
         NEW r \in 0 .. rows - 1, NEW cells \in CellRows(cols)
  PROVE  LET u == PutGrid(t, SetCells(t.grid, r, cells)) IN
         Draws(t, u, rows, cols) /\ Holds(t, u) /\ u.cursor = t.cursor
<1> DEFINE g == SetCells(t.grid, r, cells)
<1>1. t.grid \in Buffers(rows, cols)
  BY VtParts
<1>2. Onto(t.grid, g, rows, cols)
  BY <1>1, SetCellsStep
<1> HIDE DEF g
<1>3. LET u == PutGrid(t, g) IN Draws(t, u, rows, cols) /\ Holds(t, u) /\ u.cursor = t.cursor
  BY <1>2, PutGridStep
<1> QED BY <1>3 DEF g

\* wrap_to_next_line.
LEMMA WrapLineStep ==
  ASSUME NEW rows \in Nat \ {0}, NEW cols \in Nat \ {0}, NEW t \in Vts(rows, cols)
  PROVE  LET u == WrapLine(t) IN Draws(t, u, rows, cols) /\ u.modes = t.modes /\ u.cursor.col = 0
<1> DEFINE row == VisibleRow(t.grid, t.cursor.row)
           long == [row EXCEPT !.wrapped = TRUE]
           g == SetRow(t.grid, t.cursor.row, long)
           cut == PutGrid(t, g)
           moved == IF t.cursor.row = t.bottom THEN ScrollRegionUp(cut, 1) ELSE cut
           down == t.cursor.row # t.bottom /\ t.cursor.row < LastRow(t)
           to == IF down THEN t.cursor.row + 1 ELSE t.cursor.row
           v == MoveTo(moved, to, 0)
           u == [v EXCEPT !.active = None]
<1>1. t.grid \in Buffers(rows, cols) /\ t.cursor.row \in 0 .. rows - 1 /\ LastRow(t) = rows - 1
  BY VtParts
<1>2. row \in Lines(cols)
  BY <1>1, VisibleRowType
<1>3. WrapLine(t) = u
  BY DEF WrapLine
<1> HIDE DEF row
<1>4. long \in Lines(cols)
  BY <1>2 DEF Lines
<1> HIDE DEF long
<1>5. Onto(t.grid, g, rows, cols)
  BY <1>1, <1>4, SetRowStep
<1> HIDE DEF g
<1>6. Draws(t, cut, rows, cols) /\ Holds(t, cut)
  BY <1>5, PutGridStep
<1> HIDE DEF cut
<1>7. cut \in Vts(rows, cols)
  BY <1>6 DEF Draws
<1>8. Draws(cut, moved, rows, cols) /\ Holds(cut, moved)
  BY <1>7, ScrollRegionStep, DrawsSelf
<1> HIDE DEF moved
<1>9. Draws(t, moved, rows, cols) /\ Holds(t, moved) /\ moved \in Vts(rows, cols)
  <2>1. Draws(t, moved, rows, cols)
    BY <1>6, <1>8, DrawsThen
  <2> QED BY <1>6, <1>8, <2>1 DEF Holds, Draws
<1>10. to \in 0 .. rows - 1 /\ 0 \in 0 .. cols - 1
  BY <1>1
<1> HIDE DEF to
<1>11. Draws(moved, v, rows, cols) /\ Holds(moved, v) /\ v.cursor.col = 0
  BY <1>9, <1>10, MoveToStep
<1> HIDE DEF v
<1>12. Draws(t, v, rows, cols) /\ v \in Vts(rows, cols) /\ v.modes = t.modes
  <2>1. Draws(t, v, rows, cols)
    BY <1>9, <1>11, DrawsThen
  <2> QED BY <1>9, <1>11, <2>1 DEF Holds, Draws
<1>13. Draws(v, u, rows, cols) /\ u.modes = v.modes /\ u.cursor = v.cursor
  <2>1. None \in Spots(rows, cols) \cup {None}
    OBVIOUS
  <2> QED BY <1>12, <2>1, ActiveStep
<1> HIDE DEF u
<1>14. Draws(t, u, rows, cols)
  BY <1>12, <1>13, DrawsThen
<1> QED BY <1>3, <1>11, <1>12, <1>13, <1>14

\* A character without room blanks the cell under the cursor, and its other half.
LEMMA BlankHereStep ==
  ASSUME NEW rows \in Nat \ {0}, NEW cols \in Nat \ {0}, NEW t \in Vts(rows, cols)
  PROVE  LET u == BlankHere(t) IN Draws(t, u, rows, cols) /\ Holds(t, u) /\ u.cursor = t.cursor
<1> DEFINE r == t.cursor.row
           col == t.cursor.col
           row == VisibleRow(t.grid, r).cells
           cells == ClearPair(row, col)
           new == [cells EXCEPT ![col] = Blank]
           u == PutGrid(t, SetCells(t.grid, r, new))
<1>1. t.grid \in Buffers(rows, cols) /\ r \in 0 .. rows - 1 /\ col \in 0 .. cols - 1
  BY VtParts
<1>2. row \in CellRows(cols)
  BY <1>1, VisibleRowType
<1>3. BlankHere(t) = u
  BY DEF BlankHere
<1> HIDE DEF row, r, col
<1>4. cells \in CellRows(cols) /\ cells[col] \notin Wide /\ cells[col] # Tail2
  BY <1>1, <1>2, ClearPairType
<1> HIDE DEF cells
<1>5. new = [i \in 0 .. cols - 1 |-> IF i = col THEN Blank ELSE cells[i]]
  BY <1>4 DEF CellRows
<1> HIDE DEF new
<1>6. new \in CellRows(cols)
  BY <1>1, <1>4, <1>5, CellKinds, NarrowAt
<1>7. Draws(t, u, rows, cols) /\ Holds(t, u) /\ u.cursor = t.cursor
  BY <1>1, <1>6, PutCellsStep
<1> HIDE DEF u
<1> QED BY <1>3, <1>7

\* The pending wrap is dropped.
LEMMA NotPendingStep ==
  ASSUME NEW rows \in Nat \ {0}, NEW cols \in Nat \ {0}, NEW t \in Vts(rows, cols)
  PROVE  Draws(t, NotPending(t), rows, cols)
<1> DEFINE d == [t.cursor EXCEPT !.pending = FALSE]
<1>1. t.cursor \in Cursors(rows, cols)
  BY VtParts
<1>2. d \in Cursors(rows, cols)
  BY <1>1 DEF Cursors
<1>3. NotPending(t) = PutCursor(t, d)
  BY DEF NotPending
<1> HIDE DEF d
<1> QED BY <1>2, <1>3, PutCursorStep

\* The cluster that accepts joins ends.
LEMMA InactiveStep ==
  ASSUME NEW rows \in Nat \ {0}, NEW cols \in Nat \ {0}, NEW t \in Vts(rows, cols)
  PROVE  LET u == Inactive(t) IN
         /\ Draws(t, u, rows, cols) /\ u.modes = t.modes /\ u.top = t.top /\ u.bottom = t.bottom
         /\ u.grid = t.grid /\ u.cursor = t.cursor
<1>1. None \in Spots(rows, cols) \cup {None}
  OBVIOUS
<1> QED BY <1>1, ActiveStep DEF Inactive

\* What a program prints, but a joiner.
Letters == {"x", "W", "r"}

\* A printed character is one or two columns wide.
LEMMA LetterKinds ==
  \A c \in Letters :
    /\ c \in Cells /\ c # Tail2 /\ Width(c) \in {1, 2} /\ (Width(c) = 2 <=> c \in Wide)
<1>1. "x" \in Cells /\ "x" # Tail2 /\ "x" \notin Wide /\ Width("x") = 1
  BY DEF Cells, Narrow, Wide, Tail2, Width
<1>2. "r" \in Cells /\ "r" # Tail2 /\ "r" \notin Wide /\ Width("r") = 1
  BY DEF Cells, Narrow, Wide, Tail2, Width
<1>3. "W" \in Cells /\ "W" # Tail2 /\ "W" \in Wide /\ Width("W") = 2
  BY DEF Cells, Wide, Tail2, Width
<1> QED BY <1>1, <1>2, <1>3 DEF Letters

\* The end of write_char: the characters it cuts through are blanked.
LEMMA PutCharStep ==
  ASSUME NEW rows \in Nat \ {0}, NEW cols \in Nat \ {0}, NEW t \in Vts(rows, cols),
         NEW c \in Letters, Width(c) = 2 => t.cursor.col + 1 \in 0 .. cols - 1
  PROVE  Draws(t, PutChar(t, c), rows, cols)
<1> DEFINE w == Width(c)
           r == t.cursor.row
           col == t.cursor.col
           g == IF t.modes.insert THEN InsertChars(t.grid, r, col, w) ELSE t.grid
           row == VisibleRow(g, r).cells
           one == ClearPair(row, col)
           both == IF w = 2 THEN ClearPair(one, col + 1) ELSE one
           cells == [i \in DOMAIN both |->
                      IF i = col THEN c ELSE IF i = col + 1 /\ w = 2 THEN Tail2 ELSE both[i]]
           full == col + w > LastCol(t)
           set == SetCells(g, r, cells)
           u == PutGrid(t, set)
           to == IF full THEN LastCol(t) ELSE col + w
           pending == IF full THEN TRUE ELSE t.cursor.pending
           d == [t.cursor EXCEPT !.col = to, !.pending = pending]
           v == PutCursor(u, d)
           x == [v EXCEPT !.active = <<r, col>>]
<1>1. /\ t.grid \in Buffers(rows, cols) /\ r \in 0 .. rows - 1 /\ col \in 0 .. cols - 1
      /\ LastCol(t) = cols - 1 /\ t.cursor \in Cursors(rows, cols)
  BY VtParts
<1>2. w \in {1, 2} /\ (w = 2 <=> c \in Wide) /\ c \in Cells /\ c # Tail2
  BY LetterKinds
<1>3. PutChar(t, c) = x
  BY DEF PutChar
<1>4. w = 2 => col + 1 \in 0 .. cols - 1
  OBVIOUS
<1> HIDE DEF w, r
<1>5. Onto(t.grid, g, rows, cols)
  <2>1. w \in Nat \ {0}
    BY <1>2
  <2>2. Onto(t.grid, InsertChars(t.grid, r, col, w), rows, cols)
    <3> HIDE DEF col
    <3> QED BY <1>1, <2>1, InsertCharsStep
  <2>3. Onto(t.grid, t.grid, rows, cols)
    BY <1>1, OntoSelf
  <2> QED BY <2>2, <2>3
<1> HIDE DEF g
<1>6. g \in Buffers(rows, cols)
  BY <1>5 DEF Onto
<1>7. row \in CellRows(cols)
  BY <1>1, <1>6, VisibleRowType
<1>8. d \in Cursors(rows, cols)
  <2>1. to \in 0 .. cols - 1
    BY <1>1, <1>2
  <2>2. pending \in BOOLEAN
    BY <1>1 DEF Cursors
  <2> HIDE DEF to, pending
  <2> QED BY <1>1, <2>1, <2>2 DEF Cursors
<1> HIDE DEF row, d, col
<1>9. one \in CellRows(cols) /\ one[col] \notin Wide /\ one[col] # Tail2
  BY <1>1, <1>7, ClearPairType
<1> HIDE DEF one
<1>10. cells \in CellRows(cols)
  <2>1. CASE w = 1
    <3>1. both = one /\ DOMAIN one = 0 .. cols - 1
      BY <1>9, <2>1 DEF CellRows
    <3>2. cells = [i \in 0 .. cols - 1 |-> IF i = col THEN c ELSE one[i]]
      BY <2>1, <3>1
    <3> HIDE DEF cells, both
    <3>3. c \notin Wide
      BY <1>2, <2>1
    <3> QED BY <1>1, <1>2, <1>9, <3>2, <3>3, NarrowAt
  <2>2. CASE w = 2
    <3>1. both = ClearPair(one, col + 1) /\ col + 1 \in 0 .. cols - 1 /\ c \in Wide
      BY <1>2, <1>4, <2>2
    <3> HIDE DEF both
    <3>2. /\ both \in CellRows(cols) /\ both[col + 1] \notin Wide /\ both[col + 1] # Tail2
          /\ \A i \in 0 .. cols - 1 : i \notin (col + 1) - 1 .. (col + 1) + 1 => both[i] = one[i]
      <4> DEFINE k == col + 1
      <4>1. both = ClearPair(one, k) /\ k \in 0 .. cols - 1 /\ one \in CellRows(cols)
        BY <1>9, <3>1
      <4> HIDE DEF k
      <4>2. /\ both \in CellRows(cols) /\ both[k] \notin Wide /\ both[k] # Tail2
            /\ \A i \in 0 .. cols - 1 : i \notin k - 1 .. k + 1 => both[i] = one[i]
        BY <4>1, ClearPairType
      <4> QED BY <4>2 DEF k
    <3>3. both[col] # Tail2
      <4> SUFFICES ASSUME both[col] = Tail2 PROVE FALSE
        OBVIOUS
      <4>1. col - 1 \in 0 .. cols - 1 /\ both[col - 1] \in Wide
        BY <1>1, <3>2 DEF CellRows, Paired
      <4>2. col - 1 \notin (col + 1) - 1 .. (col + 1) + 1
        BY <1>1
      <4>3. one[col - 1] \in Wide
        BY <3>2, <4>1, <4>2
      <4>4. Paired(one) /\ DOMAIN one = 0 .. cols - 1
        BY <1>9 DEF CellRows
      <4>5. one[(col - 1) + 1] = Tail2 /\ (col - 1) + 1 = col
        <5> DEFINE p == col - 1
        <5>1. p \in DOMAIN one /\ one[p] \in Wide
          BY <4>1, <4>3, <4>4
        <5> HIDE DEF p
        <5>2. one[p + 1] = Tail2
          BY <4>4, <5>1 DEF Paired
        <5> QED BY <1>1, <5>2 DEF p
      <4> QED BY <1>9, <4>5
    <3>4. DOMAIN both = 0 .. cols - 1
      BY <3>2 DEF CellRows
    <3>5. cells = [i \in 0 .. cols - 1 |-> IF i = col THEN c ELSE IF i = col + 1 THEN Tail2 ELSE both[i]]
      BY <2>2, <3>4
    <3> HIDE DEF cells
    <3> QED BY <1>1, <3>1, <3>2, <3>3, <3>5, WideAt
  <2> QED BY <1>2, <2>1, <2>2
<1> HIDE DEF cells
<1>11. Onto(g, set, rows, cols)
  BY <1>1, <1>6, <1>10, SetCellsStep
<1> HIDE DEF set
<1>12. Onto(t.grid, set, rows, cols)
  BY <1>1, <1>5, <1>11, OntoThen
<1>13. Draws(t, u, rows, cols)
  BY <1>12, PutGridStep
<1> HIDE DEF u
<1>14. u \in Vts(rows, cols)
  BY <1>13 DEF Draws
<1>15. Draws(u, v, rows, cols)
  BY <1>8, <1>14, PutCursorStep
<1> HIDE DEF v
<1>16. Draws(t, v, rows, cols) /\ v \in Vts(rows, cols)
  <2>1. Draws(t, v, rows, cols)
    BY <1>13, <1>15, DrawsThen
  <2> QED BY <2>1 DEF Draws
<1>17. <<r, col>> \in Spots(rows, cols) \cup {None}
  BY <1>1 DEF Spots
<1>18. Draws(v, x, rows, cols)
  BY <1>16, <1>17, ActiveStep
<1> HIDE DEF x
<1> QED BY <1>3, <1>16, <1>18, DrawsThen

\* The cell that accepts joins is one on the screen.
LEMMA ActiveCellType ==
  ASSUME NEW rows \in Nat \ {0}, NEW cols \in Nat \ {0}, NEW t \in Vts(rows, cols), t.active # None
  PROVE  /\ t.active[1] \in 0 .. rows - 1 /\ t.active[2] \in 0 .. cols - 1
         /\ t.active = <<t.active[1], t.active[2]>>
         /\ ActiveCell(t) = VisibleRow(t.grid, t.active[1]).cells[t.active[2]]
<1>1. t.active \in Spots(rows, cols)
  BY VtParts
<1> QED BY <1>1 DEF Spots, ActiveCell

\* append_zero_width_scalar, for a joiner.
LEMMA AppendJoinerStep ==
  ASSUME NEW rows \in Nat \ {0}, NEW cols \in Nat \ {0}, NEW t \in Vts(rows, cols)
  PROVE  Draws(t, AppendJoiner(t), rows, cols)
<1> DEFINE live == ActiveCell(t) \notin {Blank, Tail2}
           pos == IF live THEN t.active ELSE <<t.cursor.row, PrecedingCol(t)>>
           cells == VisibleRow(t.grid, pos[1]).cells
           joined == IF Width(cells[pos[2]]) = 2 THEN "Z" ELSE "z"
           new == [cells EXCEPT ![pos[2]] = joined]
           u == PutGrid(t, SetCells(t.grid, pos[1], new))
           x == [u EXCEPT !.active = pos]
<1>1. /\ t.grid \in Buffers(rows, cols) /\ t.cursor.row \in 0 .. rows - 1 /\ t.cursor.col \in 0 .. cols - 1
  BY VtParts
<1>2. pos[1] \in 0 .. rows - 1 /\ pos[2] \in Int /\ pos[2] < cols /\ pos = <<pos[1], pos[2]>>
  <2>1. CASE live
    <3>1. t.active # None
      BY <2>1, CellKinds DEF ActiveCell
    <3>2. pos = t.active
      BY <2>1
    <3> HIDE DEF pos, live
    <3> QED BY <3>1, <3>2, ActiveCellType
  <2>2. CASE ~live
    <3>1. PrecedingCol(t) \in Int /\ PrecedingCol(t) < cols
      BY <1>1 DEF PrecedingCol
    <3>2. pos = <<t.cursor.row, PrecedingCol(t)>>
      BY <2>2
    <3> HIDE DEF pos, live
    <3> QED BY <1>1, <3>1, <3>2
  <2> QED BY <2>1, <2>2
<1>3. AppendJoiner(t) = IF pos[2] < 0 THEN t ELSE IF cells[pos[2]] \in {Blank, Tail2} THEN t ELSE x
  BY DEF AppendJoiner
<1> HIDE DEF pos
<1>4. Draws(t, t, rows, cols)
  BY DrawsSelf
<1>5. ASSUME ~(pos[2] < 0), cells[pos[2]] \notin {Blank, Tail2} PROVE Draws(t, x, rows, cols)
  <2> DEFINE col == pos[2]
             r == pos[1]
  <2>1. col \in 0 .. cols - 1 /\ r \in 0 .. rows - 1
    BY <1>2, <1>5
  <2>2. cells \in CellRows(cols)
    BY <1>1, <1>2, VisibleRowType
  <2> HIDE DEF cells
  <2>3. cells \in [0 .. cols - 1 -> Cells] /\ Paired(cells)
    BY <2>2 DEF CellRows
  <2>4. cells[col] \in Cells
    BY <2>1, <2>3
  <2>5. new \in CellRows(cols)
    <3>1. CASE cells[col] \in Wide
      <4>1. joined = "Z" /\ "Z" \in Wide
        BY <3>1 DEF Width, Wide
      <4>2. col + 1 \in 0 .. cols - 1 /\ cells[col + 1] = Tail2
        BY <2>1, <2>3, <3>1 DEF Paired
      <4>3. new = [i \in 0 .. cols - 1 |-> IF i = col THEN "Z" ELSE IF i = col + 1 THEN Tail2 ELSE cells[i]]
        BY <2>1, <2>3, <4>1, <4>2
      <4>4. cells[col] # Tail2 /\ cells[col + 1] \notin Wide
        BY <1>5, <4>2, CellKinds
      <4> HIDE DEF new
      <4> QED BY <2>1, <2>2, <4>1, <4>2, <4>3, <4>4, WideAt
    <3>2. CASE cells[col] \notin Wide
      <4>1. joined = "z" /\ "z" \in Cells /\ "z" \notin Wide /\ "z" # Tail2
        BY <3>2 DEF Width, Wide, Cells, Narrow, Tail2
      <4>2. new = [i \in 0 .. cols - 1 |-> IF i = col THEN "z" ELSE cells[i]]
        BY <2>1, <2>3, <4>1
      <4> HIDE DEF new
      <4> QED BY <1>5, <2>1, <2>2, <3>2, <4>1, <4>2, NarrowAt
    <3> QED BY <3>1, <3>2
  <2> HIDE DEF new
  <2>6. Draws(t, u, rows, cols)
    BY <1>2, <2>5, PutCellsStep
  <2> HIDE DEF u
  <2>7. u \in Vts(rows, cols)
    BY <2>6 DEF Draws
  <2>8. pos \in Spots(rows, cols) \cup {None}
    BY <1>2, <2>1 DEF Spots
  <2>9. Draws(u, x, rows, cols)
    BY <2>7, <2>8, ActiveStep
  <2> QED BY <2>6, <2>9, DrawsThen
<1> QED BY <1>3, <1>4, <1>5

\* The widths of the clusters that still take a character.
LEMMA JoinKinds ==
  ASSUME NEW t, NEW c \in Letters, Joins(t, c)
  PROVE  LET a == ActiveCell(t) IN
         /\ a \notin {Blank, Tail2} /\ JoinWidth(t, c) \in {1, 2}
         /\ JoinWidth(t, c) = 1 => a \notin Wide
         /\ JoinWidth(t, c) = 2 => t.active[2] < LastCol(t)
<1> DEFINE a == ActiveCell(t)
<1>1. a \in {"z", "Z", "r"} /\ (JoinWidth(t, c) = 1 \/ t.active[2] < LastCol(t))
  BY DEF Joins
<1>2. JoinWidth(t, c) = IF c = "r" /\ a = "r" THEN 2 ELSE MaxOf(Width(a), Width(c))
  BY DEF JoinWidth
<1> HIDE DEF a
<1>3. Width("z") = 1 /\ Width("Z") = 2 /\ Width("r") = 1 /\ "z" \notin Wide /\ "r" \notin Wide
  BY DEF Width, Wide, Tail2
<1>4. "z" \notin {Blank, Tail2} /\ "Z" \notin {Blank, Tail2} /\ "r" \notin {Blank, Tail2}
  BY DEF Blank, Tail2
<1>5. PICK m \in {1, 2} : Width(c) = m
  BY LetterKinds
<1>6. PICK k \in {1, 2} : Width(a) = k /\ (k = 1 => a \notin Wide)
  BY <1>1, <1>3
<1>7. MaxOf(k, m) \in {1, 2} /\ (MaxOf(k, m) = 1 => k = 1)
  BY DEF MaxOf
<1>8. JoinWidth(t, c) \in {1, 2} /\ (JoinWidth(t, c) = 1 => a \notin Wide)
  BY <1>2, <1>5, <1>6, <1>7
<1> QED BY <1>1, <1>4, <1>8 DEF a

\* A character that joins the active cell: a cell that grows to two columns frees the next one.
LEMMA JoinStep ==
  ASSUME NEW rows \in Nat \ {0}, NEW cols \in Nat \ {0}, NEW t \in Vts(rows, cols),
         NEW c \in Letters, Joins(t, c)
  PROVE  Draws(t, Join(t, c), rows, cols)
<1> DEFINE row == t.active[1]
           col == t.active[2]
           w == JoinWidth(t, c)
           cells == VisibleRow(t.grid, row).cells
           freed == IF w = 2 /\ cells[col + 1] # Tail2 THEN ClearPair(cells, col + 1) ELSE cells
           wide == [i \in DOMAIN cells |->
                     IF i = col THEN IF w = 2 THEN "W" ELSE "x"
                     ELSE IF i = col + 1 /\ w = 2 THEN Tail2 ELSE freed[i]]
           next == col + w
           pair == c = "r" /\ ActiveCell(t) = "r"
           to == IF next > LastCol(t) THEN LastCol(t) ELSE IF pair THEN next ELSE MaxOf(t.cursor.col, next)
           pending == IF next > LastCol(t) THEN TRUE ELSE IF pair THEN FALSE ELSE t.cursor.pending
           d == [t.cursor EXCEPT !.col = to, !.pending = pending]
           u == PutGrid(t, SetCells(t.grid, row, wide))
           v == PutCursor(u, d)
<1>1. /\ ActiveCell(t) \notin {Blank, Tail2} /\ w \in {1, 2} /\ (w = 1 => ActiveCell(t) \notin Wide)
      /\ w = 2 => col < LastCol(t)
  BY JoinKinds
<1>2. t.active # None
  BY <1>1 DEF ActiveCell
<1>3. row \in 0 .. rows - 1 /\ col \in 0 .. cols - 1 /\ ActiveCell(t) = cells[col]
  BY <1>2, ActiveCellType
<1>4. /\ t.grid \in Buffers(rows, cols) /\ LastCol(t) = cols - 1 /\ t.cursor \in Cursors(rows, cols)
      /\ t.cursor.col \in 0 .. cols - 1
  BY VtParts
<1>5. cells \in CellRows(cols)
  BY <1>3, <1>4, VisibleRowType
<1>6. Join(t, c) = v
  BY DEF Join
<1> HIDE DEF w, row, col, pair
<1>7. d \in Cursors(rows, cols)
  <2>1. PICK x \in 0 .. cols - 1 : t.cursor.col = x
    BY <1>4
  <2>2. to \in 0 .. cols - 1
    BY <1>1, <1>3, <1>4, <2>1 DEF MaxOf
  <2>3. pending \in BOOLEAN
    BY <1>4 DEF Cursors
  <2> HIDE DEF to, pending
  <2> QED BY <1>4, <2>2, <2>3 DEF Cursors
<1> HIDE DEF d, cells
<1>8. cells \in [0 .. cols - 1 -> Cells] /\ Paired(cells) /\ DOMAIN cells = 0 .. cols - 1
  BY <1>5 DEF CellRows
<1>9. wide \in CellRows(cols)
  <2>1. CASE w = 1
    <3>1. wide = [i \in 0 .. cols - 1 |-> IF i = col THEN "x" ELSE cells[i]]
      BY <1>8, <2>1
    <3> HIDE DEF wide
    <3>2. "x" \in Cells /\ "x" \notin Wide /\ "x" # Tail2
      BY DEF Cells, Narrow, Wide, Tail2
    <3>3. cells[col] \notin Wide /\ cells[col] # Tail2
      BY <1>1, <1>3, <2>1
    <3> QED BY <1>3, <1>5, <3>1, <3>2, <3>3, NarrowAt
  <2>2. CASE w = 2
    <3> DEFINE k == col + 1
    <3>1. k \in 0 .. cols - 1 /\ "W" \in Wide
      BY <1>1, <1>3, <1>4, <2>2 DEF Wide
    <3>2. freed \in CellRows(cols) /\ freed[col] # Tail2 /\ freed[k] \notin Wide
      <4>1. CASE cells[k] = Tail2
        <5>1. freed = cells
          BY <4>1
        <5> HIDE DEF freed
        <5> QED BY <1>1, <1>3, <1>5, <4>1, <5>1, CellKinds
      <4>2. CASE cells[k] # Tail2
        <5>1. freed = ClearPair(cells, k)
          BY <2>2, <4>2
        <5> HIDE DEF freed, k
        <5>2. /\ freed \in CellRows(cols) /\ freed[k] \notin Wide
              /\ \A i \in 0 .. cols - 1 : i \notin k - 1 .. k + 1 => freed[i] = cells[i]
          BY <1>5, <3>1, <5>1, ClearPairType
        <5>3. freed[col] # Tail2
          <6> SUFFICES ASSUME freed[col] = Tail2 PROVE FALSE
            OBVIOUS
          <6> DEFINE p == col - 1
          <6>1. p \in 0 .. cols - 1 /\ freed[p] \in Wide
            BY <1>3, <5>2 DEF CellRows, Paired
          <6>2. p \notin k - 1 .. k + 1 /\ p + 1 = col
            BY <1>3 DEF k
          <6> HIDE DEF p
          <6>3. cells[p] \in Wide
            BY <5>2, <6>1, <6>2
          <6>4. cells[p + 1] = Tail2
            BY <1>8, <6>1, <6>3 DEF Paired
          <6> QED BY <1>1, <1>3, <6>2, <6>4
        <5> QED BY <5>2, <5>3
      <4> QED BY <4>1, <4>2
    <3>3. wide = [i \in 0 .. cols - 1 |-> IF i = col THEN "W" ELSE IF i = col + 1 THEN Tail2 ELSE freed[i]]
      BY <1>8, <2>2
    <3> HIDE DEF wide, freed
    <3> QED BY <1>3, <3>1, <3>2, <3>3, WideAt
  <2> QED BY <1>1, <2>1, <2>2
<1> HIDE DEF wide
<1>10. Draws(t, u, rows, cols)
  BY <1>3, <1>9, PutCellsStep
<1> HIDE DEF u
<1>11. u \in Vts(rows, cols)
  BY <1>10 DEF Draws
<1>12. Draws(u, v, rows, cols)
  BY <1>7, <1>11, PutCursorStep
<1> HIDE DEF v
<1> QED BY <1>6, <1>10, <1>12, DrawsThen

\* The cell is written where the cursor stands, or on the next line.
LEMMA WriteHereStep ==
  ASSUME NEW rows \in Nat \ {0}, NEW cols \in Nat \ {0}, NEW t \in Vts(rows, cols), NEW c \in Letters
  PROVE  Draws(t, WriteHere(t, c), rows, cols)
<1> DEFINE edge == Width(c) = 2 /\ t.cursor.col = LastCol(t)
           stuck == Width(c) = 2 /\ (t.grid.cols < 2 \/ (edge /\ ~t.modes.wrap))
           b == BlankHere(t)
           n == NotPending(b)
           x == Inactive(n)
           y == IF edge THEN WrapLine(b) ELSE t
           z == PutChar(y, c)
<1>1. WriteHere(t, c) = IF stuck THEN x ELSE z
  BY DEF WriteHere
<1>2. LastCol(t) = cols - 1 /\ t.grid.cols = cols /\ t.cursor.col \in 0 .. cols - 1
  BY VtParts
<1>3. Draws(t, b, rows, cols)
  BY BlankHereStep
<1> HIDE DEF b
<1>4. b \in Vts(rows, cols)
  BY <1>3 DEF Draws
<1>5. Draws(t, x, rows, cols)
  <2>1. Draws(b, n, rows, cols)
    BY <1>4, NotPendingStep
  <2> HIDE DEF n
  <2>2. Draws(t, n, rows, cols)
    BY <1>3, <2>1, DrawsThen
  <2>3. n \in Vts(rows, cols)
    BY <2>1 DEF Draws
  <2>4. Draws(n, x, rows, cols)
    BY <2>3, InactiveStep
  <2> HIDE DEF x
  <2> QED BY <2>2, <2>4, DrawsThen
<1>6. ASSUME ~stuck PROVE Draws(t, z, rows, cols)
  <2>1. Draws(t, y, rows, cols) /\ (edge => y.cursor.col = 0) /\ (~edge => y = t)
    <3>1. CASE edge
      <4> DEFINE l == WrapLine(b)
      <4>1. Draws(b, l, rows, cols) /\ l.cursor.col = 0
        BY <1>4, WrapLineStep
      <4>2. y = l
        BY <3>1
      <4> HIDE DEF l, y, edge
      <4>3. Draws(t, l, rows, cols)
        BY <1>3, <4>1, DrawsThen
      <4> QED BY <3>1, <4>1, <4>2, <4>3
    <3>2. CASE ~edge
      <4>1. y = t
        BY <3>2
      <4> HIDE DEF y, edge
      <4> QED BY <3>2, <4>1, DrawsSelf
    <3> QED BY <3>1, <3>2
  <2>2. Width(c) = 2 => y.cursor.col + 1 \in 0 .. cols - 1
    <3> SUFFICES ASSUME Width(c) = 2 PROVE y.cursor.col + 1 \in 0 .. cols - 1
      OBVIOUS
    <3>1. ~(cols < 2)
      BY <1>2, <1>6
    <3>2. CASE edge
      <4> HIDE DEF y
      <4> QED BY <2>1, <3>1, <3>2
    <3>3. CASE ~edge
      <4> HIDE DEF y
      <4> QED BY <1>2, <2>1, <3>3
    <3> QED BY <3>2, <3>3
  <2> HIDE DEF y
  <2>3. y \in Vts(rows, cols)
    BY <2>1 DEF Draws
  <2>4. Draws(y, z, rows, cols)
    BY <2>2, <2>3, PutCharStep
  <2> HIDE DEF z
  <2> QED BY <2>1, <2>4, DrawsThen
<1> HIDE DEF x, z
<1> QED BY <1>1, <1>5, <1>6

\* write_char, for a character of its own.
LEMMA WriteFreshStep ==
  ASSUME NEW rows \in Nat \ {0}, NEW cols \in Nat \ {0}, NEW t \in Vts(rows, cols), NEW c \in Letters
  PROVE  Draws(t, WriteFresh(t, c), rows, cols)
<1> DEFINE y == IF ~t.cursor.pending THEN t
                ELSE IF t.modes.wrap THEN WrapLine(t) ELSE MoveTo(t, t.cursor.row, LastCol(t))
<1>1. t.cursor.row \in 0 .. rows - 1 /\ LastCol(t) \in 0 .. cols - 1
  BY VtParts
<1>2. Draws(t, MoveTo(t, t.cursor.row, LastCol(t)), rows, cols)
  BY <1>1, MoveToStep
<1>3. Draws(t, WrapLine(t), rows, cols)
  BY WrapLineStep
<1>4. Draws(t, y, rows, cols)
  BY <1>2, <1>3, DrawsSelf
<1>5. WriteFresh(t, c) = WriteHere(y, c)
  BY DEF WriteFresh
<1> HIDE DEF y
<1>6. y \in Vts(rows, cols)
  BY <1>4 DEF Draws
<1>7. Draws(y, WriteHere(y, c), rows, cols)
  BY <1>6, WriteHereStep
<1> QED BY <1>4, <1>5, <1>7, DrawsThen

\* write_char, whatever is printed.
LEMMA WriteCharStep ==
  ASSUME NEW rows \in Nat \ {0}, NEW cols \in Nat \ {0}, NEW t \in Vts(rows, cols), NEW c \in Chars
  PROVE  Draws(t, WriteChar(t, c), rows, cols)
<1>1. c = "zwj" \/ c \in Letters
  BY CharsAssumption DEF Letters
<1>2. CASE c = "zwj"
  BY <1>2, AppendJoinerStep DEF WriteChar
<1>3. CASE c # "zwj" /\ Joins(t, c)
  BY <1>1, <1>3, JoinStep DEF WriteChar
<1>4. CASE c # "zwj" /\ ~Joins(t, c)
  BY <1>1, <1>4, WriteFreshStep DEF WriteChar
<1> QED BY <1>2, <1>3, <1>4

\* write_char, after a cluster that takes no more.
LEMMA WriteAfterFullStep ==
  ASSUME NEW rows \in Nat \ {0}, NEW cols \in Nat \ {0}, NEW t \in Vts(rows, cols),
         NEW c \in Chars \ {"zwj"}, ActiveCell(t) \in {"z", "Z"}
  PROVE  Draws(t, WriteAfterFull(t, c), rows, cols)
<1> DEFINE row == t.active[1]
           cells == VisibleRow(t.grid, row).cells
           u == PutGrid(t, SetCells(t.grid, row, cells))
<1>1. WriteAfterFull(t, c) = WriteFresh(u, c)
  BY DEF WriteAfterFull
<1>2. t.active # None
  BY CellKinds DEF ActiveCell, Blank
<1>3. row \in 0 .. rows - 1
  BY <1>2, ActiveCellType
<1>4. cells \in CellRows(cols)
  BY <1>3, VtParts, VisibleRowType
<1> HIDE DEF cells, row
<1>5. Draws(t, u, rows, cols)
  BY <1>3, <1>4, PutCellsStep
<1> HIDE DEF u
<1>6. u \in Vts(rows, cols) /\ c \in Letters
  BY <1>5, CharsAssumption DEF Draws, Letters
<1>7. Draws(u, WriteFresh(u, c), rows, cols)
  BY <1>6, WriteFreshStep
<1> QED BY <1>1, <1>5, <1>7, DrawsThen

(***************************************************************************)
(* The two screens and synchronized output                                 *)
(***************************************************************************)

\* The terminal between two control functions: a parked primary screen
\* exactly while the alternate one is live, and an alternate or a retired
\* screen whose tally of writes stands for its text.
Good(t, rows, cols) ==
  /\ t \in Vts(rows, cols) /\ t.top <= t.bottom
  /\ t.modes.alt => t.stash \in Buffers(rows, cols) /\ t.stash # None /\ Fresh(t.grid)
  /\ ~t.modes.alt => t.stash = None
  /\ t.spare # None => Fresh(t.spare)
  /\ ~t.armed => /\ t.frozenGrid = None /\ t.frozenCursor = None
                 /\ t.frozenColor = None /\ t.frozenAlt = None

\* What any control function does: nothing is counted, a buffer that stays
\* live only grows its tally, and what is presented changes with its marks.
Feeds(t, u, rows, cols) ==
  /\ Good(u, rows, cols) /\ u.hidden = t.hidden /\ u.revision = t.revision
  /\ u.modes.alt = t.modes.alt => Later(t.grid, u.grid)
  /\ Dirties(ShownGrid(t), ShownGrid(u))

\* A blank buffer stays one until it is written to.
LEMMA FreshLater ==
  ASSUME NEW rows \in Nat \ {0}, NEW cols \in Nat \ {0}, NEW g \in Buffers(rows, cols),
         NEW h \in Buffers(rows, cols), Later(g, h), Fresh(g)
  PROVE  Fresh(h)
<1>1. g.writes \in Nat /\ h.writes \in Nat /\ g.cols = h.cols
  BY BufferParts
<1> QED BY <1>1 DEF Later, Fresh

\* An edit of the screen is what a control function may do.
LEMMA DrawsFeeds ==
  ASSUME NEW rows \in Nat \ {0}, NEW cols \in Nat \ {0}, NEW t, Good(t, rows, cols),
         NEW u, Draws(t, u, rows, cols)
  PROVE  Feeds(t, u, rows, cols)
<1>1. t \in Vts(rows, cols) /\ u \in Vts(rows, cols) /\ Keeps(t, u) /\ Onto(t.grid, u.grid, rows, cols)
  BY DEF Good, Draws
<1>2. t.grid \in Buffers(rows, cols) /\ u.grid \in Buffers(rows, cols) /\ Later(t.grid, u.grid)
  BY <1>1, VtParts DEF Onto
<1>3. t.modes.alt => Fresh(u.grid)
  BY <1>2, FreshLater DEF Good
<1>4. Good(u, rows, cols)
  BY <1>1, <1>3 DEF Good, Draws, Keeps
<1> QED BY <1>1, <1>2, <1>4 DEF Feeds, Draws, Keeps

\* A control function may end with an edit.
LEMMA FeedsThen ==
  ASSUME NEW rows \in Nat \ {0}, NEW cols \in Nat \ {0}, NEW t, Good(t, rows, cols),
         NEW u, Feeds(t, u, rows, cols), NEW v, Draws(u, v, rows, cols)
  PROVE  Feeds(t, v, rows, cols)
<1>1. Good(u, rows, cols)
  BY DEF Feeds
<1>2. Feeds(u, v, rows, cols)
  BY <1>1, DrawsFeeds
<1>3. t \in Vts(rows, cols) /\ u \in Vts(rows, cols) /\ v \in Vts(rows, cols)
  BY <1>1 DEF Good, Draws
<1>4. ShownGrid(t) \in Buffers(rows, cols) /\ ShownGrid(u) \in Buffers(rows, cols) /\ ShownGrid(v) \in Buffers(rows, cols)
  BY <1>3, ShownType
<1>5. Dirties(ShownGrid(t), ShownGrid(u)) /\ Dirties(ShownGrid(u), ShownGrid(v))
  BY <1>2 DEF Feeds
<1>6. Dirties(ShownGrid(t), ShownGrid(v))
  BY <1>4, <1>5, DirtiesThen
<1>7. u.modes.alt = v.modes.alt
  BY DEF Draws, Keeps
<1>8. t.grid.writes \in Nat /\ u.grid.writes \in Nat /\ v.grid.writes \in Nat
  BY <1>3, VtParts, BufferParts
<1>9. v.modes.alt = t.modes.alt => Later(t.grid, v.grid)
  <2> SUFFICES ASSUME v.modes.alt = t.modes.alt PROVE Later(t.grid, v.grid)
    OBVIOUS
  <2>1. Later(t.grid, u.grid) /\ Later(u.grid, v.grid)
    BY <1>2, <1>7 DEF Feeds
  <2> QED BY <1>8, <2>1 DEF Later
<1> QED BY <1>2, <1>6, <1>9 DEF Feeds

\* A buffer all of which is dirty.
LEMMA AllDirty ==
  ASSUME NEW g, NEW h, h.dirty.all
  PROVE  Dirties(g, h)
BY DEF Dirties, IsDirtyCell

\* Marks do not touch the text.
LEMMA MarkedFresh ==
  ASSUME NEW rows \in Nat \ {0}, NEW cols \in Nat \ {0}, NEW g \in Buffers(rows, cols), Fresh(g)
  PROVE  Fresh(MarkAll(g))
<1> DEFINE h == MarkAll(g)
<1>1. h \in Buffers(rows, cols) /\ Onto(g, h, rows, cols)
  BY MarkAllStep
<1> HIDE DEF h
<1>2. Later(g, h)
  BY <1>1 DEF Onto
<1>3. Fresh(h)
  BY <1>1, <1>2, FreshLater
<1> QED BY <1>3 DEF h

\* The alternate screen is blank, whichever buffer it is.
LEMMA AltGridType ==
  ASSUME NEW rows \in Nat \ {0}, NEW cols \in Nat \ {0}, NEW t, Good(t, rows, cols)
  PROVE  AltGrid(t) \in Buffers(rows, cols) /\ AltGrid(t).dirty.all /\ Fresh(AltGrid(t))
<1> DEFINE g == IF t.spare = None THEN NewGrid(rows, cols, 0)
                ELSE IF IsBlankCanvas(t.spare, rows, cols, 0) THEN t.spare
                ELSE ResetBlank(t.spare, rows, cols, 0)
<1>1. t \in Vts(rows, cols)
  BY DEF Good
<1>2. t.grid.rows = rows /\ t.grid.cols = cols /\ t.spare \in Buffers(rows, cols) \cup {None}
  BY <1>1, VtParts DEF Vts
<1>3. AltGrid(t) = MarkAll(g)
  BY <1>2 DEF AltGrid
<1>4. 0 \in Nat
  OBVIOUS
<1>5. NewGrid(rows, cols, 0) \in Buffers(rows, cols) /\ Fresh(NewGrid(rows, cols, 0))
  BY <1>4, NewGridType
<1>6. g \in Buffers(rows, cols) /\ Fresh(g)
  BY <1>2, <1>5 DEF Good, ResetBlank
<1> HIDE DEF g
<1> DEFINE h == MarkAll(g)
<1>7. h \in Buffers(rows, cols) /\ h.dirty.all
  BY <1>6, MarkAllStep
<1>8. Fresh(h)
  BY <1>6, MarkedFresh
<1> HIDE DEF h
<1> QED BY <1>3, <1>7, <1>8 DEF h

\* Another live buffer and cursor, another buffer parked, another retired
\* and the flag set.
Shift(t, g, c, stash, spare, parked) ==
  [PutCursor(PutGrid(t, g), c) EXCEPT !.stash = stash, !.spare = spare, !.stashCursor = parked]
Swap(t, g, c, stash, spare, parked, on) == PutAlt(Shift(t, g, c, stash, spare, parked), on)

Shifted(t, u, g, c, stash, spare, rows, cols) ==
  /\ u \in Vts(rows, cols) /\ Dirties(ShownGrid(t), ShownGrid(u))
  /\ u.grid = g /\ u.cursor = c /\ u.stash = stash /\ u.spare = spare
  /\ Holds(t, u) /\ u.hidden = t.hidden /\ u.revision = t.revision /\ u.armed = t.armed
  /\ u.color = t.color /\ u.flooded = t.flooded
  /\ ~t.armed => /\ u.frozenGrid = t.frozenGrid /\ u.frozenCursor = t.frozenCursor
                 /\ u.frozenColor = t.frozenColor /\ u.frozenAlt = t.frozenAlt

\* The fields that a swap sets.
LEMMA ParkedType ==
  ASSUME NEW rows \in Nat \ {0}, NEW cols \in Nat \ {0}, NEW q \in Vts(rows, cols),
         NEW stash \in Buffers(rows, cols) \cup {None}, NEW spare \in Buffers(rows, cols) \cup {None},
         NEW parked \in Cursors(rows, cols) \cup {None}
  PROVE  [q EXCEPT !.stash = stash, !.spare = spare, !.stashCursor = parked] \in Vts(rows, cols)
BY Zenon DEF Vts

\* The fields after a swap of buffers.
LEMMA SwapFields ==
  ASSUME NEW rows \in Nat \ {0}, NEW cols \in Nat \ {0}, NEW t \in Vts(rows, cols),
         NEW g \in Buffers(rows, cols), g.dirty.all, NEW c \in Cursors(rows, cols),
         NEW stash \in Buffers(rows, cols) \cup {None}, NEW spare \in Buffers(rows, cols) \cup {None},
         NEW parked \in Cursors(rows, cols) \cup {None}
  PROVE  Shifted(t, Shift(t, g, c, stash, spare, parked), g, c, stash, spare, rows, cols)
<1> DEFINE p == PutGrid(t, g)
           q == PutCursor(p, c)
           u == [q EXCEPT !.stash = stash, !.spare = spare, !.stashCursor = parked]
<1>1. Dirties(t.grid, g)
  BY AllDirty
<1>2. /\ p \in Vts(rows, cols) /\ Keeps(t, p) /\ Holds(t, p) /\ p.grid = g
      /\ Dirties(ShownGrid(t), ShownGrid(p)) /\ p.frozenCursor = t.frozenCursor
      /\ ~t.armed => p.frozenGrid = t.frozenGrid
  BY <1>1, PutGridShows
<1> HIDE DEF p
<1>3. Draws(p, q, rows, cols) /\ Holds(p, q) /\ q.grid = p.grid /\ q.cursor = c /\ q.frozenGrid = p.frozenGrid
  BY <1>2, PutCursorStep
<1> HIDE DEF q
<1>4. q \in Vts(rows, cols) /\ Keeps(p, q) /\ (~p.armed => q.frozenCursor = p.frozenCursor)
  BY <1>3 DEF Draws
<1>5. u \in Vts(rows, cols)
  <2>1. q \in Vts(rows, cols)
    BY <1>4
  <2> QED BY <2>1, ParkedType
<1>6. /\ u.grid = q.grid /\ u.cursor = q.cursor /\ u.stash = stash /\ u.spare = spare
      /\ u.modes = q.modes /\ u.top = q.top /\ u.bottom = q.bottom /\ u.active = q.active
  BY <1>4 DEF Vts
<1>7. /\ u.frozenGrid = q.frozenGrid /\ u.frozenCursor = q.frozenCursor
      /\ u.frozenColor = q.frozenColor /\ u.frozenAlt = q.frozenAlt /\ u.armed = q.armed
      /\ u.hidden = q.hidden /\ u.revision = q.revision /\ u.color = q.color /\ u.flooded = q.flooded
  BY <1>4 DEF Vts
<1> HIDE DEF u
<1>8. ShownGrid(u) = ShownGrid(p)
  BY <1>3, <1>6, <1>7 DEF ShownGrid
<1>9. /\ u.frozenColor = t.frozenColor /\ u.frozenAlt = t.frozenAlt /\ u.armed = t.armed
      /\ u.hidden = t.hidden /\ u.revision = t.revision /\ u.color = t.color /\ u.flooded = t.flooded
      /\ p.armed = t.armed
  BY <1>2, <1>4, <1>7 DEF Keeps
<1>10. Holds(t, u)
  BY <1>2, <1>3, <1>6 DEF Holds
<1> QED BY <1>2, <1>3, <1>4, <1>5, <1>6, <1>7, <1>8, <1>9, <1>10 DEF u, q, p, Shift, Shifted

\* A swap of screens: another buffer is live, marked all over, and the flag follows.
LEMMA SwapStep ==
  ASSUME NEW rows \in Nat \ {0}, NEW cols \in Nat \ {0}, NEW t, Good(t, rows, cols),
         NEW g \in Buffers(rows, cols), g.dirty.all, NEW c \in Cursors(rows, cols),
         NEW stash \in Buffers(rows, cols) \cup {None}, NEW spare \in Buffers(rows, cols) \cup {None},
         NEW parked \in Cursors(rows, cols) \cup {None}, NEW on \in BOOLEAN, on # t.modes.alt,
         on => stash \in Buffers(rows, cols) /\ stash # None /\ Fresh(g), ~on => stash = None,
         spare # None => Fresh(spare)
  PROVE  Feeds(t, Swap(t, g, c, stash, spare, parked, on), rows, cols)
<1> DEFINE u == Shift(t, g, c, stash, spare, parked)
           m == [u.modes EXCEPT !.alt = on]
           f == IF u.armed /\ u.frozenAlt = None THEN u.modes.alt ELSE u.frozenAlt
           v == [u EXCEPT !.modes = m, !.frozenAlt = f]
<1>0. t \in Vts(rows, cols)
  BY DEF Good
<1>1a. Shifted(t, u, g, c, stash, spare, rows, cols)
  BY <1>0, SwapFields
<1>2. Swap(t, g, c, stash, spare, parked, on) = PutAlt(u, on)
  BY DEF Swap
<1> HIDE DEF u
<1>1. /\ u \in Vts(rows, cols) /\ Dirties(ShownGrid(t), ShownGrid(u))
      /\ u.grid = g /\ u.cursor = c /\ u.stash = stash /\ u.spare = spare
      /\ Holds(t, u) /\ u.hidden = t.hidden /\ u.revision = t.revision /\ u.armed = t.armed
      /\ ~t.armed => /\ u.frozenGrid = t.frozenGrid /\ u.frozenCursor = t.frozenCursor
                     /\ u.frozenColor = t.frozenColor /\ u.frozenAlt = t.frozenAlt
  BY <1>1a DEF Shifted
<1>3. PutAlt(u, on) = v
  BY <1>1 DEF PutAlt, Vts
<1>4. u.modes \in Modes /\ u.frozenAlt \in BOOLEAN \cup {None} /\ u.armed \in BOOLEAN
  BY <1>1 DEF Vts
<1>5. m \in Modes /\ m.alt = on
  BY <1>4 DEF Modes
<1>6. f \in BOOLEAN \cup {None} /\ (~u.armed => f = u.frozenAlt)
  BY <1>4 DEF Modes
<1> HIDE DEF m, f
<1>7. v \in Vts(rows, cols)
  BY ZenonT(60), <1>1, <1>5, <1>6 DEF Vts
<1>8. /\ v.modes = m /\ v.frozenAlt = f /\ v.grid = u.grid /\ v.stash = u.stash /\ v.spare = u.spare
      /\ v.top = u.top /\ v.bottom = u.bottom
  BY <1>1 DEF Vts
<1>9. /\ v.frozenGrid = u.frozenGrid /\ v.frozenCursor = u.frozenCursor /\ v.frozenColor = u.frozenColor
      /\ v.armed = u.armed /\ v.hidden = u.hidden /\ v.revision = u.revision
  BY <1>1 DEF Vts
<1> HIDE DEF v
<1>10. ShownGrid(v) = ShownGrid(u)
  BY <1>8, <1>9 DEF ShownGrid
<1>11. t.top <= t.bottom /\ v.top = t.top /\ v.bottom = t.bottom
  BY <1>1, <1>8 DEF Good, Holds
<1>12. v.modes.alt = on /\ v.stash = stash /\ v.spare = spare /\ v.grid = g
  BY <1>1, <1>5, <1>8
<1>13. ~v.armed => /\ v.frozenGrid = None /\ v.frozenCursor = None
                   /\ v.frozenColor = None /\ v.frozenAlt = None
  BY <1>1, <1>6, <1>8, <1>9 DEF Good
<1>14. Good(v, rows, cols)
  BY <1>7, <1>11, <1>12, <1>13 DEF Good
<1> QED BY <1>1, <1>2, <1>3, <1>9, <1>10, <1>12, <1>14 DEF Feeds

\* A control function may begin with an edit.
LEMMA DrawsThenFeeds ==
  ASSUME NEW rows \in Nat \ {0}, NEW cols \in Nat \ {0}, NEW t, Good(t, rows, cols),
         NEW u, Draws(t, u, rows, cols), NEW v, Feeds(u, v, rows, cols)
  PROVE  Feeds(t, v, rows, cols)
<1>1. Feeds(t, u, rows, cols)
  BY DrawsFeeds
<1>2. t \in Vts(rows, cols) /\ u \in Vts(rows, cols) /\ v \in Vts(rows, cols)
  BY DEF Good, Draws, Feeds
<1>3. ShownGrid(t) \in Buffers(rows, cols) /\ ShownGrid(u) \in Buffers(rows, cols) /\ ShownGrid(v) \in Buffers(rows, cols)
  BY <1>2, ShownType
<1>4. Dirties(ShownGrid(t), ShownGrid(u)) /\ Dirties(ShownGrid(u), ShownGrid(v))
  BY <1>1 DEF Feeds
<1>5. Dirties(ShownGrid(t), ShownGrid(v))
  BY <1>3, <1>4, DirtiesThen
<1>6. u.modes.alt = t.modes.alt
  BY DEF Draws, Keeps
<1>7. t.grid.writes \in Nat /\ u.grid.writes \in Nat /\ v.grid.writes \in Nat
  BY <1>2, VtParts, BufferParts
<1>8. v.modes.alt = t.modes.alt => Later(t.grid, v.grid)
  <2> SUFFICES ASSUME v.modes.alt = t.modes.alt PROVE Later(t.grid, v.grid)
    OBVIOUS
  <2>1. Later(t.grid, u.grid) /\ Later(u.grid, v.grid)
    BY <1>1, <1>6 DEF Feeds
  <2> QED BY <1>7, <2>1 DEF Later
<1> QED BY <1>1, <1>5, <1>8 DEF Feeds

\* The sizes a terminal can have, and that no buffer of such a size and no snapshot
\* of one is None.
IsSize(rows, cols) == <<rows, cols>> \in {Size} \cup Sizes

\* The sizes are not zero, and None stands for no buffer of theirs.
LEMMA SizeType ==
  ASSUME NEW rows, NEW cols, IsSize(rows, cols)
  PROVE  /\ rows \in Nat \ {0} /\ cols \in Nat \ {0} /\ None \notin Buffers(rows, cols)
         /\ None \notin Snapshots(rows, cols)
<1> DEFINE size == <<rows, cols>>
<1>1. size \in {Size} \cup Sizes /\ size[1] = rows /\ size[2] = cols
  BY DEF IsSize
<1>2. size \in (Nat \ {0}) \X (Nat \ {0})
  BY <1>1, SizesAssumption
<1>3. /\ None \notin Buffers(size[1], size[2])
      /\ None \notin [grid : Buffers(size[1], size[2]), history : Nat, evicted : Nat]
  <2> HIDE DEF size
  <2> QED BY <1>1, NoneAssumption
<1> QED BY <1>1, <1>2, <1>3 DEF Snapshots

\* The home position is on every screen.
LEMMA HomeType ==
  ASSUME NEW rows \in Nat \ {0}, NEW cols \in Nat \ {0}, NEW s \in Saves \cup {None}
  PROVE  HomeCursor \in Cursors(rows, cols) /\ [HomeCursor EXCEPT !.saved = s] \in Cursors(rows, cols)
<1>1. 0 \in 0 .. rows - 1 /\ 0 \in 0 .. cols - 1
  OBVIOUS
<1>2. HomeCursor \in Cursors(rows, cols)
  BY <1>1 DEF HomeCursor, Cursors
<1> QED BY <1>2 DEF Cursors

\* The alternate screen becomes live: new, retired and blank, or wiped.
LEMMA EnterStep ==
  ASSUME NEW rows, NEW cols, IsSize(rows, cols), NEW t, Good(t, rows, cols), ~t.modes.alt, NEW park \in BOOLEAN
  PROVE  Feeds(t, PutAlt(Enter(t, park), TRUE), rows, cols)
<1> DEFINE cursor == IF park THEN [HomeCursor EXCEPT !.saved = t.cursor.saved] ELSE t.cursor
           parked == IF park THEN t.cursor ELSE None
           g == AltGrid(t)
<1>1. rows \in Nat \ {0} /\ cols \in Nat \ {0} /\ None \notin Buffers(rows, cols)
  BY SizeType
<1>2. t \in Vts(rows, cols)
  BY DEF Good
<1>3. t.cursor \in Cursors(rows, cols) /\ t.grid \in Buffers(rows, cols) /\ t.modes \in Modes
  BY <1>1, <1>2, VtParts
<1>4. t.cursor.saved \in Saves \cup {None}
  BY <1>3 DEF Cursors
<1>5. cursor \in Cursors(rows, cols) /\ parked \in Cursors(rows, cols) \cup {None}
  BY <1>1, <1>3, <1>4, HomeType
<1>6. g \in Buffers(rows, cols) /\ g.dirty.all /\ Fresh(g)
  BY <1>1, AltGridType
<1>7. PutAlt(Enter(t, park), TRUE) = Swap(t, g, cursor, t.grid, None, parked, TRUE)
  BY DEF Enter, Swap, Shift
<1> HIDE DEF g, cursor, parked
<1>8. t.grid # None /\ TRUE # t.modes.alt
  BY <1>1, <1>3 DEF Modes
<1>9. Feeds(t, Swap(t, g, cursor, t.grid, None, parked, TRUE), rows, cols)
  BY <1>1, <1>3, <1>5, <1>6, <1>8, SwapStep
<1> QED BY <1>7, <1>9

\* The primary screen comes back and the alternate one is retired.
LEMMA LeaveStep ==
  ASSUME NEW rows, NEW cols, IsSize(rows, cols), NEW t, Good(t, rows, cols), t.modes.alt, NEW restore \in BOOLEAN
  PROVE  Feeds(t, PutAlt(Leave(t, restore), FALSE), rows, cols)
<1> DEFINE cursor == IF restore /\ t.stashCursor # None THEN t.stashCursor ELSE t.cursor
           g == MarkAll(t.stash)
<1>1. rows \in Nat \ {0} /\ cols \in Nat \ {0} /\ None \notin Buffers(rows, cols)
  BY SizeType
<1>2. t \in Vts(rows, cols) /\ t.stash \in Buffers(rows, cols) /\ Fresh(t.grid)
  BY DEF Good
<1>3. /\ t.cursor \in Cursors(rows, cols) /\ t.grid \in Buffers(rows, cols) /\ t.modes \in Modes
      /\ t.stashCursor \in Cursors(rows, cols) \cup {None}
  BY <1>1, <1>2, VtParts DEF Vts
<1>4. cursor \in Cursors(rows, cols)
  BY <1>3
<1>5. g \in Buffers(rows, cols) /\ g.dirty.all
  BY <1>1, <1>2, MarkAllStep
<1>6. PutAlt(Leave(t, restore), FALSE) = Swap(t, g, cursor, None, t.grid, None, FALSE)
  BY DEF Leave, Swap, Shift
<1> HIDE DEF g, cursor
<1>7. FALSE # t.modes.alt
  BY <1>3 DEF Modes
<1>8. Feeds(t, Swap(t, g, cursor, None, t.grid, None, FALSE), rows, cols)
  BY <1>1, <1>2, <1>3, <1>4, <1>5, <1>7, SwapStep
<1> QED BY <1>6, <1>8

\* A control function may do nothing.
LEMMA GoodSelf ==
  ASSUME NEW rows \in Nat \ {0}, NEW cols \in Nat \ {0}, NEW t, Good(t, rows, cols)
  PROVE  Feeds(t, t, rows, cols)
<1>1. t \in Vts(rows, cols)
  BY DEF Good
<1>2. Draws(t, t, rows, cols)
  BY <1>1, DrawsSelf
<1> QED BY <1>2, DrawsFeeds

\* ?1047h and ?1047l.
LEMMA Open1047Step ==
  ASSUME NEW rows, NEW cols, IsSize(rows, cols), NEW t, Good(t, rows, cols)
  PROVE  Feeds(t, Open1047(t), rows, cols) /\ Feeds(t, Close1047(t), rows, cols)
<1>1. rows \in Nat \ {0} /\ cols \in Nat \ {0}
  BY SizeType
<1>2. Feeds(t, t, rows, cols)
  BY <1>1, GoodSelf
<1>3. FALSE \in BOOLEAN
  OBVIOUS
<1>4. t.modes.alt => Feeds(t, PutAlt(Leave(t, FALSE), FALSE), rows, cols)
  BY <1>3, LeaveStep
<1>5. ~t.modes.alt => Feeds(t, PutAlt(Enter(t, FALSE), TRUE), rows, cols)
  BY <1>3, EnterStep
<1> QED BY <1>2, <1>4, <1>5 DEF Open1047, Close1047

\* ?1049l.
LEMMA Close1049Step ==
  ASSUME NEW rows, NEW cols, IsSize(rows, cols), NEW t, Good(t, rows, cols)
  PROVE  Feeds(t, Close1049(t), rows, cols)
<1> DEFINE u == IF t.modes.alt THEN PutAlt(Leave(t, TRUE), FALSE) ELSE t
<1>1. rows \in Nat \ {0} /\ cols \in Nat \ {0}
  BY SizeType
<1>2. Feeds(t, t, rows, cols)
  BY <1>1, GoodSelf
<1>3. TRUE \in BOOLEAN
  OBVIOUS
<1>4. t.modes.alt => Feeds(t, PutAlt(Leave(t, TRUE), FALSE), rows, cols)
  BY <1>3, LeaveStep
<1>5. Feeds(t, u, rows, cols)
  BY <1>2, <1>4
<1>6. Close1049(t) = RestoreCursor(u)
  BY DEF Close1049
<1> HIDE DEF u
<1>7. u \in Vts(rows, cols)
  BY <1>5 DEF Feeds, Good
<1>8. Draws(u, RestoreCursor(u), rows, cols)
  BY <1>1, <1>7, RestoreCursorStep
<1> QED BY <1>1, <1>5, <1>6, <1>8, FeedsThen

\* ?1049h, also when the alternate screen is live already.
LEMMA Open1049Step ==
  ASSUME NEW rows, NEW cols, IsSize(rows, cols), NEW t, Good(t, rows, cols)
  PROVE  Feeds(t, Open1049(t), rows, cols)
<1> DEFINE s == SaveCursor(t)
<1>1. rows \in Nat \ {0} /\ cols \in Nat \ {0} /\ t \in Vts(rows, cols)
  BY SizeType DEF Good
<1>2. Draws(t, s, rows, cols) /\ Holds(t, s) /\ s.grid = t.grid /\ s.cursor \in Cursors(rows, cols)
  BY <1>1, SaveCursorStep
<1> HIDE DEF s
<1>3. Feeds(t, s, rows, cols)
  BY <1>1, <1>2, DrawsFeeds
<1>4. Good(s, rows, cols) /\ s \in Vts(rows, cols)
  BY <1>3 DEF Feeds, Good
<1>5. CASE t.modes.alt
  <2> DEFINE g == ClearVisible(s.grid)
             u == PutGrid(s, g)
             d == [HomeCursor EXCEPT !.saved = s.cursor.saved]
             v == PutCursor(u, d)
  <2>1. s.cursor.saved \in Saves \cup {None}
    BY <1>2 DEF Cursors
  <2>2. d \in Cursors(rows, cols)
    BY <1>1, <2>1, HomeType
  <2>3. Onto(s.grid, g, rows, cols)
    <3>1. s.grid \in Buffers(rows, cols) /\ 0 \in Int /\ rows \in Int /\ Blank \in {Blank, "E"} /\ s.grid.rows = rows
      BY <1>1, <1>4, VtParts
    <3>2. Onto(s.grid, FillRows(s.grid, 0, rows, Blank), rows, cols)
      BY <1>1, <3>1, FillRowsStep
    <3> QED BY <3>1, <3>2 DEF ClearVisible
  <2>4. Open1049(t) = v
    BY <1>5 DEF Open1049, s
  <2> HIDE DEF g, d
  <2>5. Draws(s, u, rows, cols)
    BY <1>1, <1>4, <2>3, PutGridStep
  <2> HIDE DEF u
  <2>6. u \in Vts(rows, cols)
    BY <2>5 DEF Draws
  <2>7. Draws(u, v, rows, cols)
    BY <1>1, <2>2, <2>6, PutCursorStep
  <2> HIDE DEF v
  <2>8. Draws(s, v, rows, cols)
    BY <1>1, <1>4, <2>5, <2>7, DrawsThen
  <2> QED BY <1>1, <1>3, <2>4, <2>8, FeedsThen
<1>6. CASE ~t.modes.alt
  <2>1. ~s.modes.alt /\ TRUE \in BOOLEAN
    BY <1>2, <1>6 DEF Holds
  <2>2. Feeds(s, PutAlt(Enter(s, TRUE), TRUE), rows, cols)
    BY <1>4, <2>1, EnterStep
  <2>3. Feeds(t, PutAlt(Enter(s, TRUE), TRUE), rows, cols)
    BY <1>1, <1>2, <2>2, DrawsThenFeeds
  <2> QED BY <1>6, <2>3 DEF Open1049, s
<1> QED BY <1>5, <1>6

\* release_sync_presentation drops every snapshot and nothing else.
LEMMA ReleaseFields ==
  ASSUME NEW rows \in Nat \ {0}, NEW cols \in Nat \ {0}, NEW t \in Vts(rows, cols)
  PROVE  LET u == ReleaseSync(t) IN
         /\ u \in Vts(rows, cols) /\ ~u.armed
         /\ u.frozenGrid = None /\ u.frozenCursor = None /\ u.frozenColor = None /\ u.frozenAlt = None
         /\ u.grid = t.grid /\ u.cursor = t.cursor /\ u.stash = t.stash /\ u.stashCursor = t.stashCursor
         /\ u.spare = t.spare /\ Holds(t, u) /\ u.color = t.color /\ u.flooded = t.flooded
         /\ u.hidden = t.hidden /\ u.revision = t.revision
<1> DEFINE u == ReleaseSync(t)
<1>1. u \in Vts(rows, cols)
  BY Zenon DEF Vts, ReleaseSync
<1>2. /\ u.armed = FALSE /\ u.frozenGrid = None /\ u.frozenCursor = None /\ u.frozenColor = None /\ u.frozenAlt = None
  BY DEF Vts, ReleaseSync
<1>3. /\ u.grid = t.grid /\ u.cursor = t.cursor /\ u.stash = t.stash /\ u.stashCursor = t.stashCursor
      /\ u.spare = t.spare /\ u.modes = t.modes /\ u.top = t.top /\ u.bottom = t.bottom
  BY DEF Vts, ReleaseSync
<1>4. /\ u.active = t.active /\ u.color = t.color /\ u.flooded = t.flooded
      /\ u.hidden = t.hidden /\ u.revision = t.revision
  BY DEF Vts, ReleaseSync
<1> HIDE DEF u
<1> QED BY <1>1, <1>2, <1>3, <1>4 DEF u, Holds

\* Another live buffer, with the window open or not: nothing else changes.
Rearm(t, g, on, full) == [t EXCEPT !.grid = g, !.armed = on, !.flooded = full]

Rearmed(t, u, g, on, rows, cols) ==
  /\ u \in Vts(rows, cols) /\ u.armed = on /\ u.grid = g
  /\ u.frozenGrid = t.frozenGrid /\ u.frozenCursor = t.frozenCursor
  /\ u.frozenColor = t.frozenColor /\ u.frozenAlt = t.frozenAlt
  /\ u.cursor = t.cursor /\ u.stash = t.stash /\ u.stashCursor = t.stashCursor
  /\ u.spare = t.spare /\ Holds(t, u) /\ u.hidden = t.hidden /\ u.revision = t.revision

\* The type of a terminal whose window opens or closes.
LEMMA RearmType ==
  ASSUME NEW rows \in Nat \ {0}, NEW cols \in Nat \ {0}, NEW t \in Vts(rows, cols),
         NEW g \in Buffers(rows, cols), NEW on \in BOOLEAN, NEW full \in BOOLEAN
  PROVE  [t EXCEPT !.grid = g, !.armed = on, !.flooded = full] \in Vts(rows, cols)
BY ZenonT(60) DEF Vts

\* The fields of a terminal whose window opens or closes.
LEMMA RearmFields ==
  ASSUME NEW rows \in Nat \ {0}, NEW cols \in Nat \ {0}, NEW t \in Vts(rows, cols),
         NEW g \in Buffers(rows, cols), NEW on \in BOOLEAN, NEW full \in BOOLEAN
  PROVE  Rearmed(t, Rearm(t, g, on, full), g, on, rows, cols)
<1> DEFINE u == [t EXCEPT !.grid = g, !.armed = on, !.flooded = full]
<1>1. u \in Vts(rows, cols)
  BY RearmType
<1>2. /\ u.armed = on /\ u.grid = g
      /\ u.frozenGrid = t.frozenGrid /\ u.frozenCursor = t.frozenCursor
      /\ u.frozenColor = t.frozenColor /\ u.frozenAlt = t.frozenAlt
  BY DEF Vts
<1>3. /\ u.cursor = t.cursor /\ u.stash = t.stash /\ u.stashCursor = t.stashCursor /\ u.spare = t.spare
      /\ u.hidden = t.hidden /\ u.revision = t.revision
  BY DEF Vts
<1>4. u.modes = t.modes /\ u.top = t.top /\ u.bottom = t.bottom /\ u.active = t.active
  BY DEF Vts
<1>5. Rearm(t, g, on, full) = u
  BY DEF Rearm
<1> HIDE DEF u
<1>6. Rearmed(t, u, g, on, rows, cols)
  BY <1>1, <1>2, <1>3, <1>4 DEF Rearmed, Holds
<1> QED BY <1>5, <1>6

\* A terminal with its window open or closed and its live buffer marked.
Marked(t, u, rows, cols) ==
  /\ u \in Vts(rows, cols) /\ u.grid = MarkAll(t.grid)
  /\ u.cursor = t.cursor /\ u.stash = t.stash /\ u.stashCursor = t.stashCursor
  /\ u.spare = t.spare /\ Holds(t, u) /\ u.hidden = t.hidden /\ u.revision = t.revision
  /\ u.frozenGrid = None
  /\ ~u.armed => u.frozenCursor = None /\ u.frozenColor = None /\ u.frozenAlt = None

\* Marking the whole live buffer changes no text.
LEMMA MarkedFeeds ==
  ASSUME NEW rows \in Nat \ {0}, NEW cols \in Nat \ {0}, NEW t, Good(t, rows, cols),
         NEW u, Marked(t, u, rows, cols)
  PROVE  Feeds(t, u, rows, cols) /\ u.grid.raw = t.grid.raw /\ u.grid.writes = t.grid.writes
<1> DEFINE g == MarkAll(t.grid)
<1>1. t \in Vts(rows, cols) /\ u \in Vts(rows, cols) /\ u.grid = g
  BY DEF Good, Marked
<1>2. t.grid \in Buffers(rows, cols)
  BY <1>1, VtParts
<1>3. /\ g \in Buffers(rows, cols) /\ g.dirty.all /\ g.raw = t.grid.raw /\ g.writes = t.grid.writes
      /\ Onto(t.grid, g, rows, cols)
  BY <1>2, MarkAllStep
<1>4. Fresh(t.grid) => Fresh(g)
  BY <1>2, MarkedFresh
<1> HIDE DEF g
<1>5. ShownGrid(u) = g
  BY <1>1 DEF Marked, ShownGrid
<1>6. Dirties(ShownGrid(t), ShownGrid(u))
  BY <1>3, <1>5, AllDirty
<1>7. Later(t.grid, u.grid)
  BY <1>1, <1>3 DEF Onto
<1>8. Good(u, rows, cols)
  BY <1>1, <1>4 DEF Good, Marked, Holds
<1> QED BY <1>1, <1>3, <1>6, <1>7, <1>8 DEF Feeds, Marked

\* ?2026h
LEMMA OpenSyncStep ==
  ASSUME NEW rows \in Nat \ {0}, NEW cols \in Nat \ {0}, NEW t, Good(t, rows, cols)
  PROVE  Feeds(t, OpenSync(t), rows, cols)
<1>1. t \in Vts(rows, cols)
  BY DEF Good
<1>2. CASE t.armed
  <2>1. OpenSync(t) = t
    BY <1>2 DEF OpenSync
  <2> QED BY <2>1, GoodSelf
<1>3. CASE ~t.armed
  <2> DEFINE g == MarkAll(t.grid)
             u == Rearm(t, g, TRUE, t.flooded)
  <2>1. t.grid \in Buffers(rows, cols) /\ t.flooded \in BOOLEAN /\ TRUE \in BOOLEAN
    BY <1>1, VtParts DEF Vts
  <2>2. g \in Buffers(rows, cols)
    BY <2>1, MarkAllStep
  <2>3. OpenSync(t) = u
    BY <1>1, <1>3 DEF OpenSync, Vts, Rearm
  <2> HIDE DEF g
  <2>4a. Rearmed(t, u, g, TRUE, rows, cols)
    BY <1>1, <2>1, <2>2, RearmFields
  <2> HIDE DEF u
  <2>4. /\ u \in Vts(rows, cols) /\ u.armed = TRUE /\ u.grid = g
        /\ u.frozenGrid = t.frozenGrid
        /\ u.cursor = t.cursor /\ u.stash = t.stash /\ u.stashCursor = t.stashCursor
        /\ u.spare = t.spare /\ Holds(t, u) /\ u.hidden = t.hidden /\ u.revision = t.revision
    BY <2>4a DEF Rearmed
  <2>5. Marked(t, u, rows, cols)
    BY <1>3, <2>4 DEF Marked, Good, g
  <2> QED BY <2>3, <2>5, MarkedFeeds
<1> QED BY <1>2, <1>3

\* A window closed by the program, by its age or by its size.
Released(t, full) == Rearm(ReleaseSync(t), MarkAll(t.grid), FALSE, full)

\* The end of a window marks the whole live buffer.
LEMMA ReleaseStep ==
  ASSUME NEW rows \in Nat \ {0}, NEW cols \in Nat \ {0}, NEW t \in Vts(rows, cols), NEW full \in BOOLEAN
  PROVE  Marked(t, Released(t, full), rows, cols) /\ ~Released(t, full).armed
<1> DEFINE v == ReleaseSync(t)
           g == MarkAll(t.grid)
           u == Rearm(v, g, FALSE, full)
<1>1. /\ v \in Vts(rows, cols) /\ ~v.armed
      /\ v.frozenGrid = None /\ v.frozenCursor = None /\ v.frozenColor = None /\ v.frozenAlt = None
      /\ v.grid = t.grid /\ v.cursor = t.cursor /\ v.stash = t.stash /\ v.stashCursor = t.stashCursor
      /\ v.spare = t.spare /\ Holds(t, v) /\ v.hidden = t.hidden /\ v.revision = t.revision
  BY ReleaseFields
<1> HIDE DEF v
<1>2. t.grid \in Buffers(rows, cols) /\ v.armed = FALSE
  BY <1>1, VtParts DEF Vts
<1>3. g \in Buffers(rows, cols) /\ FALSE \in BOOLEAN
  BY <1>2, MarkAllStep
<1>4. Released(t, full) = u
  BY DEF Released, v
<1> HIDE DEF g
<1>5a. Rearmed(v, u, g, FALSE, rows, cols)
  BY <1>1, <1>3, RearmFields
<1> HIDE DEF u
<1>5. /\ u \in Vts(rows, cols) /\ u.armed = FALSE /\ u.grid = g
      /\ u.frozenGrid = v.frozenGrid /\ u.frozenCursor = v.frozenCursor
      /\ u.frozenColor = v.frozenColor /\ u.frozenAlt = v.frozenAlt
      /\ u.cursor = v.cursor /\ u.stash = v.stash /\ u.stashCursor = v.stashCursor
      /\ u.spare = v.spare /\ Holds(v, u) /\ u.hidden = v.hidden /\ u.revision = v.revision
  BY <1>5a DEF Rearmed
<1>6. Marked(t, u, rows, cols) /\ ~u.armed
  BY <1>1, <1>5 DEF Marked, Holds, g
<1> QED BY <1>4, <1>6

\* ?2026l and force_release_sync are the same end of a window.
LEMMA ReleaseForms ==
  ASSUME NEW rows \in Nat \ {0}, NEW cols \in Nat \ {0}, NEW t \in Vts(rows, cols)
  PROVE  CloseSync(t) = Released(t, t.flooded) /\ ForceRelease(t) = Released(t, FALSE)
<1> DEFINE v == ReleaseSync(t)
<1>1. v \in Vts(rows, cols) /\ v.flooded = t.flooded /\ v.armed = FALSE /\ v.grid = t.grid
  <2>1. v \in Vts(rows, cols) /\ v.flooded = t.flooded /\ v.grid = t.grid
    BY ReleaseFields
  <2>2. v.armed = FALSE
    BY DEF ReleaseSync, Vts
  <2> QED BY <2>1, <2>2
<1>2. CloseSync(t) = [v EXCEPT !.grid = MarkAll(@)] /\ ForceRelease(t) = [v EXCEPT !.grid = MarkAll(@), !.flooded = FALSE]
  BY DEF CloseSync, ForceRelease
<1>3. Released(t, t.flooded) = Rearm(v, MarkAll(t.grid), FALSE, t.flooded) /\ Released(t, FALSE) = Rearm(v, MarkAll(t.grid), FALSE, FALSE)
  BY DEF Released
<1> HIDE DEF v
<1>4. [v EXCEPT !.grid = MarkAll(@)] = Rearm(v, MarkAll(t.grid), FALSE, t.flooded)
  BY <1>1 DEF Rearm, Vts
<1>5. [v EXCEPT !.grid = MarkAll(@), !.flooded = FALSE] = Rearm(v, MarkAll(t.grid), FALSE, FALSE)
  BY <1>1 DEF Rearm, Vts
<1> QED BY <1>2, <1>3, <1>4, <1>5

\* ?2026l.
LEMMA CloseSyncStep ==
  ASSUME NEW rows \in Nat \ {0}, NEW cols \in Nat \ {0}, NEW t, Good(t, rows, cols)
  PROVE  Feeds(t, CloseSync(t), rows, cols)
<1>1. t \in Vts(rows, cols)
  BY DEF Good
<1>2. t.flooded \in BOOLEAN
  BY <1>1 DEF Vts
<1>3. Marked(t, CloseSync(t), rows, cols)
  BY <1>1, <1>2, ReleaseStep, ReleaseForms
<1> QED BY <1>3, MarkedFeeds

\* force_release_sync.
LEMMA ForceReleaseStep ==
  ASSUME NEW rows \in Nat \ {0}, NEW cols \in Nat \ {0}, NEW t, Good(t, rows, cols)
  PROVE  Marked(t, ForceRelease(t), rows, cols) /\ ~ForceRelease(t).armed
<1>1. t \in Vts(rows, cols) /\ FALSE \in BOOLEAN
  BY DEF Good
<1>2. ForceRelease(t) = Released(t, FALSE)
  BY <1>1, ReleaseForms
<1>3. Marked(t, Released(t, FALSE), rows, cols) /\ ~Released(t, FALSE).armed
  BY <1>1, ReleaseStep
<1> QED BY <1>2, <1>3

\* Another dynamic colour repaints the screen.
LEMMA ColorStep ==
  ASSUME NEW rows \in Nat \ {0}, NEW cols \in Nat \ {0}, NEW t, Good(t, rows, cols), NEW c \in Colors
  PROVE  /\ Feeds(t, PutColor(t, c), rows, cols)
         /\ Feeds(t, PutGrid(PutColor(t, c), MarkAll(t.grid)), rows, cols)
<1> DEFINE f == IF t.armed /\ t.frozenColor = None THEN t.color ELSE t.frozenColor
           u == [t EXCEPT !.color = c, !.frozenColor = f]
<1>1. t \in Vts(rows, cols)
  BY DEF Good
<1>2. t.color \in Colors /\ t.frozenColor \in Colors \cup {None} /\ t.armed \in BOOLEAN
  BY <1>1 DEF Vts
<1>3. f \in Colors \cup {None} /\ (~t.armed => f = t.frozenColor)
  BY <1>2
<1>4. PutColor(t, c) = u
  BY <1>1 DEF PutColor, Vts
<1> HIDE DEF f
<1>5. u \in Vts(rows, cols)
  BY <1>1, <1>3 DEF Vts
<1>6. /\ u.grid = t.grid /\ u.stash = t.stash /\ u.spare = t.spare /\ u.modes = t.modes /\ u.top = t.top
      /\ u.bottom = t.bottom /\ u.frozenColor = f
  BY <1>1 DEF Vts
<1>7. /\ u.frozenGrid = t.frozenGrid /\ u.frozenCursor = t.frozenCursor /\ u.frozenAlt = t.frozenAlt
      /\ u.armed = t.armed /\ u.hidden = t.hidden /\ u.revision = t.revision
  BY <1>1 DEF Vts
<1> HIDE DEF u
<1>8. Good(u, rows, cols)
  BY <1>3, <1>5, <1>6, <1>7 DEF Good
<1>9. ShownGrid(u) = ShownGrid(t)
  BY <1>6, <1>7 DEF ShownGrid
<1>10. Feeds(t, u, rows, cols)
  <2>1. Feeds(t, t, rows, cols)
    BY GoodSelf
  <2> QED BY <1>6, <1>7, <1>8, <1>9, <2>1 DEF Feeds
<1>11. u.grid \in Buffers(rows, cols)
  BY <1>5, VtParts
<1>12. Onto(u.grid, MarkAll(u.grid), rows, cols)
  BY <1>11, MarkAllStep
<1>13. Draws(u, PutGrid(u, MarkAll(u.grid)), rows, cols)
  BY <1>5, <1>12, PutGridStep
<1>14. Feeds(t, PutGrid(u, MarkAll(u.grid)), rows, cols)
  BY <1>10, <1>13, FeedsThen
<1> QED BY <1>4, <1>6, <1>10, <1>14

\* The fields that a reset sets.
Refit(p, g, c, m, color, top, bottom) ==
  [p EXCEPT !.grid = g, !.cursor = c, !.modes = m, !.color = color, !.top = top, !.bottom = bottom]

Refitted(p, u, g, m, top, bottom, rows, cols) ==
  /\ u \in Vts(rows, cols)
  /\ u.grid = g /\ u.modes = m /\ u.top = top /\ u.bottom = bottom /\ u.stash = p.stash /\ u.spare = p.spare
  /\ u.frozenGrid = p.frozenGrid /\ u.frozenCursor = p.frozenCursor /\ u.frozenColor = p.frozenColor
  /\ u.frozenAlt = p.frozenAlt /\ u.armed = p.armed /\ u.hidden = p.hidden /\ u.revision = p.revision

\* The fields after a reset.
LEMMA ResetType ==
  ASSUME NEW rows \in Nat \ {0}, NEW cols \in Nat \ {0}, NEW p \in Vts(rows, cols),
         NEW g \in Buffers(rows, cols), NEW c \in Cursors(rows, cols), NEW m \in Modes, NEW color \in Colors,
         NEW top \in 0 .. rows - 1, NEW bottom \in 0 .. rows - 1
  PROVE  Refitted(p, Refit(p, g, c, m, color, top, bottom), g, m, top, bottom, rows, cols)
<1> DEFINE u == [p EXCEPT !.grid = g, !.cursor = c, !.modes = m, !.color = color, !.top = top, !.bottom = bottom]
<1>1. u \in Vts(rows, cols)
  BY Zenon DEF Vts
<1>2. /\ u.grid = g /\ u.modes = m /\ u.top = top /\ u.bottom = bottom /\ u.stash = p.stash /\ u.spare = p.spare
  BY DEF Vts
<1>3. /\ u.frozenGrid = p.frozenGrid /\ u.frozenCursor = p.frozenCursor /\ u.frozenColor = p.frozenColor
      /\ u.frozenAlt = p.frozenAlt /\ u.armed = p.armed /\ u.hidden = p.hidden /\ u.revision = p.revision
  BY DEF Vts
<1>4. Refit(p, g, c, m, color, top, bottom) = u
  BY DEF Refit
<1> HIDE DEF u
<1> QED BY <1>1, <1>2, <1>3, <1>4 DEF Refitted

\* RIS closes the window, brings the primary screen back and blanks it.
LEMMA FullResetStep ==
  ASSUME NEW rows, NEW cols, IsSize(rows, cols), NEW t0, Good(t0, rows, cols)
  PROVE  Feeds(t0, FullReset(t0), rows, cols)
<1> DEFINE t == ReleaseSync(t0)
           p == IF t.modes.alt THEN Leave(t, FALSE) ELSE t
           g == MarkAll(ClearScrollback(ClearVisible(p.grid)))
           u == Refit(p, g, HomeCursor, DefaultModes, "default", 0, rows - 1)
<1>1. rows \in Nat \ {0} /\ cols \in Nat \ {0} /\ t0 \in Vts(rows, cols)
  BY SizeType DEF Good
<1>2. /\ t \in Vts(rows, cols) /\ ~t.armed
      /\ t.frozenGrid = None /\ t.frozenCursor = None /\ t.frozenColor = None /\ t.frozenAlt = None
      /\ t.grid = t0.grid /\ t.cursor = t0.cursor /\ t.stash = t0.stash
      /\ t.spare = t0.spare /\ Holds(t0, t) /\ t.hidden = t0.hidden /\ t.revision = t0.revision
  BY <1>1, ReleaseFields
<1>3. FullReset(t0) = [p EXCEPT !.grid = MarkAll(ClearScrollback(ClearVisible(@))), !.cursor = HomeCursor,
                        !.modes = DefaultModes, !.color = "default", !.top = 0, !.bottom = LastRow(p)]
  BY DEF FullReset
<1> HIDE DEF t
<1>4. t.modes = t0.modes
  BY <1>2 DEF Holds
<1>5. /\ p \in Vts(rows, cols) /\ ~p.armed
      /\ p.frozenGrid = None /\ p.frozenCursor = None /\ p.frozenColor = None /\ p.frozenAlt = None
      /\ p.stash = None /\ (p.spare # None => Fresh(p.spare))
      /\ p.hidden = t0.hidden /\ p.revision = t0.revision
      /\ ~t0.modes.alt => p.grid = t0.grid
  <2>1. CASE t.modes.alt
    <3> DEFINE b == MarkAll(t.stash)
               q == Shift(t, b, t.cursor, None, t.grid, None)
    <3>1. t0.stash \in Buffers(rows, cols) /\ Fresh(t0.grid)
      BY <1>4, <2>1 DEF Good
    <3>2. t.stash \in Buffers(rows, cols) /\ Fresh(t.grid)
      BY <1>2, <3>1
    <3>3. b \in Buffers(rows, cols) /\ b.dirty.all
      BY <1>1, <3>2, MarkAllStep
    <3>4. t.cursor \in Cursors(rows, cols) /\ t.grid \in Buffers(rows, cols)
      BY <1>1, <1>2, VtParts
    <3>5. p = q
      BY <2>1 DEF Leave, Shift
    <3> HIDE DEF b
    <3>6. Shifted(t, q, b, t.cursor, None, t.grid, rows, cols)
      BY <1>1, <1>2, <3>3, <3>4, SwapFields
    <3> HIDE DEF q, p
    <3>7. /\ p \in Vts(rows, cols) /\ p.stash = None /\ p.spare = t.grid /\ p.hidden = t.hidden
          /\ p.revision = t.revision /\ p.armed = t.armed
          /\ p.frozenGrid = t.frozenGrid /\ p.frozenCursor = t.frozenCursor
          /\ p.frozenColor = t.frozenColor /\ p.frozenAlt = t.frozenAlt
      BY <1>2, <3>5, <3>6 DEF Shifted
    <3> QED BY <1>2, <1>4, <2>1, <3>2, <3>7
  <2>2. CASE ~t.modes.alt
    <3>1. p = t
      BY <2>2
    <3>2. t0.stash = None
      BY <1>4, <2>2 DEF Good
    <3> HIDE DEF p
    <3> QED BY <1>2, <3>1, <3>2 DEF Good
  <2> QED BY <2>1, <2>2
<1> HIDE DEF p
<1>6. p.grid \in Buffers(rows, cols) /\ LastRow(p) = rows - 1
  BY <1>1, <1>5, VtParts
<1>7. g \in Buffers(rows, cols) /\ g.dirty.all /\ Onto(p.grid, g, rows, cols)
  <2> DEFINE h == ClearScrollback(ClearVisible(p.grid))
  <2>1. Onto(p.grid, h, rows, cols)
    BY <1>1, <1>6, ClearAllStep
  <2> HIDE DEF h
  <2>2. h \in Buffers(rows, cols)
    BY <2>1 DEF Onto
  <2>3. MarkAll(h) \in Buffers(rows, cols) /\ MarkAll(h).dirty.all /\ Onto(h, MarkAll(h), rows, cols)
    BY <1>1, <2>2, MarkAllStep
  <2>4. Onto(p.grid, MarkAll(h), rows, cols)
    BY <1>1, <1>6, <2>1, <2>3, OntoThen
  <2> QED BY <2>3, <2>4 DEF h
<1>8. FullReset(t0) = u
  BY <1>3, <1>5, <1>6 DEF Vts, Refit
<1> HIDE DEF g
<1>9. HomeCursor \in Cursors(rows, cols)
  <2>1. None \in Saves \cup {None}
    OBVIOUS
  <2> QED BY <1>1, <2>1, HomeType
<1>10. DefaultModes \in Modes /\ DefaultModes.alt = FALSE /\ "default" \in Colors
  BY DEF DefaultModes, Modes, Colors
<1>11. 0 \in 0 .. rows - 1 /\ rows - 1 \in 0 .. rows - 1 /\ 0 <= rows - 1
  BY <1>1
<1>12a. Refitted(p, u, g, DefaultModes, 0, rows - 1, rows, cols)
  <2>1. p \in Vts(rows, cols)
    BY <1>5
  <2>2. g \in Buffers(rows, cols)
    BY <1>7
  <2> QED BY <1>1, <2>1, <2>2, <1>9, <1>10, <1>11, ResetType
<1> HIDE DEF u
<1>12. /\ u \in Vts(rows, cols)
       /\ u.grid = g /\ u.modes = DefaultModes /\ u.top = 0 /\ u.bottom = rows - 1 /\ u.stash = p.stash /\ u.spare = p.spare
       /\ u.frozenGrid = p.frozenGrid /\ u.frozenCursor = p.frozenCursor /\ u.frozenColor = p.frozenColor
       /\ u.frozenAlt = p.frozenAlt /\ u.armed = p.armed /\ u.hidden = p.hidden /\ u.revision = p.revision
  BY <1>12a DEF Refitted
<1>13. Good(u, rows, cols)
  BY <1>5, <1>10, <1>11, <1>12 DEF Good
<1>14. ShownGrid(u) = g
  BY <1>5, <1>12 DEF ShownGrid
<1>15. Dirties(ShownGrid(t0), ShownGrid(u))
  BY <1>7, <1>14, AllDirty
<1>16. u.modes.alt = t0.modes.alt => Later(t0.grid, u.grid)
  BY <1>5, <1>7, <1>10, <1>12 DEF Onto
<1> QED BY <1>5, <1>8, <1>12, <1>13, <1>15, <1>16 DEF Feeds

(***************************************************************************)
(* Control functions                                                       *)
(***************************************************************************)

\* Where a clamped or saturated coordinate ends up.
LEMMA Clamped ==
  ASSUME NEW n \in Nat \ {0}, NEW x \in 0 .. n - 1, NEW k \in Nat \ {0}, NEW low \in 0 .. n - 1,
         NEW high \in 0 .. n - 1
  PROVE  /\ Less(x, k) \in 0 .. n - 1 /\ MaxOf(Less(x, k), low) \in 0 .. n - 1
         /\ MinOf(x + k, high) \in 0 .. n - 1 /\ MinOf(k - 1, high) \in 0 .. n - 1
         /\ MinOf(low, high) \in 0 .. n - 1
         /\ MinOf(MinOf(low + k - 1, MaxOf(high, low)), n - 1) \in 0 .. n - 1
BY DEF Less, MinOf, MaxOf

\* A control function ends the cluster that accepts joins.
LEMMA InactiveParts ==
  ASSUME NEW rows \in Nat \ {0}, NEW cols \in Nat \ {0}, NEW t, Good(t, rows, cols)
  PROVE  /\ Good(Inactive(t), rows, cols) /\ Draws(t, Inactive(t), rows, cols)
         /\ Inactive(t) \in Vts(rows, cols)
         /\ Inactive(t).modes = t.modes /\ Inactive(t).top = t.top /\ Inactive(t).bottom = t.bottom
         /\ Inactive(t).grid = t.grid /\ Inactive(t).cursor = t.cursor
<1> DEFINE n == Inactive(t)
<1>1. t \in Vts(rows, cols)
  BY DEF Good
<1>2. /\ Draws(t, n, rows, cols) /\ n.modes = t.modes /\ n.top = t.top /\ n.bottom = t.bottom
      /\ n.grid = t.grid /\ n.cursor = t.cursor
  BY <1>1, InactiveStep
<1> HIDE DEF n
<1>3. Feeds(t, n, rows, cols)
  BY <1>2, DrawsFeeds
<1>4. Good(n, rows, cols) /\ n \in Vts(rows, cols)
  BY <1>3 DEF Feeds, Good
<1> QED BY <1>2, <1>4 DEF n

\* An edit after the cluster ends.
LEMMA DrawsInactive ==
  ASSUME NEW rows \in Nat \ {0}, NEW cols \in Nat \ {0}, NEW t, Good(t, rows, cols),
         NEW u, Draws(Inactive(t), u, rows, cols)
  PROVE  Feeds(t, u, rows, cols)
<1> DEFINE n == Inactive(t)
<1>1. t \in Vts(rows, cols) /\ Draws(t, n, rows, cols)
  BY InactiveParts DEF Good
<1>2. Draws(n, u, rows, cols)
  OBVIOUS
<1> HIDE DEF n
<1>3. Draws(t, u, rows, cols)
  BY <1>1, <1>2, DrawsThen
<1> QED BY <1>3, DrawsFeeds

\* A control function after the cluster ends.
LEMMA FeedsInactive ==
  ASSUME NEW rows \in Nat \ {0}, NEW cols \in Nat \ {0}, NEW t, Good(t, rows, cols),
         NEW u, Feeds(Inactive(t), u, rows, cols)
  PROVE  Feeds(t, u, rows, cols)
<1> DEFINE n == Inactive(t)
<1>1. Draws(t, n, rows, cols)
  BY InactiveParts
<1>2. Feeds(n, u, rows, cols)
  OBVIOUS
<1> HIDE DEF n
<1> QED BY <1>1, <1>2, DrawsThenFeeds

\* A cursor movement.
LEMMA MoveFeeds ==
  ASSUME NEW rows \in Nat \ {0}, NEW cols \in Nat \ {0}, NEW t, Good(t, rows, cols),
         NEW row \in 0 .. rows - 1, NEW col \in 0 .. cols - 1
  PROVE  Feeds(t, MoveTo(Inactive(t), row, col), rows, cols)
<1> DEFINE n == Inactive(t)
<1>1. n \in Vts(rows, cols)
  BY InactiveParts
<1>2. Draws(n, MoveTo(n, row, col), rows, cols)
  <2> HIDE DEF n
  <2> QED BY <1>1, MoveToStep
<1> QED BY <1>2, DrawsInactive

\* An edit of the live buffer.
LEMMA PutFeeds ==
  ASSUME NEW rows \in Nat \ {0}, NEW cols \in Nat \ {0}, NEW t, Good(t, rows, cols),
         NEW g, Onto(t.grid, g, rows, cols)
  PROVE  Feeds(t, PutGrid(Inactive(t), g), rows, cols)
<1> DEFINE n == Inactive(t)
<1>1. n \in Vts(rows, cols) /\ n.grid = t.grid
  BY InactiveParts
<1>2. Draws(n, PutGrid(n, g), rows, cols)
  <2> HIDE DEF n
  <2>1. Onto(n.grid, g, rows, cols)
    BY <1>1
  <2> QED BY <1>1, <2>1, PutGridStep
<1> QED BY <1>2, DrawsInactive

\* Nothing but the cluster changes.
LEMMA StillFeeds ==
  ASSUME NEW rows \in Nat \ {0}, NEW cols \in Nat \ {0}, NEW t, Good(t, rows, cols)
  PROVE  Feeds(t, Inactive(t), rows, cols)
<1>1. Inactive(t) \in Vts(rows, cols)
  BY InactiveParts
<1>2. Draws(Inactive(t), Inactive(t), rows, cols)
  BY <1>1, DrawsSelf
<1> QED BY <1>2, DrawsInactive

\* Where the cursor may move to.
LEMMA Bounds ==
  ASSUME NEW rows \in Nat \ {0}, NEW cols \in Nat \ {0}, NEW t \in Vts(rows, cols)
  PROVE  /\ UpwardTop(t) \in 0 .. rows - 1 /\ DownwardBottom(t) \in 0 .. rows - 1
         /\ OriginTop(t) \in 0 .. rows - 1 /\ OriginBottom(t) \in 0 .. rows - 1
         /\ \A n \in Nat \ {0} : AddressedRow(t, n) \in 0 .. rows - 1
<1>1. LastRow(t) = rows - 1 /\ t.top \in 0 .. rows - 1 /\ t.bottom \in 0 .. rows - 1
  BY VtParts
<1>2. UpwardTop(t) \in 0 .. rows - 1 /\ DownwardBottom(t) \in 0 .. rows - 1
  BY <1>1 DEF UpwardTop, DownwardBottom
<1>3. OriginTop(t) \in 0 .. rows - 1 /\ OriginBottom(t) \in 0 .. rows - 1
  BY <1>1 DEF OriginTop, OriginBottom, MinOf
<1>4. ASSUME NEW n \in Nat \ {0} PROVE AddressedRow(t, n) \in 0 .. rows - 1
  BY <1>1, <1>3, Clamped DEF AddressedRow
<1> QED BY <1>2, <1>3, <1>4

\* What a control function leaves behind: see Feeds.
Fed(rows, cols) ==
  /\ Feeds(vt, vt', rows, cols) /\ batch # None /\ batch' = batch /\ drawn' = drawn
  /\ calm' = [calm EXCEPT !.swapped = @ \/ vt'.modes.alt # vt.modes.alt]

\* One control function of a batch.
LEMMA FeedFed ==
  ASSUME NEW rows, NEW cols, NEW name, NEW t, Feed(name, t), Feeds(vt, t, rows, cols)
  PROVE  Fed(rows, cols)
BY DEF Feed, Fed

\* A control function that moves the cursor.
LEMMA MotionFed ==
  ASSUME NEW rows \in Nat \ {0}, NEW cols \in Nat \ {0}, Good(vt, rows, cols),
         NEW name, NEW row \in 0 .. rows - 1, NEW col \in 0 .. cols - 1,
         Feed(name, MoveTo(Now, row, col))
  PROVE  Fed(rows, cols)
<1>1. Feeds(vt, MoveTo(Inactive(vt), row, col), rows, cols)
  BY MoveFeeds
<1>2. Feeds(vt, MoveTo(Now, row, col), rows, cols)
  BY <1>1 DEF Now
<1> QED BY <1>2, FeedFed

\* A control function that edits the buffer.
LEMMA EditFed ==
  ASSUME NEW rows \in Nat \ {0}, NEW cols \in Nat \ {0}, Good(vt, rows, cols),
         NEW name, NEW g, Onto(vt.grid, g, rows, cols), Feed(name, PutGrid(Now, g))
  PROVE  Fed(rows, cols)
<1>1. Feeds(vt, PutGrid(Inactive(vt), g), rows, cols)
  BY PutFeeds
<1>2. Feeds(vt, PutGrid(Now, g), rows, cols)
  BY <1>1 DEF Now
<1> QED BY <1>2, FeedFed

\* A control function that finds nothing to do.
LEMMA StillFed ==
  ASSUME NEW rows \in Nat \ {0}, NEW cols \in Nat \ {0}, Good(vt, rows, cols),
         NEW name, Feed(name, Now)
  PROVE  Fed(rows, cols)
<1>1. Feeds(vt, Now, rows, cols)
  BY StillFeeds DEF Now
<1> QED BY <1>1, FeedFed

\* A draw on top of the end of the cluster.
LEMMA DrawFed ==
  ASSUME NEW rows \in Nat \ {0}, NEW cols \in Nat \ {0}, Good(vt, rows, cols),
         NEW name, NEW u, Draws(Now, u, rows, cols), Feed(name, u)
  PROVE  Fed(rows, cols)
<1>1. Draws(Inactive(vt), u, rows, cols)
  BY DEF Now
<1>2. Feeds(vt, u, rows, cols)
  BY <1>1, DrawsInactive
<1> QED BY <1>2, FeedFed

\* The parts of the current terminal.
LEMMA NowParts ==
  ASSUME NEW rows \in Nat \ {0}, NEW cols \in Nat \ {0}, Good(vt, rows, cols)
  PROVE  /\ vt \in Vts(rows, cols) /\ Row \in 0 .. rows - 1 /\ Col \in 0 .. cols - 1
         /\ vt.grid \in Buffers(rows, cols) /\ vt.grid.rows = rows /\ vt.grid.cols = cols
         /\ LastRow(vt) = rows - 1 /\ LastCol(vt) = cols - 1
         /\ vt.top \in 0 .. rows - 1 /\ vt.bottom \in 0 .. rows - 1
         /\ Now \in Vts(rows, cols) /\ Good(Now, rows, cols)
         /\ Now.modes = vt.modes /\ Now.top = vt.top /\ Now.bottom = vt.bottom
         /\ Now.grid = vt.grid /\ Now.cursor = vt.cursor
<1>1. vt \in Vts(rows, cols)
  BY DEF Good
<1>2. /\ Row \in 0 .. rows - 1 /\ Col \in 0 .. cols - 1
      /\ vt.grid \in Buffers(rows, cols) /\ vt.grid.rows = rows /\ vt.grid.cols = cols
      /\ LastRow(vt) = rows - 1 /\ LastCol(vt) = cols - 1
      /\ vt.top \in 0 .. rows - 1 /\ vt.bottom \in 0 .. rows - 1
  BY <1>1, VtParts DEF Row, Col
<1>3. /\ Now \in Vts(rows, cols) /\ Good(Now, rows, cols)
      /\ Now.modes = vt.modes /\ Now.top = vt.top /\ Now.bottom = vt.bottom
      /\ Now.grid = vt.grid /\ Now.cursor = vt.cursor
  BY InactiveParts DEF Now
<1> QED BY <1>1, <1>2, <1>3

\* Printing.
LEMMA PrintFed ==
  ASSUME NEW rows \in Nat \ {0}, NEW cols \in Nat \ {0}, Good(vt, rows, cols), PrintChar
  PROVE  Fed(rows, cols)
<1>1. vt \in Vts(rows, cols)
  BY DEF Good
<1>2. ASSUME NEW c \in Chars, Feed("print", WriteChar(vt, c)) PROVE Fed(rows, cols)
  <2>1. Draws(vt, WriteChar(vt, c), rows, cols)
    BY <1>1, WriteCharStep
  <2>2. Feeds(vt, WriteChar(vt, c), rows, cols)
    BY <2>1, DrawsFeeds
  <2> QED BY <1>2, <2>2, FeedFed
<1>3. ASSUME NEW c \in Chars \ {"zwj"}, ActiveCell(vt) \in {"z", "Z"},
             Feed("print", WriteAfterFull(vt, c))
      PROVE  Fed(rows, cols)
  <2>1. Draws(vt, WriteAfterFull(vt, c), rows, cols)
    BY <1>1, <1>3, WriteAfterFullStep
  <2>2. Feeds(vt, WriteAfterFull(vt, c), rows, cols)
    BY <2>1, DrawsFeeds
  <2> QED BY <1>3, <2>2, FeedFed
<1> QED BY <1>2, <1>3 DEF PrintChar

\* Moving within a line, and from line to line.
LEMMA LinesFed ==
  ASSUME NEW rows \in Nat \ {0}, NEW cols \in Nat \ {0}, Good(vt, rows, cols),
         Backspace \/ LineFeed \/ CarriageReturn \/ NextLine \/ ReverseLine
  PROVE  Fed(rows, cols)
<1>1. Row \in 0 .. rows - 1 /\ Col \in 0 .. cols - 1 /\ Now \in Vts(rows, cols)
  BY NowParts
<1>2. 0 \in 0 .. cols - 1 /\ (Col > 0 => Col - 1 \in 0 .. cols - 1)
  BY <1>1
<1>3. CASE Backspace
  <2>1. CASE Col > 0
    <3> DEFINE col == Col - 1
    <3>1. Feed("BS", MoveTo(Now, Row, col)) /\ col \in 0 .. cols - 1
      BY <1>2, <1>3, <2>1 DEF Backspace
    <3> HIDE DEF col
    <3> QED BY <1>1, <3>1, MotionFed
  <2>2. CASE ~(Col > 0)
    <3>1. Feed("BS", Now)
      BY <1>3, <2>2 DEF Backspace
    <3> QED BY <3>1, StillFed
  <2> QED BY <2>1, <2>2
<1>4. CASE LineFeed
  <2>1. Draws(Now, Linefeed(Now), rows, cols)
    BY <1>1, LinefeedStep
  <2> QED BY <1>4, <2>1, DrawFed DEF LineFeed
<1>5. CASE CarriageReturn
  BY <1>1, <1>2, <1>5, MotionFed DEF CarriageReturn
<1>6. CASE NextLine
  <2> DEFINE m == MoveTo(Now, Row, 0)
  <2>1. Draws(Now, m, rows, cols)
    BY <1>1, <1>2, MoveToStep
  <2>2. Feed("NEL", Linefeed(m))
    BY <1>6 DEF NextLine
  <2> HIDE DEF m
  <2>3. m \in Vts(rows, cols)
    BY <2>1 DEF Draws
  <2>4. Draws(m, Linefeed(m), rows, cols)
    BY <2>3, LinefeedStep
  <2>5. Draws(Now, Linefeed(m), rows, cols)
    BY <1>1, <2>1, <2>4, DrawsThen
  <2> QED BY <2>2, <2>5, DrawFed
<1>7. CASE ReverseLine
  <2>1. Draws(Now, ReverseIndex(Now), rows, cols)
    BY <1>1, ReverseIndexStep
  <2> QED BY <1>7, <2>1, DrawFed DEF ReverseLine
<1> QED BY <1>3, <1>4, <1>5, <1>6, <1>7

\* Moving by a count or to a place.
LEMMA MovesFed ==
  ASSUME NEW rows \in Nat \ {0}, NEW cols \in Nat \ {0}, Good(vt, rows, cols),
         CursorUp \/ CursorDown \/ CursorForward \/ CursorBack \/ CursorNextLine \/ CursorPrevLine
           \/ CursorColumn \/ CursorRow \/ CursorPosition
  PROVE  Fed(rows, cols)
<1>1. /\ Row \in 0 .. rows - 1 /\ Col \in 0 .. cols - 1 /\ vt \in Vts(rows, cols)
      /\ LastCol(vt) = cols - 1 /\ cols - 1 \in 0 .. cols - 1 /\ 0 \in 0 .. cols - 1
  BY NowParts
<1>2. /\ UpwardTop(vt) \in 0 .. rows - 1 /\ DownwardBottom(vt) \in 0 .. rows - 1
      /\ \A n \in Nat \ {0} : AddressedRow(vt, n) \in 0 .. rows - 1
  BY <1>1, Bounds
<1>3. ASSUME NEW n \in Counts
      PROVE  /\ Less(Col, n) \in 0 .. cols - 1 /\ MinOf(Col + n, LastCol(vt)) \in 0 .. cols - 1
             /\ MinOf(n - 1, LastCol(vt)) \in 0 .. cols - 1
             /\ MaxOf(Less(Row, n), UpwardTop(vt)) \in 0 .. rows - 1
             /\ MinOf(Row + n, DownwardBottom(vt)) \in 0 .. rows - 1
             /\ AddressedRow(vt, n) \in 0 .. rows - 1
  <2>1. n \in Nat \ {0}
    BY CountsAssumption
  <2>2. Less(Col, n) \in 0 .. cols - 1 /\ MinOf(Col + n, cols - 1) \in 0 .. cols - 1 /\ MinOf(n - 1, cols - 1) \in 0 .. cols - 1
    BY <1>1, <2>1 DEF Less, MinOf, MaxOf
  <2>3. PICK low \in 0 .. rows - 1, high \in 0 .. rows - 1 : low = UpwardTop(vt) /\ high = DownwardBottom(vt)
    BY <1>2
  <2>4. MaxOf(Less(Row, n), low) \in 0 .. rows - 1 /\ MinOf(Row + n, high) \in 0 .. rows - 1
    BY <1>1, <2>1 DEF Less, MinOf, MaxOf
  <2> QED BY <1>1, <1>2, <2>1, <2>2, <2>3, <2>4
<1>4. CASE CursorUp
  <2>1. PICK n \in Counts : Feed("CUU", MoveTo(Now, MaxOf(Less(Row, n), UpwardTop(vt)), Col))
    BY <1>4 DEF CursorUp
  <2> DEFINE row == MaxOf(Less(Row, n), UpwardTop(vt))
             col == Col
  <2>2. row \in 0 .. rows - 1 /\ col \in 0 .. cols - 1 /\ Feed("CUU", MoveTo(Now, row, col))
    BY <1>1, <1>3, <2>1
  <2> HIDE DEF row, col
  <2> QED BY <2>2, MotionFed
<1>5. CASE CursorDown
  <2>1. PICK n \in Counts : Feed("CUD", MoveTo(Now, MinOf(Row + n, DownwardBottom(vt)), Col))
    BY <1>5 DEF CursorDown
  <2> DEFINE row == MinOf(Row + n, DownwardBottom(vt))
             col == Col
  <2>2. row \in 0 .. rows - 1 /\ col \in 0 .. cols - 1 /\ Feed("CUD", MoveTo(Now, row, col))
    BY <1>1, <1>3, <2>1
  <2> HIDE DEF row, col
  <2> QED BY <2>2, MotionFed
<1>6. CASE CursorForward
  <2>1. PICK n \in Counts : Feed("CUF", MoveTo(Now, Row, MinOf(Col + n, LastCol(vt))))
    BY <1>6 DEF CursorForward
  <2> DEFINE row == Row
             col == MinOf(Col + n, LastCol(vt))
  <2>2. row \in 0 .. rows - 1 /\ col \in 0 .. cols - 1 /\ Feed("CUF", MoveTo(Now, row, col))
    BY <1>1, <1>3, <2>1
  <2> HIDE DEF row, col
  <2> QED BY <2>2, MotionFed
<1>7. CASE CursorBack
  <2>1. PICK n \in Counts : Feed("CUB", MoveTo(Now, Row, Less(Col, n)))
    BY <1>7 DEF CursorBack
  <2> DEFINE row == Row
             col == Less(Col, n)
  <2>2. row \in 0 .. rows - 1 /\ col \in 0 .. cols - 1 /\ Feed("CUB", MoveTo(Now, row, col))
    BY <1>1, <1>3, <2>1
  <2> HIDE DEF row, col
  <2> QED BY <2>2, MotionFed
<1>8. CASE CursorNextLine
  <2>1. PICK n \in Counts : Feed("CNL", MoveTo(Now, MinOf(Row + n, DownwardBottom(vt)), 0))
    BY <1>8 DEF CursorNextLine
  <2> DEFINE row == MinOf(Row + n, DownwardBottom(vt))
             col == 0
  <2>2. row \in 0 .. rows - 1 /\ col \in 0 .. cols - 1 /\ Feed("CNL", MoveTo(Now, row, col))
    BY <1>1, <1>3, <2>1
  <2> HIDE DEF row, col
  <2> QED BY <2>2, MotionFed
<1>9. CASE CursorPrevLine
  <2>1. PICK n \in Counts : Feed("CPL", MoveTo(Now, MaxOf(Less(Row, n), UpwardTop(vt)), 0))
    BY <1>9 DEF CursorPrevLine
  <2> DEFINE row == MaxOf(Less(Row, n), UpwardTop(vt))
             col == 0
  <2>2. row \in 0 .. rows - 1 /\ col \in 0 .. cols - 1 /\ Feed("CPL", MoveTo(Now, row, col))
    BY <1>1, <1>3, <2>1
  <2> HIDE DEF row, col
  <2> QED BY <2>2, MotionFed
<1>10. CASE CursorColumn
  <2>1. PICK n \in Counts : Feed("CHA", MoveTo(Now, Row, MinOf(n - 1, LastCol(vt))))
    BY <1>10 DEF CursorColumn
  <2> DEFINE row == Row
             col == MinOf(n - 1, LastCol(vt))
  <2>2. row \in 0 .. rows - 1 /\ col \in 0 .. cols - 1 /\ Feed("CHA", MoveTo(Now, row, col))
    BY <1>1, <1>3, <2>1
  <2> HIDE DEF row, col
  <2> QED BY <2>2, MotionFed
<1>11. CASE CursorRow
  <2>1. PICK n \in Counts : Feed("VPA", MoveTo(Now, AddressedRow(vt, n), Col))
    BY <1>11 DEF CursorRow
  <2> DEFINE row == AddressedRow(vt, n)
             col == Col
  <2>2. row \in 0 .. rows - 1 /\ col \in 0 .. cols - 1 /\ Feed("VPA", MoveTo(Now, row, col))
    BY <1>1, <1>3, <2>1
  <2> HIDE DEF row, col
  <2> QED BY <2>2, MotionFed
<1>12. CASE CursorPosition
  <2>1. PICK n \in Counts, m \in Counts : Feed("CUP", MoveTo(Now, AddressedRow(vt, n), MinOf(m - 1, LastCol(vt))))
    BY <1>12 DEF CursorPosition
  <2> DEFINE row == AddressedRow(vt, n)
             col == MinOf(m - 1, LastCol(vt))
  <2>2. row \in 0 .. rows - 1 /\ col \in 0 .. cols - 1 /\ Feed("CUP", MoveTo(Now, row, col))
    BY <1>1, <1>3, <2>1
  <2> HIDE DEF row, col
  <2> QED BY <2>2, MotionFed
<1> QED BY <1>4, <1>5, <1>6, <1>7, <1>8, <1>9, <1>10, <1>11, <1>12

\* Erasing in the display.
LEMMA EraseDisplayFed ==
  ASSUME NEW rows \in Nat \ {0}, NEW cols \in Nat \ {0}, Good(vt, rows, cols), EraseDisplay
  PROVE  Fed(rows, cols)
<1> DEFINE g == vt.grid
           tail == EraseChars(g, Row, Col, g.cols - Col)
           above == IF Row > 0 THEN ClearAbove(g, Row - 1) ELSE g
           ed0 == IF Row < LastRow(vt) THEN ClearBelow(tail, Row + 1) ELSE tail
           ed1 == EraseChars(above, Row, 0, Col + 1)
           ed3 == ClearScrollback(ClearVisible(g))
<1>1. /\ Row \in 0 .. rows - 1 /\ Col \in 0 .. cols - 1 /\ g \in Buffers(rows, cols)
      /\ g.rows = rows /\ g.cols = cols
  BY NowParts
<1>2. g.cols - Col \in Nat /\ Col + 1 \in Nat /\ 0 \in 0 .. cols - 1 /\ Blank \in {Blank, "E"} /\ 0 \in Int
      /\ rows \in Int /\ Row + 1 \in Int /\ Row - 1 + 1 \in Int
  BY <1>1
<1>3. Onto(g, tail, rows, cols)
  <2> DEFINE k == g.cols - Col
  <2>1. k \in Nat
    BY <1>2
  <2> HIDE DEF k
  <2>2. Onto(g, EraseChars(g, Row, Col, k), rows, cols)
    BY <1>1, <2>1, EraseCharsStep
  <2> QED BY <2>2 DEF k
<1>4. Onto(g, ed0, rows, cols)
  <2> HIDE DEF tail
  <2>1. tail \in Buffers(rows, cols)
    BY <1>3 DEF Onto
  <2>2. tail.rows = rows
    BY <2>1, BufferParts
  <2> DEFINE k == Row + 1
  <2>3. ClearBelow(tail, Row + 1) = FillRows(tail, k, rows, Blank) /\ k \in Int
    BY <1>2, <2>2 DEF ClearBelow
  <2> HIDE DEF k
  <2>4. Onto(tail, FillRows(tail, k, rows, Blank), rows, cols)
    BY <1>2, <2>1, <2>3, FillRowsStep
  <2>5. Onto(g, FillRows(tail, k, rows, Blank), rows, cols)
    BY <1>1, <1>3, <2>4, OntoThen
  <2> QED BY <1>3, <2>3, <2>5
<1>5. Onto(g, above, rows, cols)
  <2>1. Onto(g, g, rows, cols)
    BY <1>1, OntoSelf
  <2> DEFINE k == Row - 1 + 1
  <2>2. ClearAbove(g, Row - 1) = FillRows(g, 0, k, Blank) /\ k \in Int
    BY <1>2 DEF ClearAbove
  <2> HIDE DEF k
  <2>3. Onto(g, FillRows(g, 0, k, Blank), rows, cols)
    BY <1>1, <1>2, <2>2, FillRowsStep
  <2> QED BY <2>1, <2>2, <2>3
<1>6. Onto(g, ed1, rows, cols)
  <2> HIDE DEF above
  <2>1. above \in Buffers(rows, cols)
    BY <1>5 DEF Onto
  <2> DEFINE k == Col + 1
  <2>2. k \in Nat
    BY <1>2
  <2> HIDE DEF k
  <2>3. Onto(above, EraseChars(above, Row, 0, k), rows, cols)
    BY <1>1, <1>2, <2>1, <2>2, EraseCharsStep
  <2>4. Onto(g, EraseChars(above, Row, 0, k), rows, cols)
    BY <1>1, <1>5, <2>3, OntoThen
  <2> QED BY <2>4 DEF k
<1>7. Onto(g, ClearVisible(g), rows, cols)
  BY <1>1, <1>2, FillRowsStep DEF ClearVisible
<1>8. Onto(g, ed3, rows, cols)
  BY <1>1, ClearAllStep
<1>9. \/ Feed("ED0", PutGrid(Now, ed0)) \/ Feed("ED1", PutGrid(Now, ed1))
      \/ Feed("ED2", PutGrid(Now, ClearVisible(g))) \/ Feed("ED3", PutGrid(Now, ed3))
  BY DEF EraseDisplay
<1> HIDE DEF ed0, ed1, ed3, tail, above
<1>10. CASE Feed("ED0", PutGrid(Now, ed0))
  BY <1>4, <1>10, EditFed
<1>11. CASE Feed("ED1", PutGrid(Now, ed1))
  BY <1>6, <1>11, EditFed
<1>12. CASE Feed("ED2", PutGrid(Now, ClearVisible(g)))
  BY <1>7, <1>12, EditFed
<1>13. CASE Feed("ED3", PutGrid(Now, ed3))
  BY <1>8, <1>13, EditFed
<1> QED BY <1>9, <1>10, <1>11, <1>12, <1>13

\* Erasing, inserting and deleting in the cursor's line.
LEMMA LineEditFed ==
  ASSUME NEW rows \in Nat \ {0}, NEW cols \in Nat \ {0}, Good(vt, rows, cols),
         EraseLine \/ InsertCharacters \/ DeleteCharacters \/ EraseCharacters
  PROVE  Fed(rows, cols)
<1>1. /\ Row \in 0 .. rows - 1 /\ Col \in 0 .. cols - 1 /\ vt.grid \in Buffers(rows, cols)
      /\ vt.grid.rows = rows /\ vt.grid.cols = cols
  BY NowParts
<1>2. 0 \in 0 .. cols - 1
  OBVIOUS
<1>3. ASSUME NEW col \in 0 .. cols - 1, NEW k \in Nat
      PROVE  Onto(vt.grid, EraseChars(vt.grid, Row, col, k), rows, cols)
  BY <1>1, EraseCharsStep
<1>4. CASE EraseLine
  <2> DEFINE k == vt.grid.cols - Col
             m == Col + 1
             n == vt.grid.cols
  <2>1. k \in Nat /\ m \in Nat /\ n \in Nat
    BY <1>1
  <2>2. \/ Feed("EL0", PutGrid(Now, EraseChars(vt.grid, Row, Col, k)))
        \/ Feed("EL1", PutGrid(Now, EraseChars(vt.grid, Row, 0, m)))
        \/ Feed("EL2", PutGrid(Now, EraseChars(vt.grid, Row, 0, n)))
    BY <1>4 DEF EraseLine
  <2> HIDE DEF k, m, n
  <2>3. /\ Onto(vt.grid, EraseChars(vt.grid, Row, Col, k), rows, cols)
        /\ Onto(vt.grid, EraseChars(vt.grid, Row, 0, m), rows, cols)
        /\ Onto(vt.grid, EraseChars(vt.grid, Row, 0, n), rows, cols)
    BY <1>1, <1>2, <1>3, <2>1
  <2>4. CASE Feed("EL0", PutGrid(Now, EraseChars(vt.grid, Row, Col, k)))
    BY <2>3, <2>4, EditFed
  <2>5. CASE Feed("EL1", PutGrid(Now, EraseChars(vt.grid, Row, 0, m)))
    BY <2>3, <2>5, EditFed
  <2>6. CASE Feed("EL2", PutGrid(Now, EraseChars(vt.grid, Row, 0, n)))
    BY <2>3, <2>6, EditFed
  <2> QED BY <2>2, <2>4, <2>5, <2>6
<1>5. CASE InsertCharacters
  <2>1. PICK n \in Counts : Feed("ICH", PutGrid(Now, InsertChars(vt.grid, Row, Col, n)))
    BY <1>5 DEF InsertCharacters
  <2>2. n \in Nat \ {0}
    BY CountsAssumption
  <2>3. Onto(vt.grid, InsertChars(vt.grid, Row, Col, n), rows, cols)
    BY <1>1, <2>2, InsertCharsStep
  <2> QED BY <2>1, <2>3, EditFed
<1>6. CASE DeleteCharacters
  <2>1. PICK n \in Counts : Feed("DCH", PutGrid(Now, DeleteChars(vt.grid, Row, Col, n)))
    BY <1>6 DEF DeleteCharacters
  <2>2. n \in Nat
    BY CountsAssumption
  <2>3. Onto(vt.grid, DeleteChars(vt.grid, Row, Col, n), rows, cols)
    BY <1>1, <2>2, DeleteCharsStep
  <2> QED BY <2>1, <2>3, EditFed
<1>7. CASE EraseCharacters
  <2>1. PICK n \in Counts : Feed("ECH", PutGrid(Now, EraseChars(vt.grid, Row, Col, n)))
    BY <1>7 DEF EraseCharacters
  <2>2. n \in Nat
    BY CountsAssumption
  <2>3. Onto(vt.grid, EraseChars(vt.grid, Row, Col, n), rows, cols)
    BY <1>1, <1>3, <2>2
  <2> QED BY <2>1, <2>3, EditFed
<1> QED BY <1>4, <1>5, <1>6, <1>7

\* Scrolling, and inserting and deleting lines.
LEMMA ScrollFed ==
  ASSUME NEW rows \in Nat \ {0}, NEW cols \in Nat \ {0}, Good(vt, rows, cols),
         InsertLines \/ DeleteLines \/ PanDown \/ PanUp
  PROVE  Fed(rows, cols)
<1>1. /\ Row \in Nat /\ vt.bottom \in Nat /\ vt.grid \in Buffers(rows, cols) /\ Now \in Vts(rows, cols)
  BY NowParts
<1>2. Counts \subseteq Nat
  BY CountsAssumption
<1>3. CASE InsertLines
  <2>1. PICK n \in Counts : Feed("IL", IF InRegion THEN PutGrid(Now, ScrollDown(vt.grid, Row, vt.bottom, n)) ELSE Now)
    BY <1>3 DEF InsertLines
  <2>2. Onto(vt.grid, ScrollDown(vt.grid, Row, vt.bottom, n), rows, cols)
    BY <1>1, <1>2, ScrollDownStep
  <2>3. CASE InRegion
    <3>1. Feed("IL", PutGrid(Now, ScrollDown(vt.grid, Row, vt.bottom, n)))
      BY <2>1, <2>3
    <3> QED BY <2>2, <3>1, EditFed
  <2>4. CASE ~InRegion
    <3>1. Feed("IL", Now)
      BY <2>1, <2>4
    <3> QED BY <3>1, StillFed
  <2> QED BY <2>3, <2>4
<1>4. CASE DeleteLines
  <2>1. PICK n \in Counts : Feed("DL", IF InRegion THEN PutGrid(Now, ScrollUp(vt.grid, Row, vt.bottom, n)) ELSE Now)
    BY <1>4 DEF DeleteLines
  <2>2. Onto(vt.grid, ScrollUp(vt.grid, Row, vt.bottom, n), rows, cols)
    BY <1>1, <1>2, ScrollUpStep
  <2>3. CASE InRegion
    <3>1. Feed("DL", PutGrid(Now, ScrollUp(vt.grid, Row, vt.bottom, n)))
      BY <2>1, <2>3
    <3> QED BY <2>2, <3>1, EditFed
  <2>4. CASE ~InRegion
    <3>1. Feed("DL", Now)
      BY <2>1, <2>4
    <3> QED BY <3>1, StillFed
  <2> QED BY <2>3, <2>4
<1>5. CASE PanDown
  <2>1. PICK n \in Counts : Feed("SU", ScrollRegionUp(Now, n))
    BY <1>5 DEF PanDown
  <2>2. Draws(Now, ScrollRegionUp(Now, n), rows, cols)
    BY <1>1, <1>2, ScrollRegionStep
  <2> QED BY <2>1, <2>2, DrawFed
<1>6. CASE PanUp
  <2>1. PICK n \in Counts : Feed("SD", ScrollRegionDown(Now, n))
    BY <1>6 DEF PanUp
  <2>2. Draws(Now, ScrollRegionDown(Now, n), rows, cols)
    BY <1>1, <1>2, ScrollRegionStep
  <2> QED BY <2>1, <2>2, DrawFed
<1> QED BY <1>3, <1>4, <1>5, <1>6

\* Another scroll region.
LEMMA RegionStep ==
  ASSUME NEW rows \in Nat \ {0}, NEW cols \in Nat \ {0}, NEW t \in Vts(rows, cols),
         NEW top \in 0 .. rows - 1, NEW bottom \in 0 .. rows - 1, top <= bottom
  PROVE  Draws(t, [t EXCEPT !.top = top, !.bottom = bottom], rows, cols)
<1> DEFINE u == [t EXCEPT !.top = top, !.bottom = bottom]
<1>1. u \in Vts(rows, cols)
  BY DEF Vts
<1>2. Keeps(t, u)
  BY DEF Vts, Keeps
<1>3. u.top = top /\ u.bottom = bottom /\ u.grid = t.grid /\ u.frozenGrid = t.frozenGrid /\ u.frozenCursor = t.frozenCursor
  BY DEF Vts
<1>4. t.grid \in Buffers(rows, cols)
  BY VtParts
<1> HIDE DEF u
<1>5. ShownGrid(u) = ShownGrid(t)
  BY <1>3 DEF ShownGrid
<1>6. Dirties(ShownGrid(t), ShownGrid(u))
  BY <1>5 DEF Dirties
<1>7. Onto(t.grid, u.grid, rows, cols)
  BY <1>3, <1>4, OntoSelf
<1>8. Draws(t, u, rows, cols)
  BY <1>1, <1>2, <1>3, <1>6, <1>7 DEF Draws
<1> QED BY <1>8 DEF u

\* A draw, then a movement.
LEMMA DrawMoveFed ==
  ASSUME NEW rows \in Nat \ {0}, NEW cols \in Nat \ {0}, Good(vt, rows, cols),
         NEW name, NEW u, Draws(Now, u, rows, cols), NEW row \in 0 .. rows - 1, NEW col \in 0 .. cols - 1,
         Feed(name, MoveTo(u, row, col))
  PROVE  Fed(rows, cols)
<1>1. u \in Vts(rows, cols) /\ Now \in Vts(rows, cols)
  BY NowParts DEF Draws
<1>2. Draws(u, MoveTo(u, row, col), rows, cols)
  BY <1>1, MoveToStep
<1>3. Draws(Now, MoveTo(u, row, col), rows, cols)
  BY <1>1, <1>2, DrawsThen
<1> QED BY <1>3, DrawFed

\* DECSTBM
LEMMA SetRegionFed ==
  ASSUME NEW rows \in Nat \ {0}, NEW cols \in Nat \ {0}, Good(vt, rows, cols), SetRegion
  PROVE  Fed(rows, cols)
<1>1. Now \in Vts(rows, cols) /\ LastRow(vt) = rows - 1
  BY NowParts
<1>2. PICK n \in Counts, m \in Counts :
        LET bottom == MinOf(m - 1, LastRow(vt))
            set == [Now EXCEPT !.top = n - 1, !.bottom = bottom]
        IN  Feed("DECSTBM", IF n - 1 < bottom THEN MoveTo(set, OriginTop(set), 0) ELSE Now)
  BY DEF SetRegion
<1> DEFINE bottom == MinOf(m - 1, LastRow(vt))
           top == n - 1
           set == [Now EXCEPT !.top = top, !.bottom = bottom]
<1>3. n \in Nat \ {0} /\ m \in Nat \ {0}
  BY CountsAssumption
<1>4. bottom \in 0 .. rows - 1 /\ top \in Nat
  BY <1>1, <1>3 DEF MinOf
<1>5. Feed("DECSTBM", IF top < bottom THEN MoveTo(set, OriginTop(set), 0) ELSE Now)
  BY <1>2
<1> HIDE DEF bottom, top
<1>6. CASE top < bottom
  <2>1. top \in 0 .. rows - 1 /\ top <= bottom
    BY <1>4, <1>6
  <2>2. Draws(Now, set, rows, cols)
    BY <1>1, <1>4, <2>1, RegionStep
  <2>3. Feed("DECSTBM", MoveTo(set, OriginTop(set), 0))
    BY <1>5, <1>6
  <2> HIDE DEF set
  <2>4. set \in Vts(rows, cols)
    BY <2>2 DEF Draws
  <2>5. OriginTop(set) \in 0 .. rows - 1 /\ 0 \in 0 .. cols - 1
    BY <2>4, Bounds
  <2> QED BY <2>2, <2>3, <2>5, DrawMoveFed
<1>7. CASE ~(top < bottom)
  <2>1. Feed("DECSTBM", Now)
    BY <1>5, <1>7
  <2> QED BY <2>1, StillFed
<1> QED BY <1>6, <1>7

\* Setting and resetting modes.
LEMMA SetModeFed ==
  ASSUME NEW rows \in Nat \ {0}, NEW cols \in Nat \ {0}, Good(vt, rows, cols), SetMode
  PROVE  Fed(rows, cols)
<1>1. Now \in Vts(rows, cols) /\ vt.cursor \in Cursors(rows, cols) /\ Now.modes \in Modes
  <2>1. Now \in Vts(rows, cols) /\ vt \in Vts(rows, cols)
    BY NowParts
  <2> QED BY <2>1, VtParts
<1>2. PICK on \in BOOLEAN :
        \/ Feed("IRM", [Now EXCEPT !.modes.insert = on])
        \/ Feed("LNM", [Now EXCEPT !.modes.newline = on])
        \/ Feed("DECAWM", [Now EXCEPT !.modes.wrap = on])
        \/ LET set == [Now EXCEPT !.modes.origin = on]
           IN  Feed("DECOM", MoveTo(set, OriginTop(set), 0))
        \/ Feed("DECTCEM", PutCursor(Now, [vt.cursor EXCEPT !.visible = on]))
  BY DEF SetMode, StandardMode, PrivateMode
<1>3. ASSUME NEW m \in Modes, m.alt = Now.modes.alt
      PROVE  Draws(Now, [Now EXCEPT !.modes = m], rows, cols)
  BY <1>1, <1>3, ModesStep
<1>4. CASE Feed("IRM", [Now EXCEPT !.modes.insert = on])
  <2> DEFINE m == [Now.modes EXCEPT !.insert = on]
  <2>1. m \in Modes /\ m.alt = Now.modes.alt /\ [Now EXCEPT !.modes.insert = on] = [Now EXCEPT !.modes = m]
    BY <1>1 DEF Modes
  <2> HIDE DEF m
  <2>2. Feed("IRM", [Now EXCEPT !.modes = m])
    BY <1>4, <2>1
  <2>3. Draws(Now, [Now EXCEPT !.modes = m], rows, cols)
    BY <1>3, <2>1
  <2> QED BY <2>2, <2>3, DrawFed
<1>5. CASE Feed("LNM", [Now EXCEPT !.modes.newline = on])
  <2> DEFINE m == [Now.modes EXCEPT !.newline = on]
  <2>1. m \in Modes /\ m.alt = Now.modes.alt /\ [Now EXCEPT !.modes.newline = on] = [Now EXCEPT !.modes = m]
    BY <1>1 DEF Modes
  <2> HIDE DEF m
  <2>2. Feed("LNM", [Now EXCEPT !.modes = m])
    BY <1>5, <2>1
  <2>3. Draws(Now, [Now EXCEPT !.modes = m], rows, cols)
    BY <1>3, <2>1
  <2> QED BY <2>2, <2>3, DrawFed
<1>6. CASE Feed("DECAWM", [Now EXCEPT !.modes.wrap = on])
  <2> DEFINE m == [Now.modes EXCEPT !.wrap = on]
  <2>1. m \in Modes /\ m.alt = Now.modes.alt /\ [Now EXCEPT !.modes.wrap = on] = [Now EXCEPT !.modes = m]
    BY <1>1 DEF Modes
  <2> HIDE DEF m
  <2>2. Feed("DECAWM", [Now EXCEPT !.modes = m])
    BY <1>6, <2>1
  <2>3. Draws(Now, [Now EXCEPT !.modes = m], rows, cols)
    BY <1>3, <2>1
  <2> QED BY <2>2, <2>3, DrawFed
<1>7. CASE LET set == [Now EXCEPT !.modes.origin = on]
           IN  Feed("DECOM", MoveTo(set, OriginTop(set), 0))
  <2> DEFINE m == [Now.modes EXCEPT !.origin = on]
             set == [Now EXCEPT !.modes = m]
  <2>1. m \in Modes /\ m.alt = Now.modes.alt /\ [Now EXCEPT !.modes.origin = on] = set
    BY <1>1 DEF Modes
  <2> HIDE DEF m
  <2>2. Feed("DECOM", MoveTo(set, OriginTop(set), 0))
    BY <1>7, <2>1
  <2>3. Draws(Now, set, rows, cols)
    BY <1>3, <2>1
  <2> HIDE DEF set
  <2>4. set \in Vts(rows, cols)
    BY <2>3 DEF Draws
  <2>5. OriginTop(set) \in 0 .. rows - 1 /\ 0 \in 0 .. cols - 1
    BY <2>4, Bounds
  <2> QED BY <2>2, <2>3, <2>5, DrawMoveFed
<1>8. CASE Feed("DECTCEM", PutCursor(Now, [vt.cursor EXCEPT !.visible = on]))
  <2> DEFINE c == [vt.cursor EXCEPT !.visible = on]
  <2>1. c \in Cursors(rows, cols)
    BY <1>1 DEF Cursors
  <2>2. Feed("DECTCEM", PutCursor(Now, c))
    BY <1>8
  <2> HIDE DEF c
  <2>3. Draws(Now, PutCursor(Now, c), rows, cols)
    BY <1>1, <2>1, PutCursorStep
  <2> QED BY <2>2, <2>3, DrawFed
<1> QED BY <1>2, <1>4, <1>5, <1>6, <1>7, <1>8

\* The rest: the saved cursor, the screens, windows, alignment, colours and reset.
LEMMA RestFed ==
  ASSUME NEW rows, NEW cols, IsSize(rows, cols), Good(vt, rows, cols),
         KeepCursor \/ SwapScreens \/ Synchronize \/ Align \/ DynamicColor \/ Reset
  PROVE  Fed(rows, cols)
<1>1. rows \in Nat \ {0} /\ cols \in Nat \ {0}
  BY SizeType
<1>2. /\ Now \in Vts(rows, cols) /\ Good(Now, rows, cols) /\ Now.grid = vt.grid
      /\ vt.grid \in Buffers(rows, cols) /\ vt.grid.rows = rows /\ LastRow(vt) = rows - 1
  BY <1>1, NowParts
<1>3. ASSUME NEW name, NEW u, Feeds(Now, u, rows, cols), Feed(name, u) PROVE Fed(rows, cols)
  <2>1. Feeds(Inactive(vt), u, rows, cols)
    BY <1>3 DEF Now
  <2>2. Feeds(vt, u, rows, cols)
    BY <1>1, <2>1, FeedsInactive
  <2> QED BY <1>3, <2>2, FeedFed
<1>4. CASE KeepCursor
  <2>1. Draws(Now, SaveCursor(Now), rows, cols) /\ Draws(Now, RestoreCursor(Now), rows, cols)
    BY <1>1, <1>2, SaveCursorStep, RestoreCursorStep
  <2>2. CASE Feed("DECSC", SaveCursor(Now))
    BY <1>1, <2>1, <2>2, DrawFed
  <2>3. CASE Feed("DECRC", RestoreCursor(Now))
    BY <1>1, <2>1, <2>3, DrawFed
  <2> QED BY <1>4, <2>2, <2>3 DEF KeepCursor
<1>5. CASE SwapScreens
  <2>1. /\ Feeds(Now, Open1049(Now), rows, cols) /\ Feeds(Now, Close1049(Now), rows, cols)
        /\ Feeds(Now, Open1047(Now), rows, cols) /\ Feeds(Now, Close1047(Now), rows, cols)
    BY <1>2, Open1049Step, Close1049Step, Open1047Step
  <2>2. CASE Feed("1049", Open1049(Now)) BY <1>3, <2>1, <2>2
  <2>3. CASE Feed("1049", Close1049(Now)) BY <1>3, <2>1, <2>3
  <2>4. CASE Feed("1047", Open1047(Now)) BY <1>3, <2>1, <2>4
  <2>5. CASE Feed("1047", Close1047(Now)) BY <1>3, <2>1, <2>5
  <2> QED BY <1>5, <2>2, <2>3, <2>4, <2>5 DEF SwapScreens
<1>6. CASE Synchronize
  <2>1. Feeds(Now, OpenSync(Now), rows, cols) /\ Feeds(Now, CloseSync(Now), rows, cols)
    BY <1>1, <1>2, OpenSyncStep, CloseSyncStep
  <2>2. CASE Feed("2026", OpenSync(Now)) BY <1>3, <2>1, <2>2
  <2>3. CASE Feed("2026", CloseSync(Now)) BY <1>3, <2>1, <2>3
  <2> QED BY <1>6, <2>2, <2>3 DEF Synchronize
<1>7. CASE Align
  <2> DEFINE a == PutGrid(Now, FillAlignment(vt.grid))
             set == [a EXCEPT !.top = 0, !.bottom = rows - 1]
  <2>1. 0 \in Int /\ rows \in Int /\ "E" \in {Blank, "E"} /\ 0 \in 0 .. rows - 1 /\ rows - 1 \in 0 .. rows - 1
        /\ 0 <= rows - 1 /\ 0 \in 0 .. cols - 1
    BY <1>1
  <2>2. Onto(Now.grid, FillAlignment(vt.grid), rows, cols)
    <3>1. Onto(vt.grid, FillRows(vt.grid, 0, rows, "E"), rows, cols)
      BY <1>1, <1>2, <2>1, FillRowsStep
    <3> QED BY <1>2, <3>1 DEF FillAlignment
  <2>3. Draws(Now, a, rows, cols)
    BY <1>1, <1>2, <2>2, PutGridStep
  <2>4. Feed("DECALN", MoveTo(set, 0, 0))
    BY <1>2, <1>7 DEF Align
  <2> HIDE DEF a
  <2>5. a \in Vts(rows, cols)
    BY <2>3 DEF Draws
  <2>6. Draws(a, set, rows, cols)
    BY <1>1, <2>1, <2>5, RegionStep
  <2> HIDE DEF set
  <2>7. Draws(Now, set, rows, cols)
    BY <1>1, <1>2, <2>3, <2>6, DrawsThen
  <2> QED BY <1>1, <2>1, <2>4, <2>7, DrawMoveFed
<1>8. CASE DynamicColor
  <2>1. PICK c \in {"default", "dark"} :
          Feed("OSC", IF c # vt.color THEN PutGrid(PutColor(vt, c), MarkAll(vt.grid))
                      ELSE IF c = "default" THEN PutColor(vt, c) ELSE vt)
    BY <1>8 DEF DynamicColor
  <2>2. c \in Colors
    BY DEF Colors
  <2>5. CASE c = vt.color /\ c = "default"
    <3>1. Feed("OSC", PutColor(vt, c))
      BY <2>1, <2>5
    <3>2. Feeds(vt, PutColor(vt, c), rows, cols)
      BY <1>1, <2>2, ColorStep
    <3> QED BY <3>1, <3>2, FeedFed
  <2>3. CASE c = vt.color /\ c # "default"
    <3>1. Feed("OSC", vt)
      BY <2>1, <2>3
    <3>2. Feeds(vt, vt, rows, cols)
      BY <1>1, GoodSelf
    <3> QED BY <3>1, <3>2, FeedFed
  <2>4. CASE c # vt.color
    <3>1. Feed("OSC", PutGrid(PutColor(vt, c), MarkAll(vt.grid)))
      BY <2>1, <2>4
    <3>2. Feeds(vt, PutGrid(PutColor(vt, c), MarkAll(vt.grid)), rows, cols)
      BY <1>1, <2>2, ColorStep
    <3> QED BY <3>1, <3>2, FeedFed
  <2> QED BY <2>3, <2>4, <2>5
<1>9. CASE Reset
  <2>1. Feeds(Now, FullReset(Now), rows, cols)
    BY <1>2, FullResetStep
  <2> QED BY <1>3, <1>9, <2>1 DEF Reset
<1> QED BY <1>4, <1>5, <1>6, <1>7, <1>8, <1>9

\* Every control function.
LEMMA ControlFed ==
  ASSUME NEW rows, NEW cols, IsSize(rows, cols), Good(vt, rows, cols), Control
  PROVE  Fed(rows, cols)
<1>1. rows \in Nat \ {0} /\ cols \in Nat \ {0}
  BY SizeType
<1>2. CASE PrintChar
  BY <1>1, <1>2, PrintFed
<1>3. CASE Backspace \/ LineFeed \/ CarriageReturn \/ NextLine \/ ReverseLine
  BY <1>1, <1>3, LinesFed
<1>4. CASE CursorUp \/ CursorDown \/ CursorForward \/ CursorBack \/ CursorNextLine \/ CursorPrevLine
             \/ CursorColumn \/ CursorRow \/ CursorPosition
  BY <1>1, <1>4, MovesFed
<1>5. CASE EraseDisplay
  BY <1>1, <1>5, EraseDisplayFed
<1>6. CASE EraseLine \/ InsertCharacters \/ DeleteCharacters \/ EraseCharacters
  BY <1>1, <1>6, LineEditFed
<1>7. CASE InsertLines \/ DeleteLines \/ PanDown \/ PanUp
  BY <1>1, <1>7, ScrollFed
<1>8. CASE SetRegion
  BY <1>1, <1>8, SetRegionFed
<1>9. CASE SetMode
  BY <1>1, <1>9, SetModeFed
<1>10. CASE KeepCursor \/ SwapScreens \/ Synchronize \/ Align \/ DynamicColor \/ Reset
  BY <1>10, RestFed
<1> QED BY <1>2, <1>3, <1>4, <1>5, <1>6, <1>7, <1>8, <1>9, <1>10 DEF Control

(***************************************************************************)
(* Batches and what comes between them                                     *)
(***************************************************************************)

\* Another count of changes: nothing that is shown or kept changes.
Recount(t, hidden, revision, flooded) ==
  [t EXCEPT !.hidden = hidden, !.revision = revision, !.flooded = flooded]

Recounted(t, u, hidden, revision, rows, cols) ==
  /\ Good(u, rows, cols) /\ u.hidden = hidden /\ u.revision = revision
  /\ u.grid = t.grid /\ u.cursor = t.cursor /\ u.modes = t.modes /\ u.armed = t.armed
  /\ ShownGrid(u) = ShownGrid(t)

\* The type of a terminal whose revision is counted.
LEMMA RecountType ==
  ASSUME NEW rows \in Nat \ {0}, NEW cols \in Nat \ {0}, NEW t \in Vts(rows, cols),
         NEW hidden \in BOOLEAN, NEW revision \in Nat, NEW flooded \in BOOLEAN
  PROVE  [t EXCEPT !.hidden = hidden, !.revision = revision, !.flooded = flooded] \in Vts(rows, cols)
BY ZenonT(60) DEF Vts

\* The fields of a terminal whose revision is counted.
LEMMA RecountFields ==
  ASSUME NEW rows \in Nat \ {0}, NEW cols \in Nat \ {0}, NEW t, Good(t, rows, cols),
         NEW hidden \in BOOLEAN, NEW revision \in Nat, NEW flooded \in BOOLEAN
  PROVE  Recounted(t, Recount(t, hidden, revision, flooded), hidden, revision, rows, cols)
<1> DEFINE u == [t EXCEPT !.hidden = hidden, !.revision = revision, !.flooded = flooded]
<1>0. t \in Vts(rows, cols)
  BY DEF Good
<1>1. u \in Vts(rows, cols)
  BY <1>0, RecountType
<1>2. /\ u.hidden = hidden /\ u.revision = revision /\ u.armed = t.armed
      /\ u.frozenGrid = t.frozenGrid /\ u.frozenCursor = t.frozenCursor
      /\ u.frozenColor = t.frozenColor /\ u.frozenAlt = t.frozenAlt
  BY <1>0 DEF Vts
<1>3. /\ u.grid = t.grid /\ u.cursor = t.cursor /\ u.stash = t.stash /\ u.spare = t.spare
      /\ u.modes = t.modes /\ u.top = t.top /\ u.bottom = t.bottom
  BY <1>0 DEF Vts
<1>4. Recount(t, hidden, revision, flooded) = u
  BY DEF Recount
<1> HIDE DEF u
<1>5. ShownGrid(u) = ShownGrid(t)
  BY <1>2, <1>3 DEF ShownGrid
<1>6. Good(u, rows, cols)
  BY <1>1, <1>2, <1>3 DEF Good
<1> QED BY <1>2, <1>3, <1>4, <1>5, <1>6 DEF Recounted

\* A batch ends: what waits, what is counted.
LEMMA EndBatchStep ==
  ASSUME NEW rows \in Nat \ {0}, NEW cols \in Nat \ {0}, Good(vt, rows, cols), EndBatch
  PROVE  \E hidden \in BOOLEAN, revision \in Nat :
           /\ Recounted(vt, vt', hidden, revision, rows, cols)
           /\ vt.armed => hidden = (vt.hidden \/ OtherChanged)
           /\ ~vt.armed => ~hidden
           /\ revision \in {vt.revision, vt.revision + 1}
           /\ ~vt.armed /\ (vt.hidden \/ OtherChanged) => revision = vt.revision + 1
<1> DEFINE changed == IF OtherChanged THEN TRUE ELSE FALSE
           painted == IF ColorsChanged THEN TRUE ELSE FALSE
<1>1. /\ vt \in Vts(rows, cols) /\ vt.hidden \in BOOLEAN /\ vt.revision \in Nat /\ vt.flooded \in BOOLEAN
      /\ vt.armed \in BOOLEAN
  BY DEF Good, Vts
<1>2. changed \in BOOLEAN /\ painted \in BOOLEAN /\ (changed <=> OtherChanged) /\ (painted <=> ColorsChanged)
  OBVIOUS
<1>3. PICK full \in {vt.flooded, "flood" \in Inputs} :
        vt' = [Revised EXCEPT !.flooded = vt.armed /\ (@ \/ full)]
  BY DEF EndBatch
<1>4. full \in BOOLEAN
  <2>1. ("flood" \in Inputs) \in BOOLEAN
    OBVIOUS
  <2> QED BY Zenon, <1>1, <1>3, <2>1
<1> DEFINE hidden == IF vt.armed THEN vt.hidden \/ changed ELSE FALSE
           counted == IF vt.armed THEN painted ELSE vt.hidden \/ painted \/ changed
           revision == IF counted THEN vt.revision + 1 ELSE vt.revision
           flooded == vt.armed /\ (vt.flooded \/ full)
<1>5. hidden \in BOOLEAN /\ revision \in Nat /\ flooded \in BOOLEAN
  <2>1. hidden \in BOOLEAN
    BY Zenon
  <2>2. flooded \in BOOLEAN
    BY Zenon
  <2>3. revision \in Nat
    <3> HIDE DEF counted
    <3> QED BY <1>1
  <2> QED BY <2>1, <2>2, <2>3
<1>6. vt' = Recount(vt, hidden, revision, flooded)
  <2>1. CASE vt.armed
    <3>1. CASE painted
      <4>1. Revised = [RecordBatch(vt) EXCEPT !.hidden = vt.hidden \/ changed]
        <5>1. [RecordBatch(vt) EXCEPT !.hidden = @ \/ OtherChanged] = [RecordBatch(vt) EXCEPT !.hidden = vt.hidden \/ changed]
          <6>1. RecordBatch(vt) \in Vts(rows, cols) /\ RecordBatch(vt).hidden = vt.hidden
            BY <1>1 DEF RecordBatch, Vts
          <6>2. (vt.hidden \/ OtherChanged) = (vt.hidden \/ changed)
            OBVIOUS
          <6> QED BY <6>1, <6>2
        <5> QED BY <2>1, <3>1, <5>1 DEF Revised
      <4> HIDE DEF changed
      <4>2. RecordBatch(vt) = [vt EXCEPT !.revision = vt.revision + 1]
        BY <1>1 DEF RecordBatch, Vts
      <4> QED BY <1>1, <1>3, <2>1, <3>1, <4>1, <4>2 DEF Recount, Vts
    <3>2. CASE ~painted
      <4>1. Revised = [vt EXCEPT !.hidden = vt.hidden \/ changed]
        <5>1. (vt.hidden \/ OtherChanged) = (vt.hidden \/ changed)
          OBVIOUS
        <5> QED BY <1>1, <2>1, <3>2, <5>1 DEF Revised
      <4> HIDE DEF changed
      <4> QED BY <1>1, <1>3, <2>1, <3>2, <4>1 DEF Recount, Vts
    <3> QED BY <3>1, <3>2
  <2>2. CASE ~vt.armed
    <3>1. CASE vt.hidden \/ painted \/ changed
      <4>1. Revised = [RecordBatch(vt) EXCEPT !.hidden = FALSE]
        BY <2>2, <3>1 DEF Revised
      <4>2. RecordBatch(vt) = [vt EXCEPT !.revision = vt.revision + 1]
        BY <1>1 DEF RecordBatch, Vts
      <4> HIDE DEF changed, painted
      <4> QED BY <1>1, <1>3, <2>2, <3>1, <4>1, <4>2 DEF Recount, Vts
    <3>2. CASE ~(vt.hidden \/ painted \/ changed)
      <4>1. Revised = vt
        BY <2>2, <3>2 DEF Revised
      <4> HIDE DEF changed, painted
      <4> QED BY <1>1, <1>3, <2>2, <3>2, <4>1 DEF Recount, Vts
    <3> QED BY <3>1, <3>2
  <2> QED BY <2>1, <2>2
<1>7. /\ vt.armed => hidden = (vt.hidden \/ OtherChanged)
      /\ ~vt.armed => ~hidden
      /\ revision \in {vt.revision, vt.revision + 1}
      /\ ~vt.armed /\ (vt.hidden \/ OtherChanged) => revision = vt.revision + 1
  BY <1>1
<1> HIDE DEF hidden, revision, flooded
<1>8. Recounted(vt, vt', hidden, revision, rows, cols)
  BY <1>5, <1>6, RecountFields
<1> QED BY <1>5, <1>7, <1>8

\* A window too old is closed, and what it hid is counted.
LEMMA ExpireStep ==
  ASSUME NEW rows \in Nat \ {0}, NEW cols \in Nat \ {0}, Good(vt, rows, cols), Expire
  PROVE  \E revision \in Nat :
           /\ Good(vt', rows, cols) /\ ~vt'.armed /\ ~vt'.hidden /\ vt'.revision = revision
           /\ ShownGrid(vt').dirty.all /\ vt'.grid \in Buffers(rows, cols)
           /\ vt'.grid.raw = vt.grid.raw /\ vt'.cursor = vt.cursor /\ vt'.modes = vt.modes
           /\ revision \in {vt.revision, vt.revision + 1} /\ (vt.hidden => revision = vt.revision + 1)
<1> DEFINE f == ForceRelease(vt)
           classA == IF \/ vt.hidden \/ vt.frozenGrid # None \/ vt.frozenCursor # None
                        \/ vt.frozenColor # None \/ vt.frozenAlt # None THEN TRUE ELSE FALSE
           revision == IF classA THEN vt.revision + 1 ELSE vt.revision
           u == Recount(f, FALSE, revision, f.flooded)
<1>1. vt \in Vts(rows, cols) /\ vt.revision \in Nat /\ vt.hidden \in BOOLEAN
  BY DEF Good, Vts
<1>2. vt' = IF classA THEN RecordBatch([f EXCEPT !.hidden = FALSE]) ELSE [f EXCEPT !.hidden = FALSE]
  BY DEF Expire
<1>3. revision \in Nat /\ revision \in {vt.revision, vt.revision + 1} /\ (vt.hidden => revision = vt.revision + 1)
  BY <1>1
<1>4. Marked(vt, f, rows, cols) /\ ~f.armed
  BY ForceReleaseStep
<1> HIDE DEF f
<1>5. Feeds(vt, f, rows, cols) /\ f.grid.raw = vt.grid.raw
  BY <1>4, MarkedFeeds
<1>6. /\ f \in Vts(rows, cols) /\ Good(f, rows, cols) /\ f.grid = MarkAll(vt.grid) /\ f.frozenGrid = None
      /\ f.cursor = vt.cursor /\ f.modes = vt.modes /\ f.revision = vt.revision
  BY <1>4, <1>5 DEF Marked, Feeds, Holds
<1>7. f.flooded \in BOOLEAN /\ FALSE \in BOOLEAN
  BY <1>6 DEF Vts
<1>8. vt' = u
  <2>1. [f EXCEPT !.hidden = FALSE] \in Vts(rows, cols) /\ [f EXCEPT !.hidden = FALSE].revision = vt.revision
    BY ZenonT(90), <1>6 DEF Vts
  <2>2. RecordBatch([f EXCEPT !.hidden = FALSE]) = [[f EXCEPT !.hidden = FALSE] EXCEPT !.revision = vt.revision + 1]
    BY <2>1 DEF RecordBatch
  <2> HIDE DEF classA
  <2>3. CASE classA
    BY <1>2, <1>6, <2>2, <2>3 DEF Recount, Vts
  <2>4. CASE ~classA
    BY <1>2, <1>6, <2>4 DEF Recount, Vts
  <2> QED BY <2>3, <2>4
<1> HIDE DEF revision, u
<1>9. Recounted(f, u, FALSE, revision, rows, cols)
  BY <1>3, <1>6, <1>7, RecountFields DEF u
<1>10. /\ Good(u, rows, cols) /\ u.hidden = FALSE /\ u.revision = revision /\ u.grid = f.grid
       /\ u.cursor = f.cursor /\ u.modes = f.modes /\ u.armed = f.armed /\ ShownGrid(u) = ShownGrid(f)
  BY <1>9 DEF Recounted
<1>11. vt.grid \in Buffers(rows, cols)
  BY <1>1, VtParts
<1>12. MarkAll(vt.grid) \in Buffers(rows, cols) /\ MarkAll(vt.grid).dirty.all
  BY <1>11, MarkAllStep
<1>13. ShownGrid(f) = MarkAll(vt.grid)
  BY <1>6 DEF ShownGrid
<1> QED BY <1>3, <1>4, <1>5, <1>6, <1>8, <1>10, <1>12, <1>13

\* A cursor of a screen, and where it stood on one of the same size.
Seated(d, c, rows, cols, rows2, cols2) ==
  d \in Cursors(rows2, cols2) /\ (rows2 = rows /\ cols2 = cols => CursorSpot(d) = CursorSpot(c))

\* A cursor brought inside a screen of another size, with what it saved.
LEMMA ClampType ==
  ASSUME NEW rows \in Nat \ {0}, NEW cols \in Nat \ {0}, NEW c \in Cursors(rows, cols),
         NEW rows2 \in Nat \ {0}, NEW cols2 \in Nat \ {0}
  PROVE  Seated(ClampCursor(c, rows2, cols2), c, rows, cols, rows2, cols2)
<1> DEFINE row == MinOf(c.row, rows2 - 1)
           col == MinOf(c.col, cols2 - 1)
           s == c.saved
           srow == MinOf(s.row, rows2 - 1)
           scol == MinOf(s.col, cols2 - 1)
           fit == [s EXCEPT !.row = srow, !.col = scol, !.pending = FALSE]
           saved == IF s = None THEN None ELSE fit
           d == [c EXCEPT !.row = row, !.col = col, !.pending = FALSE, !.saved = saved]
<1>1. c.row \in 0 .. rows - 1 /\ c.col \in 0 .. cols - 1 /\ s \in Saves \cup {None} /\ c.visible \in BOOLEAN
  BY DEF Cursors
<1>2. row \in 0 .. rows2 - 1 /\ col \in 0 .. cols2 - 1 /\ (rows2 = rows => row = c.row) /\ (cols2 = cols => col = c.col)
  BY <1>1 DEF MinOf
<1>3. ClampCursor(c, rows2, cols2) = d
  BY DEF ClampCursor, Cursors
<1>4. saved \in Saves \cup {None}
  <2>1. CASE s = None
    BY <2>1
  <2>2. CASE s # None
    <3>1. s \in Saves /\ s.row \in Nat /\ s.col \in Nat
      BY <1>1, <2>2 DEF Saves
    <3>2. srow \in Nat /\ scol \in Nat
      BY <3>1 DEF MinOf
    <3> HIDE DEF srow, scol, s
    <3>3. fit \in Saves
      BY <3>1, <3>2 DEF Saves
    <3> QED BY <2>2, <3>3
  <2> QED BY <2>1, <2>2
<1> HIDE DEF row, col, saved
<1>5. d \in Cursors(rows2, cols2) /\ d.row = row /\ d.col = col /\ d.visible = c.visible
  BY <1>2, <1>4 DEF Cursors
<1> HIDE DEF d
<1> QED BY <1>2, <1>3, <1>5 DEF CursorSpot, Seated

\* A cursor moved to a place of a screen of another size.
LEMMA ReplacedType ==
  ASSUME NEW rows \in Nat \ {0}, NEW cols \in Nat \ {0}, NEW c \in Cursors(rows, cols),
         NEW rows2 \in Nat \ {0}, NEW cols2 \in Nat \ {0},
         NEW row \in 0 .. rows2 - 1, NEW col \in 0 .. cols2 - 1,
         rows2 = rows /\ cols2 = cols => row = c.row /\ col = c.col
  PROVE  Seated([c EXCEPT !.row = row, !.col = col], c, rows, cols, rows2, cols2)
<1> DEFINE d == [c EXCEPT !.row = row, !.col = col]
<1>1. d \in Cursors(rows2, cols2) /\ d.row = row /\ d.col = col /\ d.visible = c.visible
  BY DEF Cursors
<1> QED BY <1>1 DEF CursorSpot, Seated

\* What a resize starts from: a change of size closes the window and lets the
\* retired screen go.
Opened(t, changed) ==
  [(IF changed /\ t.armed THEN [ForceRelease(t) EXCEPT !.hidden = FALSE] ELSE t)
     EXCEPT !.active = None, !.spare = IF changed THEN None ELSE @]

OpenedAs(t, v, changed, rows, cols) ==
  /\ v \in Vts(rows, cols) /\ v.active = None /\ v.spare = IF changed THEN None ELSE t.spare
  /\ v.modes = t.modes /\ v.cursor = t.cursor /\ v.stash = t.stash /\ v.stashCursor = t.stashCursor
  /\ v.grid.raw = t.grid.raw /\ v.revision = t.revision
  /\ t.modes.alt => Fresh(v.grid)
  /\ ~v.armed => v.frozenGrid = None /\ v.frozenCursor = None /\ v.frozenColor = None /\ v.frozenAlt = None
  /\ changed => ~v.armed /\ v.hidden = IF t.armed THEN FALSE ELSE t.hidden
  /\ ~changed => v.grid = t.grid /\ v.frozenGrid = t.frozenGrid /\ v.armed = t.armed /\ v.hidden = t.hidden

\* A resize that changes the size ends the window and drops the retired screen first.
LEMMA OpenedStep ==
  ASSUME NEW rows \in Nat \ {0}, NEW cols \in Nat \ {0}, NEW t, Good(t, rows, cols), NEW changed \in BOOLEAN
  PROVE  OpenedAs(t, Opened(t, changed), changed, rows, cols)
<1> DEFINE f == ForceRelease(t)
           o == IF changed /\ t.armed THEN [f EXCEPT !.hidden = FALSE] ELSE t
           spare == IF changed THEN None ELSE o.spare
           v == [o EXCEPT !.active = None, !.spare = spare]
<1>1. t \in Vts(rows, cols)
  BY DEF Good
<1>2. /\ o \in Vts(rows, cols) /\ o.modes = t.modes /\ o.cursor = t.cursor /\ o.stash = t.stash
      /\ o.stashCursor = t.stashCursor /\ o.grid.raw = t.grid.raw /\ o.revision = t.revision
      /\ t.modes.alt => Fresh(o.grid)
      /\ ~o.armed => o.frozenGrid = None /\ o.frozenCursor = None /\ o.frozenColor = None /\ o.frozenAlt = None
      /\ changed => ~o.armed /\ o.hidden = IF t.armed THEN FALSE ELSE t.hidden
      /\ ~changed => o = t
  <2>1. CASE changed /\ t.armed
    <3> DEFINE e == [f EXCEPT !.hidden = FALSE]
    <3>1. Marked(t, f, rows, cols) /\ ~f.armed
      BY ForceReleaseStep
    <3> HIDE DEF f
    <3>2. Feeds(t, f, rows, cols) /\ f.grid.raw = t.grid.raw
      BY <3>1, MarkedFeeds
    <3>3. /\ f \in Vts(rows, cols) /\ f.cursor = t.cursor /\ f.stash = t.stash /\ f.stashCursor = t.stashCursor
          /\ f.modes = t.modes /\ f.revision = t.revision /\ Good(f, rows, cols)
      BY <3>1, <3>2 DEF Marked, Feeds, Holds
    <3>4. e \in Vts(rows, cols)
      BY <3>3 DEF Vts
    <3>5. /\ e.grid = f.grid /\ e.cursor = f.cursor /\ e.stash = f.stash /\ e.stashCursor = f.stashCursor
          /\ e.modes = f.modes /\ e.revision = f.revision /\ e.hidden = FALSE
      BY <3>3 DEF Vts
    <3>6. /\ e.frozenGrid = f.frozenGrid /\ e.frozenCursor = f.frozenCursor /\ e.armed = f.armed
          /\ e.frozenColor = f.frozenColor /\ e.frozenAlt = f.frozenAlt
      BY <3>3 DEF Vts
    <3>7. o = e
      BY <2>1
    <3> HIDE DEF e, o
    <3>8. f.modes.alt => Fresh(f.grid)
      BY <3>3 DEF Good
    <3>9. f.frozenGrid = None /\ f.frozenCursor = None /\ f.frozenColor = None /\ f.frozenAlt = None
      BY <3>1 DEF Marked
    <3> QED BY <2>1, <3>1, <3>2, <3>3, <3>4, <3>5, <3>6, <3>7, <3>8, <3>9
  <2>2. CASE ~(changed /\ t.armed)
    <3>1. o = t
      BY <2>2
    <3> HIDE DEF o
    <3>2. t.armed \in BOOLEAN
      BY <1>1 DEF Vts
    <3> QED BY <1>1, <2>2, <3>1, <3>2 DEF Good
  <2> QED BY <2>1, <2>2
<1>3. Opened(t, changed) = [o EXCEPT !.active = None, !.spare = IF changed THEN None ELSE @]
  BY DEF Opened
<1> HIDE DEF o
<1>4. Opened(t, changed) = v
  BY <1>2, <1>3 DEF Vts
<1>5. spare \in Buffers(rows, cols) \cup {None} /\ (spare = IF changed THEN None ELSE t.spare)
  BY <1>2 DEF Vts
<1> HIDE DEF spare
<1>6. v \in Vts(rows, cols)
  BY ZenonT(60), <1>2, <1>5 DEF Vts
<1>7. /\ v.active = None /\ v.spare = spare /\ v.modes = o.modes /\ v.cursor = o.cursor /\ v.stash = o.stash
      /\ v.stashCursor = o.stashCursor /\ v.grid = o.grid
  BY <1>2 DEF Vts
<1>8. /\ v.revision = o.revision /\ v.armed = o.armed /\ v.hidden = o.hidden /\ v.frozenGrid = o.frozenGrid
      /\ v.frozenCursor = o.frozenCursor /\ v.frozenColor = o.frozenColor /\ v.frozenAlt = o.frozenAlt
  BY <1>2 DEF Vts
<1> HIDE DEF v
<1>9. OpenedAs(t, v, changed, rows, cols)
  BY <1>2, <1>5, <1>6, <1>7, <1>8 DEF OpenedAs
<1> QED BY <1>4, <1>9

\* The fields that a resize sets.
Fit(v, g, c, stash, parked, frozen, bottom, revision) ==
  [v EXCEPT !.grid = g, !.cursor = c, !.stash = stash, !.stashCursor = parked, !.frozenCursor = frozen,
            !.top = 0, !.bottom = bottom, !.revision = revision]

\* The fields after a resize.
LEMMA FitFields ==
  ASSUME NEW rows \in Nat \ {0}, NEW cols \in Nat \ {0}, NEW v \in Vts(rows, cols),
         NEW rows2 \in Nat \ {0}, NEW cols2 \in Nat \ {0},
         NEW g \in Buffers(rows2, cols2), NEW c \in Cursors(rows2, cols2),
         NEW stash \in Buffers(rows2, cols2) \cup {None}, NEW parked \in Cursors(rows2, cols2) \cup {None},
         NEW frozen \in Cursors(rows2, cols2) \cup {None}, NEW revision \in Nat,
         v.active \in Spots(rows2, cols2) \cup {None}, v.spare \in Buffers(rows2, cols2) \cup {None},
         v.frozenGrid \in Snapshots(rows2, cols2) \cup {None}
  PROVE  Fit(v, g, c, stash, parked, frozen, rows2 - 1, revision) \in Vts(rows2, cols2)
<1> DEFINE low == 0
           high == rows2 - 1
<1>1. low \in 0 .. rows2 - 1 /\ high \in 0 .. rows2 - 1
  OBVIOUS
<1> HIDE DEF low, high
<1>2. [v EXCEPT !.grid = g, !.cursor = c, !.stash = stash, !.stashCursor = parked, !.frozenCursor = frozen,
                !.top = low, !.bottom = high, !.revision = revision] \in Vts(rows2, cols2)
  BY ZenonT(60), <1>1 DEF Vts
<1> QED BY <1>2 DEF Fit, low, high

\* What a resize does to the buffers and the cursors.
ScreensAs(v, g, c, stash, parked, rows, cols, rows2, cols2) ==
  /\ g \in Buffers(rows2, cols2) /\ c \in Cursors(rows2, cols2)
  /\ stash \in Buffers(rows2, cols2) \cup {None} /\ parked \in Cursors(rows2, cols2) \cup {None}
  /\ v.modes.alt => stash \in Buffers(rows2, cols2) /\ Fresh(g)
  /\ ~v.modes.alt => stash = None
  /\ rows2 # rows \/ cols2 # cols => g.dirty.all
  /\ rows2 = rows /\ cols2 = cols => g.raw = v.grid.raw /\ g.dirty = v.grid.dirty /\ CursorSpot(c) = CursorSpot(v.cursor)

ClampOption(c, rows, cols) == IF c = None THEN None ELSE ClampCursor(c, rows, cols)

ScreensForm(v, g, c, stash, parked, rows, cols, rows2, cols2) ==
  /\ ScreensAs(v, g, ClampCursor(c, rows2, cols2), stash, ClampOption(parked, rows2, cols2),
               rows, cols, rows2, cols2)
  /\ ResizeScreens(v, rows2, cols2) = [v EXCEPT !.grid = g, !.cursor = c, !.stash = stash, !.stashCursor = parked]

\* The live buffer rewrapped, or the canvas cut and the parked one rewrapped.
LEMMA ScreensStep ==
  ASSUME NEW rows \in Nat \ {0}, NEW cols \in Nat \ {0}, NEW v \in Vts(rows, cols),
         v.modes.alt => v.stash \in Buffers(rows, cols) /\ Fresh(v.grid), ~v.modes.alt => v.stash = None,
         None \notin Buffers(rows, cols), NEW rows2 \in Nat \ {0}, NEW cols2 \in Nat \ {0}
  PROVE  \E g, c, stash, parked : ScreensForm(v, g, c, stash, parked, rows, cols, rows2, cols2)
<1>1. /\ v.grid \in Buffers(rows, cols) /\ v.cursor \in Cursors(rows, cols)
      /\ v.cursor.row \in 0 .. rows - 1 /\ v.cursor.col \in 0 .. cols - 1 /\ v.modes \in Modes
      /\ v.stashCursor \in Cursors(rows, cols) \cup {None}
  BY VtParts DEF Vts
<1>2. CASE v.modes.alt
  <2> DEFINE at == IF v.stashCursor = None THEN [row |-> 0, col |-> 0] ELSE v.stashCursor
             new == ResizeWithCursor(v.stash, rows2, cols2, at)
             g == ResizeCanvas(v.grid, rows2, cols2)
             moved == [v.stashCursor EXCEPT !.row = new.cursor.row, !.col = new.cursor.col]
             parked == IF v.stashCursor = None THEN None ELSE moved
             clamped == ClampOption(parked, rows2, cols2)
  <2>1. at.row \in 0 .. rows - 1 /\ at.col \in 0 .. cols - 1
    <3>1. CASE v.stashCursor = None
      <4>1. 0 \in 0 .. rows - 1 /\ 0 \in 0 .. cols - 1
        OBVIOUS
      <4> QED BY <3>1, <4>1
    <3>2. CASE v.stashCursor # None
      BY <1>1, <3>2 DEF Cursors
    <3> QED BY <3>1, <3>2
  <2>2. v.stash \in Buffers(rows, cols) /\ Fresh(v.grid)
    BY <1>2
  <2> HIDE DEF at
  <2>3. ResizedTo(new, v.stash, at, rows, cols, rows2, cols2)
    BY <2>1, <2>2, ResizeWithCursorType
  <2>4. ResizeScreens(v, rows2, cols2) = [v EXCEPT !.grid = g, !.stash = new.grid, !.stashCursor = parked]
    BY <1>2 DEF ResizeScreens, at, Vts
  <2> HIDE DEF new
  <2>5. new.grid \in Buffers(rows2, cols2) /\ new.cursor.row \in 0 .. rows2 - 1 /\ new.cursor.col \in 0 .. cols2 - 1
    BY <2>3 DEF ResizedTo
  <2>6. /\ g \in Buffers(rows2, cols2)
        /\ rows2 # rows \/ cols2 # cols => g.dirty.all
        /\ rows2 = rows /\ cols2 = cols => g.raw = v.grid.raw /\ g.dirty = v.grid.dirty
        /\ Fresh(v.grid) => Fresh(g)
    BY <1>1, ResizeCanvasType
  <2> HIDE DEF g
  <2>7. Seated(ClampCursor(v.cursor, rows2, cols2), v.cursor, rows, cols, rows2, cols2)
    BY <1>1, ClampType
  <2>8. clamped \in Cursors(rows2, cols2) \cup {None}
    <3>1. CASE parked = None
      BY <3>1 DEF ClampOption
    <3>2. CASE parked # None
      <4>1. v.stashCursor \in Cursors(rows, cols) /\ parked = moved
        BY <1>1, <3>2
      <4> DEFINE d == v.stashCursor
                 row == new.cursor.row
                 col == new.cursor.col
                 e == [d EXCEPT !.row = row, !.col = col]
      <4>2. d \in Cursors(rows, cols) /\ row \in 0 .. rows2 - 1 /\ col \in 0 .. cols2 - 1 /\ parked = e
        BY <2>5, <4>1
      <4> HIDE DEF parked, d, row, col
      <4>3. e \in Cursors(rows2, cols2)
        BY <4>2 DEF Cursors
      <4>4. Seated(ClampCursor(e, rows2, cols2), e, rows2, cols2, rows2, cols2)
        BY <4>3, ClampType
      <4> QED BY <3>2, <4>2, <4>4 DEF Seated, ClampOption
    <3> QED BY <3>1, <3>2
  <2> HIDE DEF clamped
  <2>9. ScreensAs(v, g, ClampCursor(v.cursor, rows2, cols2), new.grid, clamped, rows, cols, rows2, cols2)
    BY <1>2, <2>2, <2>5, <2>6, <2>7, <2>8 DEF ScreensAs, Seated
  <2> HIDE DEF parked
  <2> DEFINE b == new.grid
  <2>10. [v EXCEPT !.grid = g, !.stash = b, !.stashCursor = parked]
           = [v EXCEPT !.grid = g, !.cursor = v.cursor, !.stash = b, !.stashCursor = parked]
    <3> HIDE DEF b
    <3> QED BY DEF Vts
  <2>11. ScreensForm(v, g, v.cursor, b, parked, rows, cols, rows2, cols2)
    BY <2>4, <2>9, <2>10 DEF clamped, ScreensForm
  <2> HIDE DEF b
  <2> QED BY <2>11
<1>3. CASE ~v.modes.alt
  <2> DEFINE new == ResizeWithCursor(v.grid, rows2, cols2, v.cursor)
             c == [v.cursor EXCEPT !.row = new.cursor.row, !.col = new.cursor.col]
             clamped == ClampOption(v.stashCursor, rows2, cols2)
  <2>1. ResizedTo(new, v.grid, v.cursor, rows, cols, rows2, cols2)
    BY <1>1, ResizeWithCursorType
  <2>2. ResizeScreens(v, rows2, cols2)
          = [v EXCEPT !.grid = new.grid, !.cursor.row = new.cursor.row, !.cursor.col = new.cursor.col]
    BY <1>3 DEF ResizeScreens
  <2> HIDE DEF new
  <2>3. /\ new.grid \in Buffers(rows2, cols2) /\ new.cursor.row \in 0 .. rows2 - 1 /\ new.cursor.col \in 0 .. cols2 - 1
        /\ rows2 # rows \/ cols2 # cols => new.grid.dirty.all
        /\ rows2 = rows /\ cols2 = cols =>
             /\ new.grid.raw = v.grid.raw /\ new.grid.dirty = v.grid.dirty
             /\ new.cursor.row = v.cursor.row /\ new.cursor.col = v.cursor.col
    BY <2>1 DEF ResizedTo
  <2>4. [v EXCEPT !.grid = new.grid, !.cursor.row = new.cursor.row, !.cursor.col = new.cursor.col]
          = [v EXCEPT !.grid = new.grid, !.cursor = c, !.stash = None, !.stashCursor = v.stashCursor]
    BY <1>3, <1>1 DEF Vts
  <2>5. Seated(c, v.cursor, rows, cols, rows2, cols2)
    <3> DEFINE d == v.cursor
               row == new.cursor.row
               col == new.cursor.col
    <3>1. /\ d \in Cursors(rows, cols) /\ row \in 0 .. rows2 - 1 /\ col \in 0 .. cols2 - 1
          /\ rows2 = rows /\ cols2 = cols => row = d.row /\ col = d.col
      BY <1>1, <2>3
    <3> HIDE DEF d, row, col
    <3>2. Seated([d EXCEPT !.row = row, !.col = col], d, rows, cols, rows2, cols2)
      BY <3>1, ReplacedType
    <3> QED BY <3>2 DEF d, row, col
  <2> HIDE DEF c
  <2>6. Seated(ClampCursor(c, rows2, cols2), c, rows2, cols2, rows2, cols2)
    <3>1. c \in Cursors(rows2, cols2)
      BY <2>5 DEF Seated
    <3> QED BY <3>1, ClampType
  <2>7. clamped \in Cursors(rows2, cols2) \cup {None}
    <3>1. CASE v.stashCursor = None
      BY <3>1 DEF ClampOption
    <3>2. CASE v.stashCursor # None
      <4>1. v.stashCursor \in Cursors(rows, cols)
        BY <1>1, <3>2
      <4>2. ClampCursor(v.stashCursor, rows2, cols2) \in Cursors(rows2, cols2)
        BY <4>1, ClampType DEF Seated
      <4> QED BY <3>2, <4>2 DEF ClampOption
    <3> QED BY <3>1, <3>2
  <2> HIDE DEF clamped
  <2>8. ScreensAs(v, new.grid, ClampCursor(c, rows2, cols2), None, clamped, rows, cols, rows2, cols2)
    BY <1>3, <2>3, <2>5, <2>6, <2>7 DEF ScreensAs, Seated
  <2> DEFINE b == new.grid
             p == v.stashCursor
  <2>9. ScreensForm(v, b, c, None, p, rows, cols, rows2, cols2)
    BY <2>2, <2>4, <2>8 DEF clamped, ScreensForm
  <2> HIDE DEF b, p
  <2> QED BY <2>9
<1> QED BY <1>2, <1>3

\* A resize: a change of size is counted and repaints the screen, the same
\* size again changes nothing that is shown.
Resizes(t, u, rows, cols, rows2, cols2) ==
  /\ Good(u, rows2, cols2)
  /\ rows2 # rows \/ cols2 # cols =>
       /\ ShownGrid(u).dirty.all /\ u.revision = t.revision + 1
       /\ u.hidden = IF t.armed THEN FALSE ELSE t.hidden
  /\ rows2 = rows /\ cols2 = cols =>
       /\ u.grid.raw = t.grid.raw /\ CursorSpot(u.cursor) = CursorSpot(t.cursor) /\ u.modes = t.modes
       /\ u.armed = t.armed /\ u.hidden = t.hidden /\ u.revision = t.revision
       /\ ShownGrid(u).raw = ShownGrid(t).raw /\ ShownGrid(u).dirty = ShownGrid(t).dirty

Counted(n, changed) == IF changed THEN n + 1 ELSE n

Differs(changed, rows, cols, rows2, cols2) == changed <=> (rows2 # rows \/ cols2 # cols)

\* Resized, field by field.
LEMMA ResizedForm ==
  ASSUME NEW rows \in Nat \ {0}, NEW cols \in Nat \ {0}, NEW t, Good(t, rows, cols),
         NEW rows2 \in Nat \ {0}, NEW cols2 \in Nat \ {0}, NEW changed \in BOOLEAN,
         Differs(changed, rows, cols, rows2, cols2),
         NEW v, v = Opened(t, changed), v \in Vts(rows, cols),
         NEW g, NEW c, NEW stash, NEW parked, ScreensForm(v, g, c, stash, parked, rows, cols, rows2, cols2)
  PROVE  Resized(t, rows2, cols2) =
           Fit(v, g, ClampCursor(c, rows2, cols2), stash, ClampOption(parked, rows2, cols2),
               ClampOption(v.frozenCursor, rows2, cols2), rows2 - 1, Counted(v.revision, changed))
<1> DEFINE r == [v EXCEPT !.grid = g, !.cursor = c, !.stash = stash, !.stashCursor = parked]
           Clamp(new) == [new EXCEPT !.top = 0, !.bottom = rows2 - 1,
                            !.cursor = ClampCursor(@, rows2, cols2),
                            !.stashCursor = IF @ = None THEN None ELSE ClampCursor(@, rows2, cols2),
                            !.frozenCursor = IF @ = None THEN None ELSE ClampCursor(@, rows2, cols2)]
           k == ClampCursor(c, rows2, cols2)
           p == IF parked = None THEN None ELSE ClampCursor(parked, rows2, cols2)
           f == IF v.frozenCursor = None THEN None ELSE ClampCursor(v.frozenCursor, rows2, cols2)
           w == [v EXCEPT !.grid = g, !.cursor = k, !.stash = stash, !.stashCursor = p, !.frozenCursor = f,
                          !.top = 0, !.bottom = rows2 - 1]
<1>1. t \in Vts(rows, cols)
  BY DEF Good
<1>2. t.grid.rows = rows /\ t.grid.cols = cols
  BY <1>1, VtParts
<1>3. Resized(t, rows2, cols2) = IF changed THEN RecordBatch(Clamp(ResizeScreens(v, rows2, cols2)))
                                 ELSE Clamp(ResizeScreens(v, rows2, cols2))
  <2>1. changed = (rows2 # t.grid.rows \/ cols2 # t.grid.cols)
    BY <1>2 DEF Differs
  <2> QED BY <2>1 DEF Resized, Opened
<1>4. Clamp(r) = w
  <2>1. /\ r.cursor = c /\ r.stashCursor = parked /\ r.frozenCursor = v.frozenCursor
    BY DEF Vts
  <2>2. Clamp(r) = [r EXCEPT !.top = 0, !.bottom = rows2 - 1, !.cursor = k, !.stashCursor = p, !.frozenCursor = f]
    BY <2>1 DEF Vts
  <2> HIDE DEF k, p, f
  <2>3. [r EXCEPT !.top = 0, !.bottom = rows2 - 1, !.cursor = k, !.stashCursor = p, !.frozenCursor = f] = w
    BY DEF Vts
  <2> QED BY <2>2, <2>3
<1> HIDE DEF k, p, f
<1>5. w.revision = v.revision
  BY DEF Vts
<1>6. RecordBatch(w) = [w EXCEPT !.revision = v.revision + 1]
  BY <1>5 DEF RecordBatch
<1>7. [w EXCEPT !.revision = v.revision + 1] = Fit(v, g, k, stash, p, f, rows2 - 1, v.revision + 1)
  BY DEF Fit, Vts
<1>8. w = Fit(v, g, k, stash, p, f, rows2 - 1, v.revision)
  BY DEF Fit, Vts
<1>9. Resized(t, rows2, cols2) = IF changed THEN RecordBatch(w) ELSE w
  BY <1>3, <1>4 DEF ScreensForm
<1> HIDE DEF w
<1>10. Resized(t, rows2, cols2) = Fit(v, g, k, stash, p, f, rows2 - 1, IF changed THEN v.revision + 1 ELSE v.revision)
  BY <1>6, <1>7, <1>8, <1>9
<1> QED BY <1>10 DEF k, p, f, ClampOption, Counted

\* A resize: both buffers take the new size and everything on the screen stays on it.
LEMMA ResizedStep ==
  ASSUME NEW rows, NEW cols, IsSize(rows, cols), NEW t, Good(t, rows, cols),
         NEW rows2, NEW cols2, IsSize(rows2, cols2)
  PROVE  Resizes(t, Resized(t, rows2, cols2), rows, cols, rows2, cols2)
<1> DEFINE changed == IF rows2 # rows \/ cols2 # cols THEN TRUE ELSE FALSE
           v == Opened(t, changed)
<1>1. /\ rows \in Nat \ {0} /\ cols \in Nat \ {0} /\ None \notin Buffers(rows, cols)
      /\ rows2 \in Nat \ {0} /\ cols2 \in Nat \ {0} /\ None \notin Buffers(rows2, cols2)
  BY SizeType
<1>2. changed \in BOOLEAN /\ (changed <=> (rows2 # rows \/ cols2 # cols))
  OBVIOUS
<1> HIDE DEF changed
<1>3. OpenedAs(t, v, changed, rows, cols)
  BY <1>1, <1>2, OpenedStep
<1>4. v = Opened(t, changed)
  OBVIOUS
<1> HIDE DEF v
<1>5. /\ v \in Vts(rows, cols) /\ v.active = None /\ (v.spare = IF changed THEN None ELSE t.spare)
      /\ v.modes = t.modes /\ v.cursor = t.cursor /\ v.stash = t.stash /\ v.stashCursor = t.stashCursor
      /\ v.grid.raw = t.grid.raw /\ v.revision = t.revision
      /\ t.modes.alt => Fresh(v.grid)
      /\ ~v.armed => v.frozenGrid = None /\ v.frozenCursor = None /\ v.frozenColor = None /\ v.frozenAlt = None
      /\ changed => ~v.armed /\ v.hidden = IF t.armed THEN FALSE ELSE t.hidden
      /\ ~changed => v.grid = t.grid /\ v.frozenGrid = t.frozenGrid /\ v.armed = t.armed /\ v.hidden = t.hidden
  BY <1>3 DEF OpenedAs
<1>6. /\ v.modes.alt => v.stash \in Buffers(rows, cols) /\ Fresh(v.grid)
      /\ ~v.modes.alt => v.stash = None
  BY <1>5 DEF Good
<1>7. \E g, c, stash, parked : ScreensForm(v, g, c, stash, parked, rows, cols, rows2, cols2)
  <2>1. v \in Vts(rows, cols)
    BY <1>5
  <2> QED BY <1>1, <1>6, <2>1, ScreensStep
<1>8. PICK g, c, stash, parked : ScreensForm(v, g, c, stash, parked, rows, cols, rows2, cols2)
  BY <1>7
<1> DEFINE k == ClampCursor(c, rows2, cols2)
           p == ClampOption(parked, rows2, cols2)
           f == ClampOption(v.frozenCursor, rows2, cols2)
           n == Counted(v.revision, changed)
           u == [v EXCEPT !.grid = g, !.cursor = k, !.stash = stash, !.stashCursor = p, !.frozenCursor = f,
                          !.top = 0, !.bottom = rows2 - 1, !.revision = n]
<1>9. Resized(t, rows2, cols2) = Fit(v, g, k, stash, p, f, rows2 - 1, n)
  <2>1. v \in Vts(rows, cols)
    BY <1>5
  <2>2. Differs(changed, rows, cols, rows2, cols2)
    BY <1>2 DEF Differs
  <2> QED BY <1>1, <1>2, <1>4, <1>8, <2>1, <2>2, ResizedForm
<1>10. ScreensAs(v, g, k, stash, p, rows, cols, rows2, cols2)
  BY <1>8 DEF ScreensForm
<1>11. f \in Cursors(rows2, cols2) \cup {None} /\ (v.frozenCursor = None => f = None)
  <2>1. v.frozenCursor \in Cursors(rows, cols) \cup {None}
    BY <1>5 DEF Vts
  <2>2. v.frozenCursor # None => Seated(ClampCursor(v.frozenCursor, rows2, cols2), v.frozenCursor, rows, cols, rows2, cols2)
    BY <1>1, <2>1, ClampType
  <2> QED BY <2>2 DEF Seated, ClampOption
<1>12. n \in Nat /\ v.revision \in Nat
  BY <1>5 DEF Vts, Counted
<1> HIDE DEF k, p, f
<1>13. /\ g \in Buffers(rows2, cols2) /\ k \in Cursors(rows2, cols2)
       /\ stash \in Buffers(rows2, cols2) \cup {None} /\ p \in Cursors(rows2, cols2) \cup {None}
       /\ v.modes.alt => stash \in Buffers(rows2, cols2) /\ Fresh(g)
       /\ ~v.modes.alt => stash = None
       /\ rows2 # rows \/ cols2 # cols => g.dirty.all
       /\ rows2 = rows /\ cols2 = cols => g.raw = v.grid.raw /\ g.dirty = v.grid.dirty /\ CursorSpot(k) = CursorSpot(v.cursor)
  BY <1>10 DEF ScreensAs
<1>14. /\ v.active \in Spots(rows2, cols2) \cup {None} /\ v.spare \in Buffers(rows2, cols2) \cup {None}
       /\ v.frozenGrid \in Snapshots(rows2, cols2) \cup {None}
  <2>1. CASE changed
    BY <1>5, <2>1
  <2>2. CASE ~changed
    <3>1. v.spare \in Buffers(rows, cols) \cup {None} /\ v.frozenGrid \in Snapshots(rows, cols) \cup {None}
      BY <1>5 DEF Vts
    <3> QED BY <1>2, <1>5, <2>2, <3>1
  <2> QED BY <1>2, <2>1, <2>2
<1>15. 0 \in 0 .. rows2 - 1 /\ rows2 - 1 \in 0 .. rows2 - 1 /\ 0 <= rows2 - 1
  BY <1>1
<1> HIDE DEF n
<1>16a. u = Fit(v, g, k, stash, p, f, rows2 - 1, n)
  BY DEF Fit
<1>16. u \in Vts(rows2, cols2)
  <2>1. v \in Vts(rows, cols)
    BY <1>5
  <2>2. /\ g \in Buffers(rows2, cols2) /\ k \in Cursors(rows2, cols2)
        /\ stash \in Buffers(rows2, cols2) \cup {None} /\ p \in Cursors(rows2, cols2) \cup {None}
    BY <1>13
  <2>3. Fit(v, g, k, stash, p, f, rows2 - 1, n) \in Vts(rows2, cols2)
    BY <1>1, <1>11, <1>12, <1>14, <2>1, <2>2, FitFields
  <2> QED BY <1>16a, <2>3
<1>17. /\ u.grid = g /\ u.cursor = k /\ u.stash = stash /\ u.spare = v.spare /\ u.modes = v.modes
       /\ u.top = 0 /\ u.bottom = rows2 - 1 /\ u.revision = n
  BY <1>5 DEF Vts
<1>18. /\ u.armed = v.armed /\ u.hidden = v.hidden /\ u.frozenGrid = v.frozenGrid /\ u.frozenCursor = f
       /\ u.frozenColor = v.frozenColor /\ u.frozenAlt = v.frozenAlt
  BY <1>5 DEF Vts
<1> HIDE DEF u
<1>19. Good(u, rows2, cols2)
  <2>1. u.spare # None => Fresh(u.spare)
    BY <1>5, <1>17 DEF Good
  <2>2. u.modes.alt => u.stash \in Buffers(rows2, cols2) /\ u.stash # None /\ Fresh(u.grid)
    BY <1>1, <1>13, <1>17
  <2>3. ~u.modes.alt => u.stash = None
    BY <1>13, <1>17
  <2>4. ~u.armed => u.frozenGrid = None /\ u.frozenCursor = None /\ u.frozenColor = None /\ u.frozenAlt = None
    BY <1>5, <1>11, <1>18
  <2> QED BY <1>15, <1>16, <1>17, <2>1, <2>2, <2>3, <2>4 DEF Good
<1>20. CASE changed
  <2>1. ShownGrid(u) = g
    BY <1>5, <1>17, <1>18, <1>20 DEF ShownGrid
  <2>2. g.dirty.all /\ u.revision = t.revision + 1 /\ u.hidden = IF t.armed THEN FALSE ELSE t.hidden
    BY <1>2, <1>5, <1>13, <1>17, <1>18, <1>20 DEF n, Counted
  <2> QED BY <1>2, <1>9, <1>16a, <1>19, <1>20, <2>1, <2>2 DEF Resizes
<1>21. CASE ~changed
  <2>1. rows2 = rows /\ cols2 = cols
    BY <1>2, <1>21
  <2>2. u.grid.raw = t.grid.raw /\ u.grid.dirty = t.grid.dirty /\ CursorSpot(u.cursor) = CursorSpot(t.cursor) /\ u.modes = t.modes
    BY <1>5, <1>13, <1>17, <1>21, <2>1
  <2>3. u.armed = t.armed /\ u.hidden = t.hidden /\ u.revision = t.revision /\ u.frozenGrid = t.frozenGrid
    BY <1>5, <1>17, <1>18, <1>21 DEF n, Counted
  <2>4. ShownGrid(u).raw = ShownGrid(t).raw /\ ShownGrid(u).dirty = ShownGrid(t).dirty
    BY <2>2, <2>3 DEF ShownGrid
  <2> QED BY <1>2, <1>9, <1>16a, <1>19, <1>21, <2>2, <2>3, <2>4 DEF Resizes
<1> QED BY <1>2, <1>20, <1>21

\* A redraw takes the marks of what is presented and changes nothing else.
LEMMA RedrawStep ==
  ASSUME NEW rows, NEW cols, IsSize(rows, cols), Good(vt, rows, cols), Redraw
  PROVE  /\ Good(vt', rows, cols) /\ vt'.grid.raw = vt.grid.raw /\ vt'.cursor = vt.cursor
         /\ vt'.modes = vt.modes /\ vt'.armed = vt.armed /\ vt'.hidden = vt.hidden
         /\ vt'.revision = vt.revision /\ ShownGrid(vt').raw = ShownGrid(vt).raw
<1>1. /\ vt \in Vts(rows, cols) /\ rows \in Nat \ {0} /\ cols \in Nat \ {0}
      /\ None \notin Snapshots(rows, cols)
  BY SizeType DEF Good
<1>2. CASE vt.frozenGrid = None
  <2> DEFINE g == TakeDirty(vt.grid)
             u == [vt EXCEPT !.grid = g]
  <2>1. vt.grid \in Buffers(rows, cols)
    BY <1>1, VtParts
  <2>2. g \in Buffers(rows, cols) /\ g.raw = vt.grid.raw /\ g.writes = vt.grid.writes /\ g.cols = vt.grid.cols
    <3>1. vt.grid.cols = cols
      BY <1>1, <2>1, BufferParts
    <3> QED BY <1>1, <2>1, <3>1, TakeDirtyType
  <2>3. vt' = u
    BY <1>1, <1>2 DEF Redraw, Vts
  <2> HIDE DEF g
  <2>4. u \in Vts(rows, cols)
    BY <1>1, <2>2 DEF Vts
  <2>5. /\ u.grid = g /\ u.cursor = vt.cursor /\ u.modes = vt.modes /\ u.armed = vt.armed /\ u.hidden = vt.hidden
        /\ u.revision = vt.revision /\ u.stash = vt.stash /\ u.spare = vt.spare
    BY <1>1 DEF Vts
  <2>6. /\ u.top = vt.top /\ u.bottom = vt.bottom /\ u.frozenGrid = vt.frozenGrid /\ u.frozenCursor = vt.frozenCursor
        /\ u.frozenColor = vt.frozenColor /\ u.frozenAlt = vt.frozenAlt
    BY <1>1 DEF Vts
  <2> HIDE DEF u
  <2>7. Fresh(vt.grid) => Fresh(g)
    BY <2>2 DEF Fresh
  <2>8. Good(u, rows, cols)
    BY <2>4, <2>5, <2>6, <2>7 DEF Good
  <2>9. ShownGrid(u).raw = ShownGrid(vt).raw
    BY <1>2, <2>2, <2>5, <2>6 DEF ShownGrid
  <2> QED BY <2>2, <2>3, <2>5, <2>8, <2>9
<1>3. CASE vt.frozenGrid # None
  <2> DEFINE s == vt.frozenGrid
             g == TakeDirty(s.grid)
             f == [s EXCEPT !.grid = g]
             u == [vt EXCEPT !.frozenGrid = f]
  <2>1. s \in Snapshots(rows, cols) /\ s.grid \in Buffers(rows, cols)
    BY <1>1, <1>3 DEF Vts, Snapshots
  <2>2. g \in Buffers(rows, cols) /\ g.raw = s.grid.raw
    BY <1>1, <2>1, TakeDirtyType
  <2>3. vt' = u
    BY <1>1, <1>3, <2>1 DEF Redraw, Vts, Snapshots
  <2> HIDE DEF g, s
  <2>4. f \in Snapshots(rows, cols) /\ f.grid = g
    BY <2>1, <2>2 DEF Snapshots
  <2> HIDE DEF f
  <2>5. u \in Vts(rows, cols)
    BY <1>1, <2>4 DEF Vts
  <2>6. /\ u.grid = vt.grid /\ u.cursor = vt.cursor /\ u.modes = vt.modes /\ u.armed = vt.armed /\ u.hidden = vt.hidden
        /\ u.revision = vt.revision /\ u.stash = vt.stash /\ u.spare = vt.spare
    BY <1>1 DEF Vts
  <2>7. u.top = vt.top /\ u.bottom = vt.bottom /\ u.frozenGrid = f
    BY <1>1 DEF Vts
  <2> HIDE DEF u
  <2>8. vt.armed
    BY <1>3 DEF Good
  <2>9. Good(u, rows, cols)
    BY <2>5, <2>6, <2>7, <2>8 DEF Good
  <2>10. ShownGrid(vt) = s.grid
    BY <1>3 DEF ShownGrid, s
  <2>11. ShownGrid(u).raw = g.raw
    BY <1>1, <2>4, <2>7 DEF ShownGrid
  <2> QED BY <2>2, <2>3, <2>6, <2>9, <2>10, <2>11
<1> QED BY <1>2, <1>3

(***************************************************************************)
(* The inductive invariant                                                 *)
(***************************************************************************)

\* What a renderer that drew d and draws the dirty cells of g is left with.
Covers(g, d) ==
  \/ g.dirty.all
  \/ /\ DOMAIN d = DOMAIN Viewport(g)
     /\ \A r \in DOMAIN Viewport(g) :
          /\ DOMAIN d[r] = DOMAIN Viewport(g)[r]
          /\ \A c \in DOMAIN Viewport(g)[r] : Viewport(g)[r][c] # d[r][c] => IsDirtyCell(g, r, c)

\* What process_with_responses reads before it parses, and the frame before it.
Batches == [writes : Nat, spot : Nat \X Nat \X BOOLEAN, alt : BOOLEAN, color : {"default", "dark"}]

Calmly(c) ==
  \E cells, cursor, color, alt, n, s :
    /\ n \in Nat /\ s \in BOOLEAN
    /\ c = [frame |-> [cells |-> cells, cursor |-> cursor, color |-> color, alt |-> alt], revision |-> n, swapped |-> s]

\* The frame of a calm moment is still the live one.
Matches(f, t) == t.modes.alt = f.alt /\ CursorSpot(t.cursor) = f.cursor /\ Viewport(t.grid) = f.cells

\* The batch began from that frame, and its writes are tallied.
Tracks(f, t, b) ==
  /\ t.modes.alt = b.alt /\ b.alt = f.alt /\ b.spot = f.cursor
  /\ t.grid.writes >= b.writes /\ (t.grid.writes = b.writes => Viewport(t.grid) = f.cells)

\* The same of which screen is live, whatever was swapped meanwhile.
Sided(t, b, c) ==
  \/ t.revision > c.revision \/ t.hidden
  \/ b = None /\ t.modes.alt = c.frame.alt
  \/ b # None /\ b.alt = c.frame.alt

\* A change since the calm moment is counted, waits for the end of its
\* window, or is still to be seen by the end of its batch.
Accounted(t, b, c) ==
  /\ c.revision <= t.revision
  /\ b = None /\ ~t.armed => ~t.hidden
  /\ Sided(t, b, c)
  /\ \/ c.swapped \/ t.revision > c.revision \/ t.hidden
     \/ b = None /\ Matches(c.frame, t)
     \/ b # None /\ Tracks(c.frame, t, b)

Inv ==
  /\ batch = None \/ batch \in Batches
  /\ Calmly(calm) /\ Accounted(vt, batch, calm)
  /\ \E rows, cols : IsSize(rows, cols) /\ Good(vt, rows, cols) /\ Covers(ShownGrid(vt), drawn)

\* The viewport of a buffer.
LEMMA ViewType ==
  ASSUME NEW rows \in Nat \ {0}, NEW cols \in Nat \ {0}, NEW g \in Buffers(rows, cols)
  PROVE  /\ DOMAIN Viewport(g) = 0 .. rows - 1
         /\ \A r \in 0 .. rows - 1 : /\ Viewport(g)[r] = VisibleRow(g, r).cells
                                     /\ DOMAIN Viewport(g)[r] = 0 .. cols - 1
<1>1. g.rows = rows
  BY BufferParts
<1>2. ASSUME NEW r \in 0 .. rows - 1 PROVE DOMAIN VisibleRow(g, r).cells = 0 .. cols - 1
  BY VisibleRowType
<1> QED BY <1>1, <1>2 DEF Viewport

\* A marked change keeps a renderer covered.
LEMMA CoversDirties ==
  ASSUME NEW rows \in Nat \ {0}, NEW cols \in Nat \ {0}, NEW g \in Buffers(rows, cols),
         NEW h \in Buffers(rows, cols), NEW d, Covers(g, d), Dirties(g, h)
  PROVE  Covers(h, d)
<1>1. CASE g.dirty.all
  BY <1>1 DEF Dirties, Covers
<1>2. CASE ~g.dirty.all
  <2>1. g.rows = rows /\ g.cols = cols
    BY BufferParts
  <2>2. /\ DOMAIN Viewport(g) = 0 .. rows - 1 /\ DOMAIN Viewport(h) = 0 .. rows - 1
        /\ \A r \in 0 .. rows - 1 :
             /\ Viewport(g)[r] = VisibleRow(g, r).cells /\ Viewport(h)[r] = VisibleRow(h, r).cells
             /\ DOMAIN Viewport(g)[r] = 0 .. cols - 1 /\ DOMAIN Viewport(h)[r] = 0 .. cols - 1
    BY ViewType
  <2>3. /\ DOMAIN d = 0 .. rows - 1
        /\ \A r \in 0 .. rows - 1 :
             /\ DOMAIN d[r] = 0 .. cols - 1
             /\ \A c \in 0 .. cols - 1 : VisibleRow(g, r).cells[c] # d[r][c] => IsDirtyCell(g, r, c)
    BY <1>2, <2>2 DEF Covers
  <2>4. ASSUME NEW r \in 0 .. rows - 1, NEW c \in 0 .. cols - 1, VisibleRow(h, r).cells[c] # d[r][c]
        PROVE  IsDirtyCell(h, r, c)
    <3>1. IsDirtyCell(g, r, c) \/ VisibleRow(h, r).cells[c] # VisibleRow(g, r).cells[c]
      BY <2>3, <2>4
    <3> QED BY <2>1, <3>1 DEF Dirties
  <2> QED BY <2>2, <2>3, <2>4 DEF Covers
<1> QED BY <1>1, <1>2

\* A buffer with the same lines and the same marks.
LEMMA CoversSame ==
  ASSUME NEW rows \in Nat \ {0}, NEW cols \in Nat \ {0}, NEW g \in Buffers(rows, cols),
         NEW h \in Buffers(rows, cols), h.raw = g.raw, h.dirty = g.dirty, NEW d, Covers(g, d)
  PROVE  Covers(h, d)
<1>1. \A r \in 0 .. rows - 1 : VisibleRow(h, r) = VisibleRow(g, r)
  BY SameView
<1>2. Dirties(g, h)
  BY <1>1, DirtiesSame
<1> QED BY <1>2, CoversDirties

\* A renderer that has just drawn.
LEMMA CoversDrawn ==
  ASSUME NEW rows \in Nat \ {0}, NEW cols \in Nat \ {0}, NEW g \in Buffers(rows, cols),
         NEW h \in Buffers(rows, cols), h.raw = g.raw
  PROVE  Covers(h, Viewport(g))
<1>1. Viewport(h) = Viewport(g)
  BY SameView
<1> QED BY <1>1 DEF Covers

\* The fields of the frame before the batch.
LEMMA CalmParts ==
  ASSUME NEW c, Calmly(c), NEW s \in BOOLEAN
  PROVE  /\ c.revision \in Nat /\ c.swapped \in BOOLEAN
         /\ Calmly([c EXCEPT !.swapped = s])
         /\ [c EXCEPT !.swapped = s].frame = c.frame /\ [c EXCEPT !.swapped = s].revision = c.revision
         /\ [c EXCEPT !.swapped = s].swapped = s
<1>1. PICK cells, cursor, color, alt, n, q :
        /\ n \in Nat /\ q \in BOOLEAN
        /\ c = [frame |-> [cells |-> cells, cursor |-> cursor, color |-> color, alt |-> alt], revision |-> n, swapped |-> q]
  BY DEF Calmly
<1> DEFINE f == [cells |-> cells, cursor |-> cursor, color |-> color, alt |-> alt]
           d == [c EXCEPT !.swapped = s]
<1>2. c = [frame |-> f, revision |-> n, swapped |-> q] /\ n \in Nat /\ q \in BOOLEAN
  BY <1>1
<1>3. d = [frame |-> f, revision |-> n, swapped |-> s]
  BY <1>2
<1>4. Calmly(d)
  <2> HIDE DEF d
  <2>1. d = [frame |-> [cells |-> cells, cursor |-> cursor, color |-> color, alt |-> alt], revision |-> n, swapped |-> s]
    BY <1>3
  <2>2. n \in Nat
    BY <1>2
  <2> QED BY <2>1, <2>2 DEF Calmly
<1> HIDE DEF f, d
<1> QED BY <1>2, <1>3, <1>4 DEF d

\* The frame of a terminal outside a window.
LEMMA FrameParts ==
  ASSUME NEW rows \in Nat \ {0}, NEW cols \in Nat \ {0}, NEW t, Good(t, rows, cols), ~t.armed
  PROVE  /\ Frame(t) = [cells |-> Viewport(t.grid), cursor |-> CursorSpot(t.cursor), color |-> t.color, alt |-> t.modes.alt]
         /\ Calmly(Calm(t)) /\ Matches(Calm(t).frame, t) /\ Calm(t).revision = t.revision /\ Calm(t).swapped = FALSE
<1> DEFINE f == [cells |-> Viewport(t.grid), cursor |-> CursorSpot(t.cursor), color |-> t.color, alt |-> t.modes.alt]
<1>1. Frame(t) = f
  BY DEF Frame, ShownGrid, ShownCursor, ShownColor, ShownAlt, Good
<1>2. t.revision \in Nat /\ FALSE \in BOOLEAN
  BY DEF Good, Vts
<1>3. Calm(t) = [frame |-> f, revision |-> t.revision, swapped |-> FALSE]
  BY <1>1 DEF Calm
<1>4. Calmly(Calm(t))
  BY <1>2, <1>3 DEF Calmly
<1>5. Matches(f, t)
  BY DEF Matches
<1> HIDE DEF f
<1> QED BY <1>1, <1>3, <1>4, <1>5 DEF f

\* A batch starts from what is live.
LEMMA BatchType ==
  ASSUME NEW rows \in Nat \ {0}, NEW cols \in Nat \ {0}, NEW t, Good(t, rows, cols)
  PROVE  [writes |-> t.grid.writes, spot |-> CursorSpot(t.cursor), alt |-> t.modes.alt, color |-> ShownColor(t)] \in Batches
<1>1. t \in Vts(rows, cols)
  BY DEF Good
<1>2. t.grid \in Buffers(rows, cols) /\ t.cursor \in Cursors(rows, cols) /\ t.modes \in Modes
  BY <1>1, VtParts
<1>3. t.grid.writes \in Nat
  BY <1>2, BufferParts
<1>4. t.cursor.row \in Nat /\ t.cursor.col \in Nat /\ t.cursor.visible \in BOOLEAN
  BY <1>2 DEF Cursors
<1>5. CursorSpot(t.cursor) \in Nat \X Nat \X BOOLEAN
  BY <1>4 DEF CursorSpot
<1>6. t.modes.alt \in BOOLEAN
  BY <1>2 DEF Modes
<1>7. ShownColor(t) \in {"default", "dark"}
  BY <1>1 DEF Vts, ShownColor, Colors
<1> QED BY <1>3, <1>5, <1>6, <1>7 DEF Batches

\* None is no batch.
LEMMA NoBatch == None \notin Batches
BY NoneAssumption DEF Batches

\* The invariant holds at first.
LEMMA InvInit ==
  ASSUME Init
  PROVE  Inv
<1> DEFINE rows == Size[1]
           cols == Size[2]
           g == NewGrid(rows, cols, Cap)
<1>1. Size \in (Nat \ {0}) \X (Nat \ {0})
  BY SizesAssumption
<1>2. rows \in Nat \ {0} /\ cols \in Nat \ {0} /\ Size = <<rows, cols>>
  BY <1>1
<1>3. IsSize(rows, cols)
  BY <1>2 DEF IsSize
<1>4. InitVt = [grid |-> g, cursor |-> HomeCursor, stash |-> None, stashCursor |-> None, spare |-> None,
                modes |-> DefaultModes, top |-> 0, bottom |-> rows - 1, active |-> None, color |-> "default",
                armed |-> FALSE, frozenGrid |-> None, frozenCursor |-> None, frozenColor |-> None,
                frozenAlt |-> None, flooded |-> FALSE, hidden |-> FALSE, revision |-> 1]
  BY DEF InitVt
<1>5. vt = InitVt /\ batch = None /\ drawn = Viewport(InitVt.grid) /\ calm = Calm(InitVt)
  BY DEF Init
<1> HIDE DEF rows, cols
<1>6. g \in Buffers(rows, cols)
  BY <1>2, CapAssumption, NewGridType
<1>7. HomeCursor \in Cursors(rows, cols) /\ DefaultModes \in Modes /\ DefaultModes.alt = FALSE
  <2>1. None \in Saves \cup {None}
    OBVIOUS
  <2>2. HomeCursor \in Cursors(rows, cols)
    BY <1>2, <2>1, HomeType
  <2> QED BY <2>2 DEF DefaultModes, Modes
<1>8. 0 \in 0 .. rows - 1 /\ rows - 1 \in 0 .. rows - 1 /\ 0 <= rows - 1 /\ "default" \in Colors /\ 1 \in Nat
  BY <1>2 DEF Colors
<1> HIDE DEF g
<1>9. InitVt \in Vts(rows, cols)
  BY <1>4, <1>6, <1>7, <1>8 DEF Vts
<1>10. /\ InitVt.grid = g /\ InitVt.stash = None /\ InitVt.spare = None /\ InitVt.modes = DefaultModes
       /\ InitVt.top = 0 /\ InitVt.bottom = rows - 1
  BY <1>4
<1>11. /\ InitVt.frozenGrid = None /\ InitVt.frozenCursor = None /\ InitVt.frozenColor = None
       /\ InitVt.frozenAlt = None /\ InitVt.hidden = FALSE /\ InitVt.revision = 1 /\ InitVt.armed = FALSE
  BY <1>4
<1>12. Good(InitVt, rows, cols)
  BY <1>7, <1>8, <1>9, <1>10, <1>11 DEF Good
<1>13. /\ Calmly(Calm(InitVt)) /\ Matches(Calm(InitVt).frame, InitVt) /\ Calm(InitVt).revision = InitVt.revision
  BY <1>2, <1>11, <1>12, FrameParts
<1>14. Accounted(InitVt, None, Calm(InitVt))
  BY <1>11, <1>13 DEF Accounted, Sided, Matches
<1>15. ShownGrid(InitVt) = InitVt.grid
  BY <1>11 DEF ShownGrid
<1>16. Covers(g, Viewport(g))
  BY <1>2, <1>6, CoversDrawn
<1> QED BY <1>3, <1>5, <1>10, <1>12, <1>13, <1>14, <1>15, <1>16 DEF Inv

\* A control function tallies what it writes, or swaps the screens.
LEMMA ControlInv ==
  ASSUME NEW rows, NEW cols, IsSize(rows, cols), Good(vt, rows, cols), Covers(ShownGrid(vt), drawn),
         batch = None \/ batch \in Batches, Calmly(calm), Accounted(vt, batch, calm), Control
  PROVE  Inv'
<1>1. rows \in Nat \ {0} /\ cols \in Nat \ {0}
  BY SizeType
<1>2. Fed(rows, cols)
  BY ControlFed
<1> DEFINE s == calm.swapped \/ vt'.modes.alt # vt.modes.alt
<1>3. /\ Feeds(vt, vt', rows, cols) /\ batch # None /\ batch' = batch /\ drawn' = drawn
      /\ calm' = [calm EXCEPT !.swapped = @ \/ vt'.modes.alt # vt.modes.alt]
  BY <1>2 DEF Fed
<1>4. /\ Good(vt', rows, cols) /\ vt'.hidden = vt.hidden /\ vt'.revision = vt.revision
      /\ vt'.modes.alt = vt.modes.alt => Later(vt.grid, vt'.grid)
      /\ Dirties(ShownGrid(vt), ShownGrid(vt'))
  BY <1>3 DEF Feeds
<1>5. vt \in Vts(rows, cols) /\ vt' \in Vts(rows, cols)
  BY <1>4 DEF Good
<1>6. ShownGrid(vt) \in Buffers(rows, cols) /\ ShownGrid(vt') \in Buffers(rows, cols)
  BY <1>1, <1>5, ShownType
<1>7. Covers(ShownGrid(vt'), drawn')
  <2>1. Covers(ShownGrid(vt'), drawn)
    BY <1>1, <1>4, <1>6, CoversDirties
  <2> QED BY <1>3, <2>1
<1>8. calm' = [calm EXCEPT !.swapped = s] /\ s \in BOOLEAN
  <2>1. s \in BOOLEAN
    OBVIOUS
  <2>2. calm' = [calm EXCEPT !.swapped = s]
    BY <1>3 DEF Calmly
  <2> QED BY <2>1, <2>2
<1> HIDE DEF s
<1>9. /\ calm.revision \in Nat /\ Calmly(calm') /\ calm'.frame = calm.frame /\ calm'.revision = calm.revision
      /\ calm'.swapped = s
  BY <1>8, CalmParts
<1>10. /\ vt.grid \in Buffers(rows, cols) /\ vt'.grid \in Buffers(rows, cols)
       /\ vt.grid.writes \in Nat /\ vt'.grid.writes \in Nat
  BY <1>1, <1>5, VtParts, BufferParts
<1>11. batch.writes \in Nat
  BY <1>3 DEF Batches
<1>12. ASSUME ~s, Tracks(calm.frame, vt, batch) PROVE Tracks(calm.frame, vt', batch)
  <2>1. vt'.modes.alt = vt.modes.alt
    BY <1>12 DEF s
  <2>2. Later(vt.grid, vt'.grid)
    BY <1>4, <2>1
  <2>3. vt'.grid.writes = vt.grid.writes => Viewport(vt'.grid) = Viewport(vt.grid)
    BY <1>1, <1>10, <2>2, SameView DEF Later
  <2>4. vt'.grid.writes >= vt.grid.writes
    BY <2>2 DEF Later
  <2> QED BY <1>10, <1>11, <1>12, <2>1, <2>3, <2>4 DEF Tracks
<1>13. calm.swapped => s
  BY DEF s
<1>14. Accounted(vt', batch', calm')
  <2>1. Sided(vt', batch', calm')
    BY <1>3, <1>4, <1>9 DEF Accounted, Sided
  <2> QED BY <1>3, <1>4, <1>9, <1>12, <1>13, <2>1 DEF Accounted
<1> QED BY <1>3, <1>4, <1>7, <1>9, <1>14 DEF Inv

\* A batch begins: a full window is closed, and the frame before it is kept
\* unless a window is open.
LEMMA BeginInv ==
  ASSUME NEW rows, NEW cols, IsSize(rows, cols), Good(vt, rows, cols), Covers(ShownGrid(vt), drawn),
         batch = None \/ batch \in Batches, Calmly(calm), Accounted(vt, batch, calm), BeginBatch
  PROVE  Inv'
<1>1. rows \in Nat \ {0} /\ cols \in Nat \ {0} /\ vt \in Vts(rows, cols)
  BY SizeType DEF Good
<1> DEFINE t == IF vt.armed /\ vt.flooded THEN ForceRelease(vt) ELSE vt
           b == [writes |-> t.grid.writes, spot |-> CursorSpot(t.cursor), alt |-> t.modes.alt, color |-> ShownColor(t)]
<1>2. /\ batch = None /\ vt' = t /\ batch' = b /\ drawn' = drawn
      /\ calm' = IF vt.armed THEN calm ELSE Calm(vt)
  BY DEF BeginBatch
<1>3. /\ Feeds(vt, t, rows, cols) /\ t.grid.raw = vt.grid.raw /\ t.grid.writes = vt.grid.writes
      /\ t.cursor = vt.cursor /\ t.modes = vt.modes /\ (~vt.armed => t = vt)
  <2>1. CASE vt.armed /\ vt.flooded
    <3> DEFINE f == ForceRelease(vt)
    <3>1. Marked(vt, f, rows, cols)
      BY <1>1, ForceReleaseStep
    <3>2. t = f
      BY <2>1
    <3> HIDE DEF f, t
    <3>3. Feeds(vt, f, rows, cols) /\ f.grid.raw = vt.grid.raw /\ f.grid.writes = vt.grid.writes
      BY <1>1, <3>1, MarkedFeeds
    <3>4. f.cursor = vt.cursor /\ f.modes = vt.modes
      BY <3>1 DEF Marked, Holds
    <3> QED BY <2>1, <3>2, <3>3, <3>4
  <2>2. CASE ~(vt.armed /\ vt.flooded)
    <3>1. t = vt
      BY <2>2
    <3> HIDE DEF t
    <3>2. Feeds(vt, vt, rows, cols)
      BY <1>1, GoodSelf
    <3> QED BY <3>1, <3>2
  <2> QED BY <2>1, <2>2
<1> HIDE DEF t
<1>4. Good(t, rows, cols) /\ t.hidden = vt.hidden /\ t.revision = vt.revision /\ Dirties(ShownGrid(vt), ShownGrid(t))
  BY <1>3 DEF Feeds
<1>5. t \in Vts(rows, cols)
  BY <1>4 DEF Good
<1>6. ShownGrid(vt) \in Buffers(rows, cols) /\ ShownGrid(t) \in Buffers(rows, cols)
  BY <1>1, <1>5, ShownType
<1>7. Covers(ShownGrid(t), drawn)
  BY <1>1, <1>4, <1>6, CoversDirties
<1>8. b \in Batches
  BY <1>1, <1>4, BatchType
<1>9. b.writes = t.grid.writes /\ b.spot = CursorSpot(t.cursor) /\ b.alt = t.modes.alt /\ b # None
  BY <1>8, NoBatch
<1> HIDE DEF b
<1>10. /\ t.grid \in Buffers(rows, cols) /\ vt.grid \in Buffers(rows, cols) /\ t.grid.writes \in Nat
  BY <1>1, <1>5, VtParts, BufferParts
<1>11. Viewport(t.grid) = Viewport(vt.grid)
  BY <1>1, <1>3, <1>10, SameView
<1>12. ASSUME NEW f, Matches(f, vt) PROVE Tracks(f, t, b)
  BY <1>3, <1>9, <1>10, <1>11, <1>12 DEF Matches, Tracks
<1>13. CASE vt.armed
  <2>1. calm' = calm
    BY <1>2, <1>13
  <2>3. Sided(t, b, calm)
    BY <1>2, <1>3, <1>4, <1>9 DEF Accounted, Sided
  <2>2. Accounted(t, b, calm)
    BY <1>2, <1>4, <1>9, <1>12, <2>3 DEF Accounted
  <2> QED BY <1>2, <1>4, <1>7, <1>8, <2>1, <2>2 DEF Inv
<1>14. CASE ~vt.armed
  <2>1. calm' = Calm(vt)
    BY <1>2, <1>14
  <2>2. Calmly(Calm(vt)) /\ Matches(Calm(vt).frame, vt) /\ Calm(vt).revision = vt.revision /\ vt.revision \in Nat
    BY <1>1, <1>14, FrameParts DEF Vts
  <2>4. Sided(t, b, Calm(vt))
    BY <1>3, <1>9, <2>2 DEF Sided, Matches
  <2>3. Accounted(t, b, Calm(vt))
    BY <1>4, <1>9, <1>12, <2>2, <2>4 DEF Accounted
  <2> QED BY <1>2, <1>4, <1>7, <1>8, <2>1, <2>2, <2>3 DEF Inv
<1> QED BY <1>13, <1>14

\* A batch ends: what it changed is counted, or waits for its window.
LEMMA EndInv ==
  ASSUME NEW rows, NEW cols, IsSize(rows, cols), Good(vt, rows, cols), Covers(ShownGrid(vt), drawn),
         batch = None \/ batch \in Batches, Calmly(calm), Accounted(vt, batch, calm), EndBatch
  PROVE  Inv'
<1>1. rows \in Nat \ {0} /\ cols \in Nat \ {0} /\ vt \in Vts(rows, cols)
  BY SizeType DEF Good
<1>2. batch # None /\ batch' = None /\ drawn' = drawn /\ calm' = calm
  BY DEF EndBatch
<1>3. PICK hidden \in BOOLEAN, revision \in Nat :
        /\ Recounted(vt, vt', hidden, revision, rows, cols)
        /\ vt.armed => hidden = (vt.hidden \/ OtherChanged)
        /\ ~vt.armed => ~hidden
        /\ revision \in {vt.revision, vt.revision + 1}
        /\ ~vt.armed /\ (vt.hidden \/ OtherChanged) => revision = vt.revision + 1
  BY <1>1, EndBatchStep
<1>4. /\ Good(vt', rows, cols) /\ vt'.hidden = hidden /\ vt'.revision = revision
      /\ vt'.grid = vt.grid /\ vt'.cursor = vt.cursor /\ vt'.modes = vt.modes /\ vt'.armed = vt.armed
      /\ ShownGrid(vt') = ShownGrid(vt)
  BY <1>3 DEF Recounted
<1>5. calm.revision \in Nat /\ vt.revision \in Nat /\ vt.hidden \in BOOLEAN
  <2>1. FALSE \in BOOLEAN
    OBVIOUS
  <2> QED BY <1>1, <2>1, CalmParts DEF Vts
<1>6. ASSUME Tracks(calm.frame, vt, batch), ~OtherChanged PROVE Matches(calm.frame, vt')
  BY <1>4, <1>6 DEF Tracks, Matches, OtherChanged
<1>7. calm.revision <= revision /\ (revision = vt.revision + 1 => revision > calm.revision)
      /\ (vt.revision > calm.revision => revision > calm.revision)
  BY <1>3, <1>5 DEF Accounted
<1>8. \/ calm.swapped \/ revision > calm.revision \/ hidden \/ Matches(calm.frame, vt')
  <2>1. CASE calm.swapped \/ vt.revision > calm.revision
    BY <1>7, <2>1
  <2>2. CASE vt.hidden
    BY <1>3, <1>7, <2>2
  <2>3. CASE Tracks(calm.frame, vt, batch)
    BY <1>3, <1>6, <1>7, <2>3
  <2> QED BY <1>2, <2>1, <2>2, <2>3 DEF Accounted
<1>10. Sided(vt', None, calm)
  <2>1. CASE vt.revision > calm.revision \/ vt.hidden
    BY <1>3, <1>4, <1>7, <2>1 DEF Sided
  <2>2. CASE batch.alt = calm.frame.alt /\ ~OtherChanged
    BY <1>4, <2>2 DEF Sided, OtherChanged
  <2>3. CASE OtherChanged
    BY <1>3, <1>4, <1>7, <2>3 DEF Sided
  <2> QED BY <1>2, <2>1, <2>2, <2>3 DEF Accounted, Sided
<1>9. Accounted(vt', None, calm)
  BY <1>3, <1>4, <1>7, <1>8, <1>10 DEF Accounted
<1> QED BY <1>2, <1>4, <1>9 DEF Inv

\* A window expires.
LEMMA ExpireInv ==
  ASSUME NEW rows, NEW cols, IsSize(rows, cols), Good(vt, rows, cols), Covers(ShownGrid(vt), drawn),
         batch = None \/ batch \in Batches, Calmly(calm), Accounted(vt, batch, calm), Expire
  PROVE  Inv'
<1>1. rows \in Nat \ {0} /\ cols \in Nat \ {0} /\ vt \in Vts(rows, cols)
  BY SizeType DEF Good
<1>2. batch = None /\ batch' = batch /\ drawn' = drawn /\ calm' = calm
  BY DEF Expire
<1>3. PICK revision \in Nat :
        /\ Good(vt', rows, cols) /\ ~vt'.armed /\ ~vt'.hidden /\ vt'.revision = revision
        /\ ShownGrid(vt').dirty.all /\ vt'.grid \in Buffers(rows, cols)
        /\ vt'.grid.raw = vt.grid.raw /\ vt'.cursor = vt.cursor /\ vt'.modes = vt.modes
        /\ revision \in {vt.revision, vt.revision + 1} /\ (vt.hidden => revision = vt.revision + 1)
  BY <1>1, ExpireStep
<1>4. calm.revision \in Nat /\ vt.revision \in Nat
  <2>1. FALSE \in BOOLEAN
    OBVIOUS
  <2> QED BY <1>1, <2>1, CalmParts DEF Vts
<1>5. Viewport(vt'.grid) = Viewport(vt.grid)
  <2>1. vt.grid \in Buffers(rows, cols)
    BY <1>1, VtParts
  <2> QED BY <1>1, <1>3, <2>1, SameView
<1>6. Matches(calm.frame, vt) => Matches(calm.frame, vt')
  BY <1>3, <1>5 DEF Matches
<1>7. calm.revision <= revision /\ (revision = vt.revision + 1 => revision > calm.revision)
      /\ (vt.revision > calm.revision => revision > calm.revision)
  BY <1>3, <1>4 DEF Accounted
<1>8. \/ calm.swapped \/ revision > calm.revision \/ Matches(calm.frame, vt')
  BY <1>2, <1>3, <1>6, <1>7 DEF Accounted
<1>11. Sided(vt', None, calm)
  BY <1>2, <1>3, <1>7 DEF Accounted, Sided
<1>9. Accounted(vt', None, calm)
  BY <1>3, <1>7, <1>8, <1>11 DEF Accounted
<1>10. Covers(ShownGrid(vt'), drawn)
  BY <1>3 DEF Covers
<1> QED BY <1>2, <1>3, <1>9, <1>10 DEF Inv

\* A resize.
LEMMA ResizeInv ==
  ASSUME NEW rows, NEW cols, IsSize(rows, cols), Good(vt, rows, cols), Covers(ShownGrid(vt), drawn),
         batch = None \/ batch \in Batches, Calmly(calm), Accounted(vt, batch, calm), Resize
  PROVE  Inv'
<1>1. rows \in Nat \ {0} /\ cols \in Nat \ {0} /\ vt \in Vts(rows, cols)
  BY SizeType DEF Good
<1>2. batch = None /\ batch' = batch /\ drawn' = drawn /\ calm' = calm
  BY DEF Resize
<1>3. PICK size \in Sizes : vt' = Resized(vt, size[1], size[2])
  BY DEF Resize
<1> DEFINE rows2 == size[1]
           cols2 == size[2]
<1>4. IsSize(rows2, cols2)
  <2>1. size \in (Nat \ {0}) \X (Nat \ {0})
    BY SizesAssumption
  <2>2. size = <<rows2, cols2>>
    BY <2>1
  <2> QED BY <2>2 DEF IsSize
<1>5. vt' = Resized(vt, rows2, cols2)
  BY <1>3
<1> HIDE DEF rows2, cols2
<1>6. Resizes(vt, vt', rows, cols, rows2, cols2)
  BY <1>4, <1>5, ResizedStep
<1>7. calm.revision \in Nat /\ vt.revision \in Nat /\ vt.hidden \in BOOLEAN /\ vt.armed \in BOOLEAN
  <2>1. FALSE \in BOOLEAN
    OBVIOUS
  <2> QED BY <1>1, <2>1, CalmParts DEF Vts
<1>8. Good(vt', rows2, cols2)
  BY <1>6 DEF Resizes
<1>9. CASE rows2 # rows \/ cols2 # cols
  <2>1. /\ ShownGrid(vt').dirty.all /\ vt'.revision = vt.revision + 1
        /\ vt'.hidden = IF vt.armed THEN FALSE ELSE vt.hidden
    BY <1>6, <1>9 DEF Resizes
  <2>2. Covers(ShownGrid(vt'), drawn)
    BY <2>1 DEF Covers
  <2>3. ~vt'.hidden
    BY <1>2, <2>1 DEF Accounted
  <2>4. Accounted(vt', None, calm)
    BY <1>7, <2>1, <2>3 DEF Accounted, Sided
  <2> QED BY <1>2, <1>4, <1>8, <2>2, <2>4 DEF Inv
<1>10. CASE rows2 = rows /\ cols2 = cols
  <2>1. /\ vt'.grid.raw = vt.grid.raw /\ CursorSpot(vt'.cursor) = CursorSpot(vt.cursor) /\ vt'.modes = vt.modes
        /\ vt'.armed = vt.armed /\ vt'.hidden = vt.hidden /\ vt'.revision = vt.revision
        /\ ShownGrid(vt').raw = ShownGrid(vt).raw /\ ShownGrid(vt').dirty = ShownGrid(vt).dirty
    BY <1>6, <1>10 DEF Resizes
  <2>2. vt' \in Vts(rows, cols)
    BY <1>8, <1>10 DEF Good
  <2>3. /\ vt.grid \in Buffers(rows, cols) /\ vt'.grid \in Buffers(rows, cols)
        /\ ShownGrid(vt) \in Buffers(rows, cols) /\ ShownGrid(vt') \in Buffers(rows, cols)
    BY <1>1, <2>2, VtParts, ShownType
  <2>4. Covers(ShownGrid(vt'), drawn)
    BY <1>1, <2>1, <2>3, CoversSame
  <2>5. Viewport(vt'.grid) = Viewport(vt.grid)
    BY <1>1, <2>1, <2>3, SameView
  <2>6. Matches(calm.frame, vt) => Matches(calm.frame, vt')
    BY <2>1, <2>5 DEF Matches
  <2>8. Sided(vt', None, calm)
    BY <1>2, <2>1 DEF Accounted, Sided
  <2>7. Accounted(vt', None, calm)
    BY <1>2, <2>1, <2>6, <2>8 DEF Accounted
  <2> QED BY <1>2, <1>4, <1>8, <2>4, <2>7 DEF Inv
<1> QED BY <1>9, <1>10

\* A redraw.
LEMMA RedrawInv ==
  ASSUME NEW rows, NEW cols, IsSize(rows, cols), Good(vt, rows, cols), Covers(ShownGrid(vt), drawn),
         batch = None \/ batch \in Batches, Calmly(calm), Accounted(vt, batch, calm), Redraw
  PROVE  Inv'
<1>1. rows \in Nat \ {0} /\ cols \in Nat \ {0} /\ vt \in Vts(rows, cols)
  BY SizeType DEF Good
<1>2. batch = None /\ batch' = batch /\ drawn' = Viewport(ShownGrid(vt)) /\ calm' = calm
  BY DEF Redraw
<1>3. /\ Good(vt', rows, cols) /\ vt'.grid.raw = vt.grid.raw /\ vt'.cursor = vt.cursor
      /\ vt'.modes = vt.modes /\ vt'.armed = vt.armed /\ vt'.hidden = vt.hidden
      /\ vt'.revision = vt.revision /\ ShownGrid(vt').raw = ShownGrid(vt).raw
  BY RedrawStep
<1>4. vt' \in Vts(rows, cols)
  BY <1>3 DEF Good
<1>5. /\ vt.grid \in Buffers(rows, cols) /\ vt'.grid \in Buffers(rows, cols)
      /\ ShownGrid(vt) \in Buffers(rows, cols) /\ ShownGrid(vt') \in Buffers(rows, cols)
  BY <1>1, <1>4, VtParts, ShownType
<1>6. Covers(ShownGrid(vt'), Viewport(ShownGrid(vt)))
  BY <1>1, <1>3, <1>5, CoversDrawn
<1>7. Viewport(vt'.grid) = Viewport(vt.grid)
  BY <1>1, <1>3, <1>5, SameView
<1>8. Matches(calm.frame, vt) => Matches(calm.frame, vt')
  BY <1>3, <1>7 DEF Matches
<1>10. Sided(vt', None, calm)
  BY <1>2, <1>3 DEF Accounted, Sided
<1>9. Accounted(vt', None, calm)
  BY <1>2, <1>3, <1>8, <1>10 DEF Accounted
<1> QED BY <1>2, <1>3, <1>6, <1>9 DEF Inv

\* Every step keeps the invariant.
LEMMA InvNext ==
  ASSUME Inv, [Next]_vars
  PROVE  Inv'
<1>1. PICK rows, cols : IsSize(rows, cols) /\ Good(vt, rows, cols) /\ Covers(ShownGrid(vt), drawn)
  BY DEF Inv
<1>2. (batch = None \/ batch \in Batches) /\ Calmly(calm) /\ Accounted(vt, batch, calm)
  BY DEF Inv
<1>3. CASE Control
  BY <1>1, <1>2, <1>3, ControlInv
<1>4. CASE BeginBatch
  BY <1>1, <1>2, <1>4, BeginInv
<1>5. CASE EndBatch
  BY <1>1, <1>2, <1>5, EndInv
<1>6. CASE Expire
  BY <1>1, <1>2, <1>6, ExpireInv
<1>7. CASE Resize
  BY <1>1, <1>2, <1>7, ResizeInv
<1>8. CASE Redraw
  BY <1>1, <1>2, <1>8, RedrawInv
<1>9. CASE UNCHANGED vars
  <2>1. vt' = vt /\ batch' = batch /\ drawn' = drawn /\ calm' = calm
    BY <1>9 DEF vars
  <2> QED BY <1>1, <1>2, <2>1 DEF Inv
<1> QED BY <1>3, <1>4, <1>5, <1>6, <1>7, <1>8, <1>9 DEF Next

\* The inductive invariant holds in every reachable state.
THEOREM InvHolds == Spec => []Inv
<1>1. Init => Inv
  BY InvInit
<1>2. Inv /\ [Next]_vars => Inv'
  BY InvNext
<1> QED BY <1>1, <1>2, PTL DEF Spec

\* The buffers the properties speak of are buffers of the screen's size.
LEMMA GridsType ==
  ASSUME NEW rows \in Nat \ {0}, NEW cols \in Nat \ {0}, vt \in Vts(rows, cols)
  PROVE  \A g \in Grids : g \in Buffers(rows, cols)
<1>1. /\ vt.grid \in Buffers(rows, cols) /\ vt.stash \in Buffers(rows, cols) \cup {None}
      /\ vt.frozenGrid \in Snapshots(rows, cols) \cup {None}
  BY DEF Vts
<1>2. vt.frozenGrid # None => vt.frozenGrid.grid \in Buffers(rows, cols)
  BY <1>1 DEF Snapshots
<1> QED BY <1>1, <1>2 DEF Grids, LiveGrids

\* A line of a buffer has its cells, and no half of a wide character.
LEMMA LineParts ==
  ASSUME NEW rows \in Nat \ {0}, NEW cols \in Nat \ {0}, NEW g \in Buffers(rows, cols), NEW i \in DOMAIN g.raw
  PROVE  g.raw[i].cells \in [0 .. cols - 1 -> Cells] /\ Paired(g.raw[i].cells)
<1>1. g.raw[i] \in Lines(cols)
  BY BufferParts
<1>2. g.raw[i].cells \in CellRows(cols)
  BY <1>1 DEF Lines
<1> QED BY <1>2 DEF CellRows

\* The shape of the buffers and the places on the screen, in every state:
\* what indexing in parser.rs and grid.rs relies on.
THEOREM TypeOKHolds == Spec => []TypeOK
<1>1. Inv => TypeOK
  <2> SUFFICES ASSUME Inv PROVE TypeOK
    OBVIOUS
  <2>1. PICK rows, cols : IsSize(rows, cols) /\ Good(vt, rows, cols)
    BY DEF Inv
  <2>2. rows \in Nat \ {0} /\ cols \in Nat \ {0} /\ None \notin Buffers(rows, cols) /\ vt \in Vts(rows, cols)
    BY <2>1, SizeType DEF Good
  <2>3. /\ vt.grid.rows = rows /\ vt.grid.cols = cols /\ LastRow(vt) = rows - 1 /\ LastCol(vt) = cols - 1
        /\ vt.top \in 0 .. rows - 1 /\ vt.bottom \in 0 .. rows - 1 /\ vt.cursor \in Cursors(rows, cols)
        /\ vt.active \in Spots(rows, cols) \cup {None} /\ vt.modes \in Modes
    BY <2>2, VtParts
  <2>4. \A g \in Grids :
          /\ g.rows = vt.grid.rows /\ g.cols = vt.grid.cols
          /\ Len(g.raw) >= g.rows
          /\ \A i \in DOMAIN g.raw : g.raw[i].cells \in [0 .. g.cols - 1 -> Cells]
    <3> TAKE g \in Grids
    <3>1. g \in Buffers(rows, cols)
      BY <2>2, GridsType
    <3>2. g.rows = rows /\ g.cols = cols /\ Len(g.raw) >= rows
      BY <2>2, <3>1, BufferParts
    <3>3. \A i \in DOMAIN g.raw : g.raw[i].cells \in [0 .. cols - 1 -> Cells]
      BY <2>2, <3>1, LineParts
    <3> QED BY <2>3, <3>2, <3>3
  <2>5. \A c \in {vt.cursor, ShownCursor(vt)} \cup ({vt.stashCursor} \ {None}) :
          c.row \in 0 .. LastRow(vt) /\ c.col \in 0 .. LastCol(vt)
    <3>1. /\ vt.stashCursor \in Cursors(rows, cols) \cup {None}
          /\ vt.frozenCursor \in Cursors(rows, cols) \cup {None}
      BY <2>2 DEF Vts
    <3>2. ShownCursor(vt) \in Cursors(rows, cols)
      BY <2>3, <3>1 DEF ShownCursor
    <3> TAKE c \in {vt.cursor, ShownCursor(vt)} \cup ({vt.stashCursor} \ {None})
    <3>3. c \in Cursors(rows, cols)
      BY <2>3, <3>1, <3>2
    <3>4. c.row \in 0 .. rows - 1 /\ c.col \in 0 .. cols - 1
      BY <3>3 DEF Cursors
    <3> QED BY <2>3, <3>4
  <2>6. 0 <= vt.top /\ vt.top <= vt.bottom /\ vt.bottom <= LastRow(vt)
    BY <2>1, <2>2, <2>3 DEF Good
  <2>7. vt.active = None \/ (vt.active[1] \in 0 .. LastRow(vt) /\ vt.active[2] \in 0 .. LastCol(vt))
    BY <2>3 DEF Spots
  <2>8. vt.modes.alt <=> vt.stash # None
    BY <2>1 DEF Good
  <2> QED BY <2>4, <2>5, <2>6, <2>7, <2>8 DEF TypeOK
<1> QED BY <1>1, InvHolds, PTL

\* No line of any buffer shows half of a two-column character
\* (Row::clear_wide_pair_around, sanitize_wide_pairs).
THEOREM WidePairsHolds == Spec => []WidePairs
<1>1. Inv => WidePairs
  <2> SUFFICES ASSUME Inv PROVE WidePairs
    OBVIOUS
  <2>1. PICK rows, cols : IsSize(rows, cols) /\ Good(vt, rows, cols)
    BY DEF Inv
  <2>2. rows \in Nat \ {0} /\ cols \in Nat \ {0} /\ vt \in Vts(rows, cols)
    BY <2>1, SizeType DEF Good
  <2>3. \A g \in Grids : g \in Buffers(rows, cols)
    BY <2>2, GridsType
  <2>4. \A g \in Grids : \A i \in DOMAIN g.raw : Paired(g.raw[i].cells)
    BY <2>2, <2>3, LineParts
  <2> QED BY <2>4 DEF WidePairs
<1> QED BY <1>1, InvHolds, PTL

\* A retired alternate screen that passes is_blank_canvas is blank
\* (ScreenSwap::enter).
THEOREM SpareBlankHolds == Spec => []SpareBlank
<1>1. Inv => SpareBlank
  <2> SUFFICES ASSUME Inv, vt.spare # None, IsBlankCanvas(vt.spare, vt.grid.rows, vt.grid.cols, 0)
               PROVE  IsActuallyBlank(vt.spare, vt.grid.cols)
    BY DEF SpareBlank
  <2>1. PICK rows, cols : IsSize(rows, cols) /\ Good(vt, rows, cols)
    BY DEF Inv
  <2>2. rows \in Nat \ {0} /\ cols \in Nat \ {0} /\ vt \in Vts(rows, cols) /\ Fresh(vt.spare)
    BY <2>1, SizeType DEF Good
  <2>3. vt.spare \in Buffers(rows, cols)
    BY <2>2 DEF Vts
  <2>4. vt.spare.writes = 0 /\ vt.spare.cols = vt.grid.cols
    BY DEF IsBlankCanvas
  <2>5. DOMAIN vt.spare.raw = 1 .. Len(vt.spare.raw)
    BY <2>2, <2>3, BufferParts
  <2> QED BY <2>2, <2>4, <2>5 DEF Fresh, IsActuallyBlank
<1> QED BY <1>1, InvHolds, PTL

\* A renderer that draws only the dirty regions ends up with the presented
\* frame (take_dirty_regions).
THEOREM DirtyCoversHolds == Spec => []DirtyCovers
<1>1. Inv => DirtyCovers
  <2> SUFFICES ASSUME Inv PROVE DirtyCovers
    OBVIOUS
  <2>1. Covers(ShownGrid(vt), drawn)
    BY DEF Inv
  <2> QED BY <2>1 DEF Covers, DirtyCovers
<1> QED BY <1>1, InvHolds, PTL

\* Outside a window the content revision stands for the frame (LENS-R-001): for
\* which screen is on show always, for what it shows unless the screens were
\* swapped and swapped back.
THEOREM RevisionCoversHolds == Spec => []RevisionCovers
<1>1. Inv => RevisionCovers
  <2> SUFFICES ASSUME Inv, Rest, ~(vt.revision > calm.revision)
               PROVE  /\ Frame(vt).alt = calm.frame.alt
                      /\ calm.swapped \/ NoColor(Frame(vt)) = NoColor(calm.frame)
    BY DEF RevisionCovers
  <2>1. PICK rows, cols : IsSize(rows, cols) /\ Good(vt, rows, cols)
    BY DEF Inv
  <2>2. rows \in Nat \ {0} /\ cols \in Nat \ {0} /\ batch = None /\ ~vt.armed
    BY <2>1, SizeType DEF Rest
  <2>3. vt.modes.alt = calm.frame.alt /\ (calm.swapped \/ Matches(calm.frame, vt))
    BY <2>2 DEF Inv, Accounted, Sided
  <2>4. Frame(vt) = [cells |-> Viewport(vt.grid), cursor |-> CursorSpot(vt.cursor), color |-> vt.color, alt |-> vt.modes.alt]
    BY <2>1, <2>2, FrameParts
  <2>5. PICK cells, cursor, color, alt, n, s :
          calm = [frame |-> [cells |-> cells, cursor |-> cursor, color |-> color, alt |-> alt], revision |-> n, swapped |-> s]
    BY DEF Inv, Calmly
  <2>6. calm.frame = [cells |-> cells, cursor |-> cursor, color |-> color, alt |-> alt]
    BY <2>5
  <2>7. ASSUME Matches(calm.frame, vt) PROVE NoColor(Frame(vt)) = NoColor(calm.frame)
    <3>1. vt.modes.alt = alt /\ CursorSpot(vt.cursor) = cursor /\ Viewport(vt.grid) = cells
      BY <2>6, <2>7 DEF Matches
    <3>2. Frame(vt).cells = calm.frame.cells /\ Frame(vt).cursor = calm.frame.cursor /\ Frame(vt).alt = calm.frame.alt
      BY <2>4, <2>6, <3>1
    <3> QED BY <3>2 DEF NoColor
  <2>8. Frame(vt).alt = calm.frame.alt
    BY <2>3, <2>4
  <2> QED BY <2>3, <2>7, <2>8
<1> QED BY <1>1, InvHolds, PTL
=============================================================================
