-------------------------------- MODULE Grid --------------------------------
(***************************************************************************)
(* One screen buffer of a virtual terminal (shux-vt/src/grid.rs): the      *)
(* lines of the scrollback and the viewport, the regions a renderer has    *)
(* still to draw, a tally of writes and a count of lines lost at the       *)
(* front.  Every operation is an operator from a buffer to a buffer.       *)
(*                                                                         *)
(* A cell is what its columns show.  Colours and attributes are left out;  *)
(* what an operation can do wrong to a line it does to the text.           *)
(***************************************************************************)
EXTENDS Integers, Sequences, FiniteSets, SequencesExt

Blank == "_"
Tail2 == "c"                   \* the right half of a two-column character
Narrow == {"x", "r", "z"}      \* a letter, a lone regional indicator, a
Wide == {"W", "Z"}             \* cluster; "z" and "Z" end in a joiner
Cells == {Blank, Tail2, "E"} \cup Narrow \cup Wide

\* is_wide_continuation, is_wide and the width of a cell.
Width(c) == IF c \in Wide THEN 2 ELSE IF c = Tail2 THEN 0 ELSE 1

RowOf(cells) == [cells |-> cells, wrapped |-> FALSE]
NewRow(cols) == RowOf([i \in 0 .. cols - 1 |-> Blank])
ColsOf(row) == DOMAIN row.cells

MinOf(a, b) == IF a < b THEN a ELSE b
MaxOf(a, b) == IF a > b THEN a ELSE b
Less(a, b) == MaxOf(a - b, 0)   \* saturating_sub

(***************************************************************************)
(* Rows                                                                    *)
(***************************************************************************)

\* A row is blank when every cell shows a space; the right half of a
\* character does too.
IsBlankRow(row) == \A i \in ColsOf(row) : row.cells[i] \in {Blank, Tail2}

\* No half of a two-column character without its other half.
Paired(cells) ==
  \A k \in DOMAIN cells :
    /\ cells[k] \in Wide => k + 1 \in DOMAIN cells /\ cells[k + 1] = Tail2
    /\ cells[k] = Tail2 => k - 1 \in DOMAIN cells /\ cells[k - 1] \in Wide

\* clear_wide_pair_around: a write to col may not leave half a character.
ClearPair(cells, col) ==
  LET c == [i \in DOMAIN cells \cup {col} |-> IF i \in DOMAIN cells THEN cells[i] ELSE Blank]
      Gone(i) ==
        \/ i = col /\ c[col] \in Wide \cup {Tail2}
        \/ i = col - 1 /\ c[col] = Tail2 /\ cells[i] \in Wide
        \/ i = col + 1 /\ c[col] \in Wide /\ cells[i] = Tail2
  IN  [i \in DOMAIN cells |-> IF Gone(i) THEN Blank ELSE cells[i]]

\* Mutant: looks for a left half that lost its right one only.
SanitizeLefts(cells) ==
  [i \in DOMAIN cells |->
    IF cells[i] \in Wide /\ ~(i + 1 \in DOMAIN cells /\ cells[i + 1] = Tail2)
    THEN Blank ELSE cells[i]]

\* sanitize_wide_pairs: blank every half that has lost its other half.
Sanitize(cells) ==
  [i \in DOMAIN cells |->
    IF \/ cells[i] \in Wide /\ ~(i + 1 \in DOMAIN cells /\ cells[i + 1] = Tail2)
       \/ cells[i] = Tail2 /\ ~(i - 1 \in DOMAIN cells /\ cells[i - 1] \in Wide)
    THEN Blank ELSE cells[i]]

(***************************************************************************)
(* Dirty regions.  all is full_frame; span[r] is the range of row r, empty *)
(* when its ends meet.  full_rows, last_full_row and any_dirty are caches  *)
(* of these two.                                                           *)
(***************************************************************************)

Clean(rows) == [all |-> FALSE, span |-> [r \in 0 .. rows - 1 |-> <<0, 0>>]]

MarkAll(g) == [g EXCEPT !.dirty.all = TRUE]

MarkRange(g, r, lo, hi) ==
  LET a == MinOf(lo, g.cols)
      b == MinOf(hi, g.cols)
      s == g.dirty.span[r]
  IN  IF g.dirty.all \/ r \notin 0 .. g.rows - 1 \/ a >= b THEN g
      ELSE [g EXCEPT !.dirty.span[r] =
             IF s[1] = s[2] THEN <<a, b>> ELSE <<MinOf(s[1], a), MaxOf(s[2], b)>>]

\* mark_rows(first, end): whole rows, first to end - 1.
MarkRows(g, first, end) ==
  IF g.dirty.all THEN g
  ELSE [g EXCEPT !.dirty.span =
         [r \in DOMAIN @ |-> IF r \in first .. end - 1 THEN <<0, g.cols>> ELSE @[r]]]

MarkRow(g, r) == MarkRows(g, r, r + 1)

IsDirtyCell(g, r, c) == g.dirty.all \/ (g.dirty.span[r][1] <= c /\ c < g.dirty.span[r][2])

\* take: the renderer has drawn every region.
TakeDirty(g) == [g EXCEPT !.dirty = Clean(g.rows)]

(***************************************************************************)
(* The buffer                                                              *)
(***************************************************************************)

\* The buffers of one size.
CellRows(cols) == {cells \in [0 .. cols - 1 -> Cells] : Paired(cells)}
Lines(cols) == [cells : CellRows(cols), wrapped : BOOLEAN]
Dirt(rows) == [all : BOOLEAN, span : [0 .. rows - 1 -> Nat \X Nat]]

Buffers(rows, cols) ==
  {g \in [raw : Seq(Lines(cols)), rows : {rows}, cols : {cols}, cap : Nat, dirty : Dirt(rows),
          writes : Nat, evicted : Nat] : Len(g.raw) >= rows}

NewGrid(rows, cols, cap) ==
  [raw |-> [i \in 1 .. rows |-> NewRow(cols)], rows |-> rows, cols |-> cols, cap |-> cap,
   dirty |-> Clean(rows), writes |-> 0, evicted |-> 0]

Scrollback(g) == Less(Len(g.raw), g.rows)
VisibleRow(g, r) == g.raw[Scrollback(g) + r + 1]
Viewport(g) == [r \in 0 .. g.rows - 1 |-> VisibleRow(g, r).cells]

Wrote(g, n) == [g EXCEPT !.writes = @ + n]

\* Mutant: the write is marked and not tallied.
SetRowUntallied(g, r, row) == [MarkRow(g, r) EXCEPT !.raw[Scrollback(g) + r + 1] = row]

\* visible_row_mut_marked and an assignment to the row.
SetRow(g, r, row) == [MarkRow(Wrote(g, 1), r) EXCEPT !.raw[Scrollback(g) + r + 1] = row]
SetCells(g, r, cells) == SetRow(g, r, [VisibleRow(g, r) EXCEPT !.cells = cells])

\* is_blank_canvas: the cheap test that stands for a blank buffer, and
\* is_actually_blank, what it stands for.
IsBlankCanvas(g, rows, cols, cap) ==
  g.writes = 0 /\ g.rows = rows /\ g.cols = cols /\ Len(g.raw) = rows /\ g.cap = cap
IsActuallyBlank(g, cols) == \A i \in DOMAIN g.raw : g.raw[i] = NewRow(cols)

\* reset_blank makes a retired buffer the new one it replaces.
ResetBlank(g, rows, cols, cap) == NewGrid(rows, cols, cap)

\* clone_presented_viewport: the frame without its history.
PresentedViewport(g) ==
  [g EXCEPT !.raw = SubSeq(@, Scrollback(g) + 1, Len(@)), !.cap = g.rows,
            !.evicted = @ + Scrollback(g)]

DropFront(g, n) == [g EXCEPT !.raw = SubSeq(@, n + 1, Len(@)), !.evicted = @ + n]
ClearScrollback(g) == DropFront(g, Scrollback(g))

\* Mutant: takes the inclusive bottom for an end.
MarkScrolledShort(g, top, bottom) ==
  IF top = 0 /\ bottom = g.rows - 1 THEN MarkAll(g) ELSE MarkRows(g, top, bottom)

MarkScrolled(g, top, bottom) ==
  IF top = 0 /\ bottom = g.rows - 1 THEN MarkAll(g) ELSE MarkRows(g, top, bottom + 1)

\* scroll_up_n: off a full-screen region the lines become history, out of
\* any other region they are lost.
ScrollUp(g, regionTop, regionBottom, count) ==
  LET bottom == MinOf(regionBottom, g.rows - 1)
      n == MinOf(count, bottom - regionTop + 1)
      blanks == [i \in 1 .. n |-> NewRow(g.cols)]
      first == Scrollback(g) + regionTop
      last == Scrollback(g) + bottom + 1
      longer == [Wrote(g, n) EXCEPT !.raw = @ \o blanks]
      shuffled == [Wrote(g, n) EXCEPT !.raw =
                    SubSeq(@, 1, first) \o SubSeq(@, first + n + 1, last) \o blanks
                      \o SubSeq(@, last + 1, Len(@))]
  IN  IF regionTop > bottom \/ n = 0 THEN g
      ELSE IF regionTop = 0 /\ bottom = g.rows - 1
      THEN MarkScrolled(DropFront(longer, Less(Len(longer.raw), g.rows + g.cap)), regionTop, bottom)
      ELSE MarkScrolled(shuffled, regionTop, bottom)

ScrollDown(g, regionTop, regionBottom, count) ==
  LET bottom == MinOf(regionBottom, g.rows - 1)
      n == MinOf(count, bottom - regionTop + 1)
      first == Scrollback(g) + regionTop
      last == Scrollback(g) + bottom + 1
  IN  IF regionTop > bottom \/ n = 0 THEN g
      ELSE MarkScrolled([Wrote(g, n) EXCEPT !.raw =
             SubSeq(@, 1, first) \o [i \in 1 .. n |-> NewRow(g.cols)]
               \o SubSeq(@, first + 1, last - n) \o SubSeq(@, last + 1, Len(@))],
             regionTop, bottom)

\* Fill rows first to end - 1 of the viewport: clear_visible, clear_below,
\* clear_above and fill_alignment_pattern.  A filled row is not wrapped.
FillRows(g, first, end, c) ==
  MarkRows([Wrote(g, 1) EXCEPT !.raw =
    [i \in DOMAIN @ |->
      IF i - 1 - Scrollback(g) \in first .. end - 1
      THEN RowOf([k \in ColsOf(@[i]) |-> c]) ELSE @[i]]], first, end)

ClearVisible(g) == FillRows(g, 0, g.rows, Blank)
FillAlignment(g) == FillRows(g, 0, g.rows, "E")
ClearBelow(g, r) == FillRows(g, r, g.rows, Blank)
ClearAbove(g, r) == FillRows(g, 0, r + 1, Blank)

\* Replace the cells of one visible row, marking only a range of it.
EditRow(g, r, cells, lo, hi) ==
  MarkRange([Wrote(g, 1) EXCEPT !.raw[Scrollback(g) + r + 1].cells = cells], r, lo, hi)

EraseChars(g, r, col, count) ==
  LET cells == VisibleRow(g, r).cells
      end0 == MinOf(col + count, g.cols)
      lo == IF col > 0 /\ cells[col] = Tail2 /\ cells[col - 1] \in Wide THEN col - 1 ELSE col
      hi == IF end0 < g.cols /\ cells[end0 - 1] \in Wide /\ cells[end0] = Tail2
            THEN end0 + 1 ELSE end0
  IN  IF col >= end0 THEN Wrote(g, 1)
      ELSE EditRow(g, r, [i \in DOMAIN cells |-> IF i \in lo .. hi - 1 THEN Blank ELSE cells[i]],
                   lo, hi)

InsertChars(g, r, col, count) ==
  LET cells == ClearPair(VisibleRow(g, r).cells, col)
      shifted == [i \in DOMAIN cells |->
                   IF i < col THEN cells[i]
                   ELSE IF i < col + count THEN Blank ELSE cells[i - count]]
  IN  EditRow(g, r, Sanitize(shifted), Less(col, 1), IF count > 0 THEN g.cols ELSE 0)

DeleteChars(g, r, col, count) ==
  LET cells == VisibleRow(g, r).cells
      n == MinOf(count, Less(g.cols, col))
      shifted == [i \in DOMAIN cells |->
                   IF i < col THEN cells[i]
                   ELSE IF i + n < g.cols THEN cells[i + n] ELSE Blank]
  IN  IF n = 0 THEN Wrote(g, 1)
      ELSE EditRow(g, r, Sanitize(shifted), Less(col, 1), g.cols)

(***************************************************************************)
(* Resizing.  The alternate screen is cut or padded (resize_canvas); the   *)
(* primary one is rewrapped (resize_reflowing_columns), and the cursor     *)
(* stays on its character.                                                 *)
(***************************************************************************)

TrailingBlanks(raw) ==
  LET full == {i \in DOMAIN raw : ~IsBlankRow(raw[i])}
  IN  Len(raw) - (IF full = {} THEN 0 ELSE CHOOSE i \in full : \A j \in full : j <= i)

DropBack(raw, n) == SubSeq(raw, 1, Len(raw) - n)
PadTo(raw, n, cols) == raw \o [i \in 1 .. Less(n, Len(raw)) |-> NewRow(cols)]

ResizeCanvas(g, rows, cols) ==
  LET fit(row) == [row EXCEPT !.cells = Sanitize([i \in 0 .. cols - 1 |->
                    IF i \in DOMAIN @ THEN @[i] ELSE Blank])]
      raw == IF cols = g.cols THEN g.raw ELSE [i \in DOMAIN g.raw |-> fit(g.raw[i])]
      kept == DropBack(raw, MinOf(Less(g.rows, rows), TrailingBlanks(raw)))
  IN  [g EXCEPT !.raw = PadTo(kept, rows, cols), !.rows = rows, !.cols = cols,
         !.dirty = IF rows = g.rows /\ cols = g.cols THEN @
                   ELSE [Clean(rows) EXCEPT !.all = TRUE]]

WidthOf(cells) ==
  Cardinality({i \in DOMAIN cells : cells[i] # Tail2}) + Cardinality({i \in DOMAIN cells : cells[i] \in Wide})
CellSeq(row, n) == [i \in 1 .. MinOf(n, Cardinality(ColsOf(row))) |-> row.cells[i - 1]]

\* Mutant: drops the last character as well.
TrimBlanksShort(cells) ==
  LET full == {i \in DOMAIN cells : cells[i] # Blank}
  IN  SubSeq(cells, 1, IF full = {} THEN 0 ELSE (CHOOSE i \in full : \A j \in full : j <= i) - 1)

\* trim_default_trailing_cells
TrimBlanks(cells) ==
  LET full == {i \in DOMAIN cells : cells[i] # Blank}
  IN  SubSeq(cells, 1, IF full = {} THEN 0 ELSE CHOOSE i \in full : \A j \in full : j <= i)

\* The lines the program wrote, soft-wrapped rows joined, and the anchor of
\* the cursor: its line and how many columns of the line are before it.
JoinRow(g, cursor, acc, i) ==
  LET row == g.raw[i]
      cells == CellSeq(row, g.cols)
      line == acc.line \o IF row.wrapped THEN cells ELSE TrimBlanks(cells)
  IN  [lines |-> IF row.wrapped THEN acc.lines ELSE Append(acc.lines, line),
       line |-> IF row.wrapped THEN line ELSE <<>>,
       anchor |-> IF i = Scrollback(g) + cursor.row + 1
                  THEN <<Len(acc.lines) + 1, WidthOf(acc.line) + WidthOf(CellSeq(row, cursor.col))>>
                  ELSE acc.anchor]

JoinedRows(g, cursor) ==
  LET joined[i \in 0 .. Len(g.raw)] ==
        IF i = 0 THEN [lines |-> <<>>, line |-> <<>>, anchor |-> <<1, 0>>]
        ELSE JoinRow(g, cursor, joined[i - 1], i)
  IN  joined

LogicalLines(g, cursor) ==
  LET Flush(all) == [all EXCEPT !.lines = IF all.line = <<>> THEN @ ELSE Append(@, all.line)]
  IN  Flush(JoinedRows(g, cursor)[Len(g.raw)])

\* append_reflowed_line: lay one line out in rows of cols columns.  at is
\* where each character of the line went.
PlaceCell(acc, c, cols) ==
  LET w == MaxOf(Width(c), 1)
      shown == IF w > cols THEN 1 ELSE w
      Put(to) ==
        [to EXCEPT
          !.row.cells = [i \in DOMAIN @ |->
             IF i = to.col THEN IF w > cols THEN Blank ELSE c
             ELSE IF i = to.col + 1 /\ shown = 2 THEN Tail2 ELSE @[i]],
          !.col = @ + shown,
          !.off = @ + w,
          !.at = Append(@, [off |-> to.off, row |-> Len(to.rows), col |-> to.col, w |-> shown])]
  IN  IF c = Tail2 THEN acc
      ELSE IF acc.col + shown <= cols THEN Put(acc)
      ELSE Put([acc EXCEPT !.rows = Append(@, [acc.row EXCEPT !.wrapped = TRUE]),
                           !.row = NewRow(cols), !.col = 0])

PlacedCells(rows, line, cols) ==
  LET placed[i \in 0 .. Len(line)] ==
        IF i = 0 THEN [rows |-> rows, row |-> NewRow(cols), col |-> 0, off |-> 0, at |-> <<>>]
        ELSE PlaceCell(placed[i - 1], line[i], cols)
  IN  placed

Layout(rows, line, cols) ==
  LET Finish(done) ==
        [rows |-> Append(done.rows, done.row), at |-> done.at,
         end |-> <<Len(done.rows), MinOf(done.col, cols - 1)>>]
  IN  Finish(PlacedCells(rows, line, cols)[Len(line)])

\* position_for_offset
PositionOf(laid, offset, width, start) ==
  LET hits == {k \in DOMAIN laid.at :
                 laid.at[k].off <= offset /\ offset < laid.at[k].off + laid.at[k].w}
      p == laid.at[CHOOSE k \in hits : TRUE]
  IN  IF offset >= width THEN laid.end
      ELSE IF hits = {} THEN <<start, 0>>
      ELSE <<p.row, p.col + offset - p.off>>

\* visible_cursor_from_abs
VisibleCursor(g, absRow, col) ==
  [row |-> MinOf(Less(absRow, Scrollback(g)), g.rows - 1), col |-> MinOf(col, g.cols - 1)]

\* Every line laid out anew, and where the cursor's anchor went.
LayLine(split, acc, k, laid) ==
  [rows |-> laid.rows,
   pos |-> IF k = split.anchor[1]
           THEN PositionOf(laid, split.anchor[2], WidthOf(split.lines[k]), Len(acc.rows))
           ELSE acc.pos]

LaidLines(split, cols) ==
  LET Step(acc, k) == LayLine(split, acc, k, Layout(acc.rows, split.lines[k], cols))
      laid[k \in 0 .. Len(split.lines)] ==
        IF k = 0 THEN [rows |-> <<>>, pos |-> <<0, 0>>] ELSE Step(laid[k - 1], k)
  IN  laid

LayLines(split, cols) == LaidLines(split, cols)[Len(split.lines)]

\* Blank rows at the end go before any line of the scrollback does.
KeepRows(g, padded, rows) ==
  LET spare == Less(Len(padded), MinOf(Scrollback(g), g.cap) + rows)
  IN  DropBack(padded, MinOf(spare, TrailingBlanks(padded)))

TakeRows(g, kept, pos, rows, cols) ==
  LET lost == Less(Len(kept), rows + g.cap)
      new == [g EXCEPT !.raw = SubSeq(kept, lost + 1, Len(kept)), !.evicted = @ + lost,
                !.rows = rows, !.cols = cols, !.dirty = [Clean(rows) EXCEPT !.all = TRUE]]
  IN  [grid |-> new, cursor |-> VisibleCursor(new, Less(pos[1], lost), pos[2])]

Reflow(g, rows, cols, cursor) ==
  LET Fill(laid) == TakeRows(g, KeepRows(g, PadTo(laid.rows, rows, cols), rows), laid.pos, rows, cols)
  IN  Fill(LayLines(LogicalLines(g, cursor), cols))

\* resize_with_cursor
ResizeWithCursor(g, rows, cols, cursor) ==
  IF cols # g.cols THEN Reflow(g, rows, cols, cursor)
  ELSE LET new == ResizeCanvas(g, rows, cols)
       IN  [grid |-> new, cursor |-> VisibleCursor(new, Scrollback(g) + cursor.row, cursor.col)]
=============================================================================
