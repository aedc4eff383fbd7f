------------------------------ MODULE Terminal ------------------------------
(***************************************************************************)
(* A pane's virtual terminal (shux-vt): the parser's control functions     *)
(* over two screen buffers, the recycling of a retired alternate screen    *)
(* (screen.rs), synchronized output with its lazily taken frozen frame     *)
(* (sync.rs), and the content revision that waiters and captures go by     *)
(* (lib.rs).                                                               *)
(*                                                                         *)
(* The PTY task feeds the program's output in batches under the pane lock; *)
(* renderers and resizes come between batches.  A control function is one  *)
(* step of a batch.                                                        *)
(***************************************************************************)
EXTENDS Grid

CONSTANTS
  Size,        \* <<rows, cols>> at creation
  Sizes,       \* the sizes a resize may ask for
  Cap,         \* max_scrollback of the primary screen
  Chars,       \* what the program prints
  Counts,      \* the counts it gives to a control function
  None,        \* the value of an absent option
  Inputs,      \* the control functions it sends
  MaxSteps     \* bound: control functions, resizes and redraws in a behaviour

ASSUME SizesAssumption == {Size} \cup Sizes \subseteq (Nat \ {0}) \X (Nat \ {0})
ASSUME CapAssumption == Cap \in Nat
ASSUME CharsAssumption == Chars \subseteq {"x", "W", "r", "zwj"}
ASSUME CountsAssumption == Counts \subseteq Nat \ {0}
ASSUME MaxStepsAssumption == MaxSteps \in Nat
ASSUME NoneAssumption ==
  /\ \A size \in {Size} \cup Sizes :
       LET Sized == Buffers(size[1], size[2])
       IN  None \notin Sized /\ None \notin [grid : Sized, history : Nat, evicted : Nat]
  /\ None \notin [writes : Nat, spot : Nat \X Nat \X BOOLEAN, alt : BOOLEAN, color : {"default", "dark"}]

VARIABLES
  vt,      \* the terminal, a record: see InitVt
  batch,   \* what process_with_responses read before parsing, or None
  drawn,   \* history: the cells the renderer has on its screen
  calm,    \* history: the frame before the last batch that began outside a window
  steps    \* how many steps have been taken

vars == <<vt, batch, drawn, calm, steps>>

HomeCursor == [row |-> 0, col |-> 0, pending |-> FALSE, visible |-> TRUE, saved |-> None]

DefaultModes == [origin |-> FALSE, wrap |-> TRUE, insert |-> FALSE, newline |-> FALSE, alt |-> FALSE]

InitVt ==
  [grid |-> NewGrid(Size[1], Size[2], Cap),
   cursor |-> HomeCursor,
   stash |-> None,         \* the buffer that is not live, and its cursor
   stashCursor |-> None,
   spare |-> None,         \* a retired alternate screen
   modes |-> DefaultModes,
   top |-> 0,              \* the scroll region
   bottom |-> Size[1] - 1,
   active |-> None,        \* the cell that joins take place in
   color |-> "default",    \* the dynamic default colours
   armed |-> FALSE,        \* a synchronized-output window is open
   frozenGrid |-> None, frozenCursor |-> None, frozenColor |-> None, frozenAlt |-> None,
   flooded |-> FALSE,      \* the window has absorbed SYNC_UPDATE_MAX_BYTES
   hidden |-> FALSE,       \* sync_hidden_class_a
   revision |-> 1]

(***************************************************************************)
(* The presented frame.  A write to a presented component takes the        *)
(* component's snapshot first (sync::Presented).                           *)
(***************************************************************************)

Snapshot(g) == [grid |-> PresentedViewport(g), history |-> Scrollback(g), evicted |-> g.evicted]

\* Mutant: the snapshot is taken after the write.
PutGridLate(t, g) ==
  [t EXCEPT !.grid = g,
            !.frozenGrid = IF t.armed /\ @ = None THEN Snapshot(g) ELSE @]

PutGrid(t, g) ==
  [t EXCEPT !.grid = g,
            !.frozenGrid = IF t.armed /\ @ = None THEN Snapshot(t.grid) ELSE @]

PutCursor(t, c) ==
  [t EXCEPT !.cursor = c,
            !.frozenCursor = IF t.armed /\ @ = None THEN t.cursor ELSE @]

PutColor(t, c) ==
  [t EXCEPT !.color = c,
            !.frozenColor = IF t.armed /\ @ = None THEN t.color ELSE @]

\* set_alternate_screen, the only writer of the flag
PutAlt(t, on) ==
  [t EXCEPT !.modes.alt = on,
            !.frozenAlt = IF t.armed /\ @ = None THEN t.modes.alt ELSE @]

\* grid(), cursor(), default_colors(), is_alternate_screen()
ShownGrid(t) == IF t.frozenGrid = None THEN t.grid ELSE t.frozenGrid.grid
ShownCursor(t) == IF t.frozenCursor = None THEN t.cursor ELSE t.frozenCursor
ShownColor(t) == IF t.frozenColor = None THEN t.color ELSE t.frozenColor
ShownAlt(t) == IF t.frozenAlt = None THEN t.modes.alt ELSE t.frozenAlt

CursorSpot(c) == <<c.row, c.col, c.visible>>

Frame(t) == [cells |-> Viewport(ShownGrid(t)), cursor |-> CursorSpot(ShownCursor(t)),
             color |-> ShownColor(t), alt |-> ShownAlt(t)]

\* presented_history_grid, presented_history_len and the history part of
\* presented_row
HistoryGrid(t) ==
  IF t.frozenAlt # None /\ t.frozenAlt # t.modes.alt /\ t.stash # None THEN t.stash ELSE t.grid

ShownHistory(t) ==
  IF t.frozenGrid = None THEN SubSeq(t.grid.raw, 1, Scrollback(t.grid))
  ELSE LET g == HistoryGrid(t)
           n == Less(t.frozenGrid.history, Less(g.evicted, t.frozenGrid.evicted))
       IN  [i \in 1 .. n |-> IF i \in DOMAIN g.raw THEN g.raw[i] ELSE None]

\* release_sync_presentation: disarm, then drop every snapshot.
ReleaseSync(t) ==
  [t EXCEPT !.armed = FALSE, !.frozenGrid = None, !.frozenCursor = None,
            !.frozenColor = None, !.frozenAlt = None]

\* force_release_sync, and ?2026l
ForceRelease(t) == [ReleaseSync(t) EXCEPT !.grid = MarkAll(@), !.flooded = FALSE]

\* record_class_a_batch
RecordBatch(t) == [t EXCEPT !.revision = @ + 1]

(***************************************************************************)
(* Cursor and lines                                                        *)
(***************************************************************************)

LastRow(t) == t.grid.rows - 1
LastCol(t) == t.grid.cols - 1

MoveTo(t, row, col) == PutCursor(t, [t.cursor EXCEPT !.row = row, !.col = col, !.pending = FALSE])

OriginTop(t) == IF t.modes.origin THEN MinOf(t.top, LastRow(t)) ELSE 0
OriginBottom(t) == IF t.modes.origin THEN MinOf(t.bottom, LastRow(t)) ELSE LastRow(t)
AddressedRow(t, n) == MinOf(MinOf(OriginTop(t) + n - 1, MaxOf(OriginBottom(t), OriginTop(t))), LastRow(t))

\* upward_vertical_top and downward_vertical_bottom
UpwardTop(t) == IF t.top <= t.bottom /\ t.cursor.row >= t.top THEN t.top ELSE 0
DownwardBottom(t) == IF t.top <= t.bottom /\ t.cursor.row <= t.bottom THEN t.bottom ELSE LastRow(t)

ScrollRegionUp(t, n) == PutGrid(t, ScrollUp(t.grid, t.top, t.bottom, n))
ScrollRegionDown(t, n) == PutGrid(t, ScrollDown(t.grid, t.top, t.bottom, n))

\* linefeed and reverse_index
Linefeed(t) ==
  LET moved == IF t.cursor.row = t.bottom THEN ScrollRegionUp(t, 1) ELSE t
      row == IF t.cursor.row # t.bottom /\ t.cursor.row < LastRow(t)
             THEN t.cursor.row + 1 ELSE t.cursor.row
  IN  MoveTo(moved, row, IF t.modes.newline THEN 0 ELSE t.cursor.col)

ReverseIndex(t) ==
  IF t.cursor.row = t.top THEN MoveTo(ScrollRegionDown(t, 1), t.cursor.row, t.cursor.col)
  ELSE MoveTo(t, Less(t.cursor.row, 1), t.cursor.col)

\* save_cursor_state, restore_cursor_state and the clamp after it
SaveCursor(t) ==
  PutCursor(t, [t.cursor EXCEPT !.saved =
    [row |-> t.cursor.row, col |-> t.cursor.col, pending |-> t.cursor.pending,
     origin |-> t.modes.origin]])

RestoreCursor(t) ==
  LET s == t.cursor.saved
      row == MinOf(s.row, LastRow(t))
      col == MinOf(s.col, LastCol(t))
      pending == s.pending /\ row = s.row /\ col = s.col
  IN  IF s = None THEN PutCursor(t, t.cursor)
      ELSE [PutCursor(t, [t.cursor EXCEPT !.row = row, !.col = col, !.pending = pending])
             EXCEPT !.modes.origin = s.origin]

(***************************************************************************)
(* Printing (write_char)                                                   *)
(***************************************************************************)

\* wrap_to_next_line
WrapLine(t) ==
  LET row == VisibleRow(t.grid, t.cursor.row)
      cut == PutGrid(t, SetRow(t.grid, t.cursor.row, [row EXCEPT !.wrapped = TRUE]))
      moved == IF t.cursor.row = t.bottom THEN ScrollRegionUp(cut, 1) ELSE cut
      down == t.cursor.row # t.bottom /\ t.cursor.row < LastRow(t)
  IN  [MoveTo(moved, IF down THEN t.cursor.row + 1 ELSE t.cursor.row, 0) EXCEPT !.active = None]

\* active_grapheme_position: the cell that still accepts a scalar.
ActiveCell(t) ==
  IF t.active = None THEN Blank ELSE VisibleRow(t.grid, t.active[1]).cells[t.active[2]]

\* preceding_cell_position: where a combining scalar goes when no cell is active.
PrecedingCol(t) ==
  LET c == IF t.cursor.pending THEN t.cursor.col ELSE t.cursor.col - 1
      cells == VisibleRow(t.grid, t.cursor.row).cells
  IN  IF c >= 0 /\ cells[c] = Tail2 THEN c - 1 ELSE c

\* append_zero_width_scalar, for a joiner
AppendJoiner(t) ==
  LET live == ActiveCell(t) \notin {Blank, Tail2}
      pos == IF live THEN t.active ELSE <<t.cursor.row, PrecedingCol(t)>>
      cells == VisibleRow(t.grid, pos[1]).cells
      joined == IF Width(cells[pos[2]]) = 2 THEN "Z" ELSE "z"
  IN  IF pos[2] < 0 THEN t
      ELSE IF cells[pos[2]] \in {Blank, Tail2} THEN t
      ELSE [PutGrid(t, SetCells(t.grid, pos[1], [cells EXCEPT ![pos[2]] = joined]))
             EXCEPT !.active = pos]

\* try_append_to_active_grapheme and try_append_regional_indicator_pair:
\* the character joins the active cell, which may become two columns wide.
JoinWidth(t, c) ==
  IF c = "r" /\ ActiveCell(t) = "r" THEN 2 ELSE MaxOf(Width(ActiveCell(t)), Width(c))

Joins(t, c) ==
  /\ ActiveCell(t) \in {"z", "Z"} \/ (c = "r" /\ ActiveCell(t) = "r")
  /\ JoinWidth(t, c) = 1 \/ t.active[2] < LastCol(t)

Join(t, c) ==
  LET row == t.active[1]
      col == t.active[2]
      w == JoinWidth(t, c)
      cells == VisibleRow(t.grid, row).cells
      freed == IF w = 2 /\ cells[col + 1] # Tail2 THEN ClearPair(cells, col + 1) ELSE cells
      wide == [i \in DOMAIN cells |->
                IF i = col THEN IF w = 2 THEN "W" ELSE "x"
                ELSE IF i = col + 1 /\ w = 2 THEN Tail2 ELSE freed[i]]
      next == col + w
      pair == c = "r" /\ ActiveCell(t) = "r"
      at == [t.cursor EXCEPT
              !.col = IF next > LastCol(t) THEN LastCol(t) ELSE IF pair THEN next ELSE MaxOf(@, next),
              !.pending = IF next > LastCol(t) THEN TRUE ELSE IF pair THEN FALSE ELSE @]
  IN  PutCursor(PutGrid(t, SetCells(t.grid, row, wide)), at)

\* A character too wide for where it stands blanks its cell.
BlankHere(t) ==
  LET r == t.cursor.row
      cells == ClearPair(VisibleRow(t.grid, r).cells, t.cursor.col)
  IN  PutGrid(t, SetCells(t.grid, r, [cells EXCEPT ![t.cursor.col] = Blank]))

\* The end of write_char: insert mode, the cell, the advance.
PutChar(t, c) ==
  LET w == Width(c)
      r == t.cursor.row
      col == t.cursor.col
      g == IF t.modes.insert THEN InsertChars(t.grid, r, col, w) ELSE t.grid
      one == ClearPair(VisibleRow(g, r).cells, col)
      both == IF w = 2 THEN ClearPair(one, col + 1) ELSE one
      cells == [i \in DOMAIN both |->
                 IF i = col THEN c ELSE IF i = col + 1 /\ w = 2 THEN Tail2 ELSE both[i]]
      full == col + w > LastCol(t)
  IN  [PutCursor(PutGrid(t, SetCells(g, r, cells)),
                 [t.cursor EXCEPT !.col = IF full THEN LastCol(t) ELSE col + w,
                                  !.pending = IF full THEN TRUE ELSE @])
        EXCEPT !.active = <<r, col>>]

NotPending(t) == PutCursor(t, [t.cursor EXCEPT !.pending = FALSE])
Inactive(t) == [t EXCEPT !.active = None]

\* At the last column a wide character wraps first, or finds no room.
WriteHere(t, c) ==
  LET edge == Width(c) = 2 /\ t.cursor.col = LastCol(t)
      stuck == Width(c) = 2 /\ (t.grid.cols < 2 \/ (edge /\ ~t.modes.wrap))
  IN  IF stuck THEN Inactive(NotPending(BlankHere(t)))
      ELSE PutChar(IF edge THEN WrapLine(BlankHere(t)) ELSE t, c)

WriteFresh(t, c) ==
  WriteHere(IF ~t.cursor.pending THEN t
            ELSE IF t.modes.wrap THEN WrapLine(t) ELSE MoveTo(t, t.cursor.row, LastCol(t)), c)

WriteChar(t, c) ==
  IF c = "zwj" THEN AppendJoiner(t)
  ELSE IF Joins(t, c) THEN Join(t, c)
  ELSE WriteFresh(t, c)

\* A cluster of MAX_GRAPHEME_SCALARS refuses the character: its row is marked,
\* and the character has a cell of its own.
WriteAfterFull(t, c) ==
  LET row == t.active[1]
  IN  WriteFresh(PutGrid(t, SetCells(t.grid, row, VisibleRow(t.grid, row).cells)), c)

(***************************************************************************)
(* The two screens (screen.rs ScreenSwap, set_private_mode 47/1047/1049)   *)
(***************************************************************************)

\* The alternate buffer: the retired one if it is still blank, the retired
\* one wiped, or a new one.
AltGrid(t) ==
  LET rows == t.grid.rows
      cols == t.grid.cols
  IN  MarkAll(IF t.spare = None THEN NewGrid(rows, cols, 0)
              ELSE IF IsBlankCanvas(t.spare, rows, cols, 0) THEN t.spare
              ELSE ResetBlank(t.spare, rows, cols, 0))

Enter(t, park) ==
  LET cursor == IF park THEN [HomeCursor EXCEPT !.saved = t.cursor.saved] ELSE t.cursor
  IN  [PutCursor(PutGrid(t, AltGrid(t)), cursor)
        EXCEPT !.stash = t.grid, !.spare = None,
               !.stashCursor = IF park THEN t.cursor ELSE None]

Leave(t, restore) ==
  LET cursor == IF restore /\ t.stashCursor # None THEN t.stashCursor ELSE t.cursor
  IN  [PutCursor(PutGrid(t, MarkAll(t.stash)), cursor)
        EXCEPT !.stash = None, !.spare = t.grid, !.stashCursor = None]

\* ?1049h saves the cursor and clears even when the screen is already live.
Open1049(t) ==
  LET s == SaveCursor(t)
  IN  IF t.modes.alt
      THEN PutCursor(PutGrid(s, ClearVisible(s.grid)), [HomeCursor EXCEPT !.saved = s.cursor.saved])
      ELSE PutAlt(Enter(s, TRUE), TRUE)

Close1049(t) == RestoreCursor(IF t.modes.alt THEN PutAlt(Leave(t, TRUE), FALSE) ELSE t)

Open1047(t) == IF t.modes.alt THEN t ELSE PutAlt(Enter(t, FALSE), TRUE)
Close1047(t) == IF t.modes.alt THEN PutAlt(Leave(t, FALSE), FALSE) ELSE t

\* ?2026h marks the live buffer before it arms, so that takes no copy.
OpenSync(t) == IF t.armed THEN t ELSE [t EXCEPT !.grid = MarkAll(@), !.armed = TRUE]
CloseSync(t) == [ReleaseSync(t) EXCEPT !.grid = MarkAll(@)]

\* RIS: the window closes first, then the primary screen comes back.
FullReset(t0) ==
  LET t == ReleaseSync(t0)
      p == IF t.modes.alt THEN Leave(t, FALSE) ELSE t
  IN  [p EXCEPT !.grid = MarkAll(ClearScrollback(ClearVisible(@))), !.cursor = HomeCursor,
                !.modes = DefaultModes, !.color = "default",
                !.top = 0, !.bottom = LastRow(p)]

(***************************************************************************)
(* Control functions.  All of them but printing end the cluster that       *)
(* accepts joins.                                                          *)
(***************************************************************************)

Feed(name, t) ==
  /\ batch # None /\ name \in Inputs /\ steps < MaxSteps
  /\ vt' = t
  /\ steps' = steps + 1
  /\ calm' = [calm EXCEPT !.swapped = @ \/ t.modes.alt # vt.modes.alt]
  /\ UNCHANGED <<batch, drawn>>

Now == Inactive(vt)
Row == vt.cursor.row
Col == vt.cursor.col

\* How long a cluster is is left open: one that ends in a joiner may be full.
PrintChar ==
  \/ \E c \in Chars : Feed("print", WriteChar(vt, c))
  \/ \E c \in Chars \ {"zwj"} :
       /\ ActiveCell(vt) \in {"z", "Z"} /\ Joins(vt, c)
       /\ Feed("print", WriteAfterFull(vt, c))

Backspace == Feed("BS", IF Col > 0 THEN MoveTo(Now, Row, Col - 1) ELSE Now)
LineFeed == Feed("LF", Linefeed(Now))                      \* also IND
CarriageReturn == Feed("CR", MoveTo(Now, Row, 0))
NextLine == Feed("NEL", Linefeed(MoveTo(Now, Row, 0)))
ReverseLine == Feed("RI", ReverseIndex(Now))

CursorUp == \E n \in Counts : Feed("CUU", MoveTo(Now, MaxOf(Less(Row, n), UpwardTop(vt)), Col))
CursorDown == \E n \in Counts : Feed("CUD", MoveTo(Now, MinOf(Row + n, DownwardBottom(vt)), Col))
CursorForward == \E n \in Counts : Feed("CUF", MoveTo(Now, Row, MinOf(Col + n, LastCol(vt))))
CursorBack == \E n \in Counts : Feed("CUB", MoveTo(Now, Row, Less(Col, n)))
CursorNextLine == \E n \in Counts : Feed("CNL", MoveTo(Now, MinOf(Row + n, DownwardBottom(vt)), 0))
CursorPrevLine == \E n \in Counts : Feed("CPL", MoveTo(Now, MaxOf(Less(Row, n), UpwardTop(vt)), 0))
CursorColumn == \E n \in Counts : Feed("CHA", MoveTo(Now, Row, MinOf(n - 1, LastCol(vt))))
CursorRow == \E n \in Counts : Feed("VPA", MoveTo(Now, AddressedRow(vt, n), Col))
CursorPosition ==
  \E n, m \in Counts : Feed("CUP", MoveTo(Now, AddressedRow(vt, n), MinOf(m - 1, LastCol(vt))))

EraseDisplay ==
  LET g == vt.grid
      tail == EraseChars(g, Row, Col, g.cols - Col)
      above == IF Row > 0 THEN ClearAbove(g, Row - 1) ELSE g
  IN  \/ Feed("ED0", PutGrid(Now, IF Row < LastRow(vt) THEN ClearBelow(tail, Row + 1) ELSE tail))
      \/ Feed("ED1", PutGrid(Now, EraseChars(above, Row, 0, Col + 1)))
      \/ Feed("ED2", PutGrid(Now, ClearVisible(g)))
      \/ Feed("ED3", PutGrid(Now, ClearScrollback(ClearVisible(g))))

EraseLine ==
  \/ Feed("EL0", PutGrid(Now, EraseChars(vt.grid, Row, Col, vt.grid.cols - Col)))
  \/ Feed("EL1", PutGrid(Now, EraseChars(vt.grid, Row, 0, Col + 1)))
  \/ Feed("EL2", PutGrid(Now, EraseChars(vt.grid, Row, 0, vt.grid.cols)))

\* IL and DL do nothing when the cursor is outside the scroll region.
InRegion == vt.top <= Row /\ Row <= vt.bottom
InsertLines ==
  \E n \in Counts :
    Feed("IL", IF InRegion THEN PutGrid(Now, ScrollDown(vt.grid, Row, vt.bottom, n)) ELSE Now)
DeleteLines ==
  \E n \in Counts :
    Feed("DL", IF InRegion THEN PutGrid(Now, ScrollUp(vt.grid, Row, vt.bottom, n)) ELSE Now)
PanDown == \E n \in Counts : Feed("SU", ScrollRegionUp(Now, n))
PanUp == \E n \in Counts : Feed("SD", ScrollRegionDown(Now, n))

InsertCharacters == \E n \in Counts : Feed("ICH", PutGrid(Now, InsertChars(vt.grid, Row, Col, n)))
DeleteCharacters == \E n \in Counts : Feed("DCH", PutGrid(Now, DeleteChars(vt.grid, Row, Col, n)))
EraseCharacters == \E n \in Counts : Feed("ECH", PutGrid(Now, EraseChars(vt.grid, Row, Col, n)))

\* DECSTBM
SetRegion ==
  \E n, m \in Counts :
    LET bottom == MinOf(m - 1, LastRow(vt))
        set == [Now EXCEPT !.top = n - 1, !.bottom = bottom]
    IN  Feed("DECSTBM", IF n - 1 < bottom THEN MoveTo(set, OriginTop(set), 0) ELSE Now)

\* SM and RM
StandardMode(on) ==
  \/ Feed("IRM", [Now EXCEPT !.modes.insert = on])
  \/ Feed("LNM", [Now EXCEPT !.modes.newline = on])

\* DECSET and DECRST
PrivateMode(on) ==
  \/ Feed("DECAWM", [Now EXCEPT !.modes.wrap = on])
  \/ LET set == [Now EXCEPT !.modes.origin = on]
     IN  Feed("DECOM", MoveTo(set, OriginTop(set), 0))
  \/ Feed("DECTCEM", PutCursor(Now, [vt.cursor EXCEPT !.visible = on]))

SetMode == \E on \in BOOLEAN : StandardMode(on) \/ PrivateMode(on)

\* DECSC and DECRC, SCOSC and SCORC, ?1048
KeepCursor == Feed("DECSC", SaveCursor(Now)) \/ Feed("DECRC", RestoreCursor(Now))

SwapScreens ==
  \/ Feed("1049", Open1049(Now)) \/ Feed("1049", Close1049(Now))
  \/ Feed("1047", Open1047(Now)) \/ Feed("1047", Close1047(Now))

Synchronize == Feed("2026", OpenSync(Now)) \/ Feed("2026", CloseSync(Now))

\* DECALN
Align == Feed("DECALN", MoveTo([PutGrid(Now, FillAlignment(vt.grid)) EXCEPT
                                 !.top = 0, !.bottom = LastRow(vt)], 0, 0))

\* OSC 10, 11, 12 and their resets: another colour repaints the screen.  A
\* reset writes whether or not a colour is set.
DynamicColor ==
  \E c \in {"default", "dark"} :
    Feed("OSC", IF c # vt.color THEN PutGrid(PutColor(vt, c), MarkAll(vt.grid))
                ELSE IF c = "default" THEN PutColor(vt, c) ELSE vt)

Reset == Feed("RIS", FullReset(Now))

(***************************************************************************)
(* Batches (process_with_responses)                                        *)
(***************************************************************************)

Calm(t) == [frame |-> Frame(t), revision |-> t.revision, swapped |-> FALSE]

Init ==
  /\ vt = InitVt
  /\ batch = None
  /\ drawn = Viewport(InitVt.grid)
  /\ calm = Calm(InitVt)
  /\ steps = 0

\* A window that has absorbed too much is released before the batch lands;
\* what the revision is decided from is read after that.
BeginBatch ==
  /\ batch = None /\ steps < MaxSteps
  /\ LET t == IF vt.armed /\ vt.flooded THEN ForceRelease(vt) ELSE vt
     IN  /\ vt' = t
         /\ batch' = [writes |-> t.grid.writes, spot |-> CursorSpot(t.cursor), alt |-> t.modes.alt,
                      color |-> ShownColor(t)]
  /\ calm' = IF vt.armed THEN calm ELSE Calm(vt)
  /\ UNCHANGED <<drawn, steps>>

ColorsChanged == ShownColor(vt) # batch.color
OtherChanged ==
  \/ vt.modes.alt # batch.alt
  \/ CursorSpot(vt.cursor) # batch.spot
  \/ vt.modes.alt = batch.alt /\ vt.grid.writes # batch.writes

\* Mutant: the end of a window forgets what changed inside it.
RevisedForgetting ==
  IF vt.armed
  THEN [(IF ColorsChanged THEN RecordBatch(vt) ELSE vt) EXCEPT !.hidden = @ \/ OtherChanged]
  ELSE IF ColorsChanged \/ OtherChanged
  THEN [RecordBatch(vt) EXCEPT !.hidden = FALSE]
  ELSE vt

\* While a window is open all but a change of the presented colours waits
\* for its end.
Revised ==
  IF vt.armed
  THEN [(IF ColorsChanged THEN RecordBatch(vt) ELSE vt) EXCEPT !.hidden = @ \/ OtherChanged]
  ELSE IF vt.hidden \/ ColorsChanged \/ OtherChanged
  THEN [RecordBatch(vt) EXCEPT !.hidden = FALSE]
  ELSE vt

EndBatch ==
  /\ batch # None
  /\ \E full \in {vt.flooded, "flood" \in Inputs} :
       vt' = [Revised EXCEPT !.flooded = vt.armed /\ (@ \/ full)]
  /\ batch' = None
  /\ UNCHANGED <<drawn, calm, steps>>

\* release_expired_sync: the pane task found the window too old, with none
\* of the pane's output pending.
Expire ==
  /\ batch = None /\ vt.armed
  /\ LET classA == \/ vt.hidden \/ vt.frozenGrid # None \/ vt.frozenCursor # None
                   \/ vt.frozenColor # None \/ vt.frozenAlt # None
         t == [ForceRelease(vt) EXCEPT !.hidden = FALSE]
     IN  vt' = IF classA THEN RecordBatch(t) ELSE t
  /\ UNCHANGED <<batch, drawn, calm, steps>>

(***************************************************************************)
(* Between batches                                                         *)
(***************************************************************************)

ClampCursor(c, rows, cols) ==
  LET Fit(p) == [p EXCEPT !.row = MinOf(@, rows - 1), !.col = MinOf(@, cols - 1), !.pending = FALSE]
  IN  [Fit(c) EXCEPT !.saved = IF @ = None THEN None ELSE Fit(@)]

\* The live and the parked buffer take the new size, each its own way.
ResizeScreens(t, rows, cols) ==
  LET parked == IF t.stashCursor = None THEN [row |-> 0, col |-> 0] ELSE t.stashCursor
      Live(new) ==
        [t EXCEPT !.grid = new.grid, !.cursor.row = new.cursor.row, !.cursor.col = new.cursor.col]
      Parked(new) ==
        [t EXCEPT !.grid = ResizeCanvas(@, rows, cols), !.stash = new.grid,
           !.stashCursor = IF @ = None THEN None
                           ELSE [@ EXCEPT !.row = new.cursor.row, !.col = new.cursor.col]]
  IN  IF t.modes.alt THEN Parked(ResizeWithCursor(t.stash, rows, cols, parked))
      ELSE Live(ResizeWithCursor(t.grid, rows, cols, t.cursor))

Resized(t, rows, cols) ==
  LET changed == rows # t.grid.rows \/ cols # t.grid.cols
      open == IF changed /\ t.armed THEN [ForceRelease(t) EXCEPT !.hidden = FALSE] ELSE t
      Clamp(new) == [new EXCEPT !.top = 0, !.bottom = rows - 1,
                      !.cursor = ClampCursor(@, rows, cols),
                      !.stashCursor = IF @ = None THEN None ELSE ClampCursor(@, rows, cols),
                      !.frozenCursor = IF @ = None THEN None ELSE ClampCursor(@, rows, cols)]
      Count(new) == IF changed THEN RecordBatch(new) ELSE new
  IN  Count(Clamp(ResizeScreens([open EXCEPT !.active = None, !.spare = IF changed THEN None ELSE @],
                                rows, cols)))

Resize ==
  /\ batch = None /\ "resize" \in Inputs /\ steps < MaxSteps
  /\ \E size \in Sizes : vt' = Resized(vt, size[1], size[2])
  /\ steps' = steps + 1
  /\ UNCHANGED <<batch, drawn, calm>>

\* A renderer takes the dirty regions of the presented buffer and draws them.
Redraw ==
  /\ batch = None
  /\ vt' = IF vt.frozenGrid = None THEN [vt EXCEPT !.grid = TakeDirty(@)]
           ELSE [vt EXCEPT !.frozenGrid.grid = TakeDirty(@)]
  /\ drawn' = Viewport(ShownGrid(vt))
  /\ UNCHANGED <<batch, calm, steps>>

Control ==
  \/ PrintChar \/ Backspace \/ LineFeed \/ CarriageReturn \/ NextLine \/ ReverseLine
  \/ CursorUp \/ CursorDown \/ CursorForward \/ CursorBack \/ CursorNextLine \/ CursorPrevLine
  \/ CursorColumn \/ CursorRow \/ CursorPosition
  \/ EraseDisplay \/ EraseLine \/ InsertLines \/ DeleteLines \/ PanDown \/ PanUp
  \/ InsertCharacters \/ DeleteCharacters \/ EraseCharacters
  \/ SetRegion \/ SetMode \/ KeepCursor \/ SwapScreens \/ Synchronize
  \/ Align \/ DynamicColor \/ Reset

Next == Control \/ BeginBatch \/ EndBatch \/ Expire \/ Resize \/ Redraw

Spec == Init /\ [][Next]_vars

(***************************************************************************)
(* Properties                                                              *)
(***************************************************************************)

LiveGrids == {vt.grid} \cup ({vt.stash} \ {None})
Grids == LiveGrids \cup (IF vt.frozenGrid = None THEN {} ELSE {vt.frozenGrid.grid})

\* Every buffer keeps its shape, and the cursors,
\* the scroll region and the joining cell stay on the screen: what indexing
\* a row in parser.rs and grid.rs relies on, after any mix of resizes, swaps
\* and control functions.
TypeOK ==
  /\ \A g \in Grids :
       /\ g.rows = vt.grid.rows /\ g.cols = vt.grid.cols
       /\ Len(g.raw) >= g.rows
       /\ \A i \in DOMAIN g.raw : g.raw[i].cells \in [0 .. g.cols - 1 -> Cells]
  /\ \A c \in {vt.cursor, ShownCursor(vt)} \cup ({vt.stashCursor} \ {None}) :
       c.row \in 0 .. LastRow(vt) /\ c.col \in 0 .. LastCol(vt)
  /\ 0 <= vt.top /\ vt.top <= vt.bottom /\ vt.bottom <= LastRow(vt)
  /\ vt.active = None \/ (vt.active[1] \in 0 .. LastRow(vt) /\ vt.active[2] \in 0 .. LastCol(vt))
  /\ vt.modes.alt <=> vt.stash # None

\* No line of any buffer shows half of a two-column character: every left
\* half has its right half and every right half its left one, whatever
\* writes, joins, insertions, erasures and resizes cut through it
\* (Row::clear_wide_pair_around, sanitize_wide_pairs).
WidePairs == \A g \in Grids : \A i \in DOMAIN g.raw : Paired(g.raw[i].cells)

\* A renderer that draws only the dirty regions ends up with the presented
\* frame: every cell that differs from what it has drawn is dirty, across
\* scrolls, windows and resizes (take_dirty_regions).
DirtyCovers ==
  LET g == ShownGrid(vt)
      shown == Viewport(g)
  IN  \/ g.dirty.all
      \/ /\ DOMAIN drawn = DOMAIN shown
         /\ \A r \in DOMAIN shown :
              /\ DOMAIN drawn[r] = DOMAIN shown[r]
              /\ \A c \in DOMAIN shown[r] : shown[r][c] # drawn[r][c] => IsDirtyCell(g, r, c)

\* The write tally of a retired alternate screen may stand for its text: one
\* that passes is_blank_canvas is blank (the debug_assert of
\* ScreenSwap::enter), so no program sees what another one left there.
SpareBlank ==
  vt.spare # None /\ IsBlankCanvas(vt.spare, vt.grid.rows, vt.grid.cols, 0)
    => IsActuallyBlank(vt.spare, vt.grid.cols)

Rest == batch = None /\ ~vt.armed
NoColor(f) == [cells |-> f.cells, cursor |-> f.cursor, alt |-> f.alt]

\* Outside a window the content revision stands for the frame: while it has not
\* moved on since the last batch began, or since the window that batch fell in
\* opened, the same screen is on show, though changes inside a window are
\* counted only when it closes, times out or overflows (LENS-R-001), and unless
\* the screens were swapped and swapped back it shows the same.  Colours are
\* left out.
RevisionCovers ==
  Rest /\ ~(vt.revision > calm.revision) =>
    /\ Frame(vt).alt = calm.frame.alt
    /\ calm.swapped \/ NoColor(Frame(vt)) = NoColor(calm.frame)

\* The text of a buffer: its characters in order, without blanks.
TextOf(g) ==
  LET rows == [i \in DOMAIN g.raw |-> SelectSeq(CellSeq(g.raw[i], g.cols), LAMBDA c : c \notin {Blank, Tail2})]
  IN  FlattenSeq(rows)

\* Rewrapping the primary screen neither drops, doubles nor reorders text:
\* unless a line fell off the scrollback, every character is there after the
\* resize, in its place in the stream.  (One column has no room for a wide
\* character.)
ResizeKeepsText ==
  [][vt'.grid.cols # vt.grid.cols /\ ~vt.modes.alt /\ vt'.grid.evicted = vt.grid.evicted
      /\ vt'.grid.cols > 1
     => TextOf(vt'.grid) = TextOf(vt.grid)]_vars

\* The terminal keeps the promise of synchronized output: the frame shown
\* stands still while a window is open, though the components freeze one by
\* one and only when first written to.  The history counts for the primary
\* screen.
Presented ==
  INSTANCE SyncOutput WITH open <- vt.armed, frame <- Frame(vt),
    history <- IF ShownAlt(vt) THEN <<>> ELSE ShownHistory(vt)
HoldsFrame == Presented!Spec
=============================================================================
