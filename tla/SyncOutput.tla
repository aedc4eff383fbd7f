----------------------------- MODULE SyncOutput -----------------------------
(***************************************************************************)
(* What synchronized output promises the reader of a pane: while a window  *)
(* is open the presented frame stands still, and the history behind it can *)
(* only lose lines at its old end.  The frame moves when the window closes *)
(* and while none is open.                                                 *)
(***************************************************************************)
EXTENDS Sequences, SequencesExt

VARIABLES
  open,      \* a window is open
  frame,     \* what the pane presents
  history    \* the lines behind it, oldest first

\* Any frame may be on show before the first window.
Init == open = FALSE

\* The program draws, the pane is resized, the window closes or times out.
Draw == open' = FALSE

\* A window opens on the frame that is on show.
Begin == ~open /\ open' = TRUE /\ UNCHANGED <<frame, history>>

\* The program draws behind the frame.
Hide == open /\ open' = TRUE /\ UNCHANGED frame /\ IsSuffix(history', history)

Next == Draw \/ Begin \/ Hide
Spec == Init /\ [][Next]_<<open, frame, history>>
=============================================================================
