---------------------------- MODULE MCPaneWaits ----------------------------
(* Rings of one and two events, so that each of them forgets; a terminal   *)
(* that remembers one command; screens that are still by each criterion.   *)
EXTENDS PaneWaits

Asked(q, h, f, t) == [quiet |-> q, hold |-> h, frames |-> f, timeout |-> t]

\* Quiet with a deadline that may coincide, then a hold, a run, and both
MCAsks == {Asked(2, 0, 1, 2), Asked(1, 0, 1, 2), Asked(1, 2, 1, 3), Asked(1, 0, 3, 3),
           Asked(1, 1, 2, 3)}

=============================================================================
