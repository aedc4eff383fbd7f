---------------------------- MODULE MCPaneInput -----------------------------
(* Two attach clients that paste and type, and a caller whose input is larger *)
(* than the whole budget.                                                    *)
EXTENDS PaneInput

Symmetry == Permutations(Clients)
=============================================================================
