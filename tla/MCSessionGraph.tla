--------------------------- MODULE MCSessionGraph ---------------------------
(* Two sessions, three windows and four panes for SessionGraph. *)
EXTENDS SessionGraph

CONSTANTS s1, s2, w1, w2, w3, p1, p2, p3, p4

MCSession == {s1, s2}
MCWindow == {w1, w2, w3}
MCPane == {p1, p2, p3, p4}

\* Ids are interchangeable; no liveness is checked with this
Symmetry ==
    Permutations(MCSession) \cup Permutations(MCWindow) \cup Permutations(MCPane)

=============================================================================
