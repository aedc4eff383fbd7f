---------------------------- MODULE MCLayoutTree ----------------------------
(* All layouts of up to four panes, at the clamped and the even ratio. *)
EXTENDS LayoutTree

CONSTANTS p1, p2, p3, p4

MCPane == {p1, p2, p3, p4}
MCRatios == {<<1, 2>>}
MCDeltas == {<<9, 20>>, <<-9, 20>>}

Symmetry == Permutations(MCPane)

=============================================================================
