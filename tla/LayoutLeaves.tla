---------------------------- MODULE LayoutLeaves ----------------------------
(***************************************************************************)
(* A layout tree seen as the sequence of its leaves, left to right: what   *)
(* module SessionGraph keeps of a window's layout.  Module LayoutTree      *)
(* checks that the tree operations of crates/shux-core/src/layout.rs act   *)
(* on the leaves as these operators say.                                   *)
(***************************************************************************)
EXTENDS Naturals, Sequences, SequencesExt

\* The position of e in s
PositionOf(s, e) == CHOOSE i \in DOMAIN s : s[i] = e

\* s without e, which occurs at most once (Vec::retain)
Without(s, e) ==
    IF e \in Range(s) THEN RemoveAt(s, PositionOf(s, e)) ELSE s

\* LayoutNode::split_pane: the new leaf q follows the split leaf p
SplitLeaf(leaves, p, q) == InsertAt(leaves, PositionOf(leaves, p) + 1, q)

\* WindowLayout::remove_pane: a tree of one leaf has no tree without it, and
\* the window keeps the tree it has
RemoveLeaf(leaves, p) == IF Len(leaves) > 1 THEN Without(leaves, p) ELSE leaves

\* LayoutNode::swap_panes
SwapLeaves(leaves, a, b) ==
    [i \in DOMAIN leaves |->
        CASE leaves[i] = a -> b [] leaves[i] = b -> a [] OTHER -> leaves[i]]

\* WindowLayout::toggle_zoom: the pane zoomed after toggling p
ToggledZoom(leaves, zoom, p, none) ==
    IF zoom = p \/ p \notin Range(leaves) \/ Len(leaves) < 2 THEN none ELSE p

=============================================================================
