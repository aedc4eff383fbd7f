----------------------------- MODULE LayoutTree -----------------------------
(***************************************************************************)
(* The layout tree of one window (crates/shux-core/src/layout.rs) under    *)
(* the operations the session graph applies to it.  A ratio is an exact    *)
(* fraction <<n, d>> in place of an f32, a split direction is              *)
(* "Horizontal" or "Vertical".                                             *)
(***************************************************************************)
EXTENDS Integers, LayoutLeaves

CONSTANTS
    Pane,       \* pane ids
    None,       \* Option::None
    Ratios,     \* ratios a split may ask for
    Deltas,     \* deltas a resize may ask for
    Widths, Heights     \* viewport sizes that are tried

VARIABLES
    tree,       \* WindowLayout::tree
    zoom,       \* WindowLayout::zoom: None or [saved, pane]
    leaves      \* the leaves according to module LayoutLeaves

vars == <<tree, zoom, leaves>>

Direction == {"Horizontal", "Vertical"}
SEPARATOR_SIZE == 1

-----------------------------------------------------------------------------
(* Ratios                                                                  *)

Less(r, s) == r[1] * s[2] < s[1] * r[2]
MIN_RATIO == <<1, 20>>
MAX_RATIO == <<19, 20>>

ClampRatio(r) ==
    CASE Less(r, MIN_RATIO) -> MIN_RATIO [] Less(MAX_RATIO, r) -> MAX_RATIO [] OTHER -> r

RECURSIVE Gcd(_, _)
Gcd(m, n) == IF n = 0 THEN m ELSE Gcd(n, m % n)

\* r + s in lowest terms; a sum below zero is zero here and is clamped later
Plus(r, s) ==
    LET n == r[1] * s[2] + s[1] * r[2]
        d == r[2] * s[2]
        g == IF n > 0 THEN Gcd(d, n) ELSE 1
    IN  IF n > 0 THEN <<n \div g, d \div g>> ELSE <<0, 1>>
Minus(r, s) == Plus(r, <<-s[1], s[2]>>)

\* (total as f32 * ratio).round()
Share(total, r) == (2 * total * r[1] + r[2]) \div (2 * r[2])

-----------------------------------------------------------------------------
(* LayoutNode                                                              *)

Leaf(p) == [leaf |-> p]
Split(dir, ratio, a, b) == [dir |-> dir, ratio |-> ClampRatio(ratio), a |-> a, b |-> b]
IsLeaf(t) == "leaf" \in DOMAIN t

RECURSIVE PaneIds(_)
PaneIds(t) == IF IsLeaf(t) THEN <<t.leaf>> ELSE PaneIds(t.a) \o PaneIds(t.b)
ContainsPane(t, p) == p \in Range(PaneIds(t))
PaneCount(t) == Len(PaneIds(t))

\* The operations return None where the code does
RECURSIVE SplitPane(_, _, _, _, _)
SplitPane(t, p, q, dir, ratio) ==
    IF IsLeaf(t)
    THEN IF t.leaf = p THEN Split(dir, ratio, Leaf(p), Leaf(q)) ELSE None
    ELSE LET a == SplitPane(t.a, p, q, dir, ratio)
             b == SplitPane(t.b, p, q, dir, ratio)
         IN  CASE a # None -> Split(t.dir, t.ratio, a, t.b)
               [] a = None /\ b # None -> Split(t.dir, t.ratio, t.a, b)
               [] OTHER -> None

\* The first split of that direction on the way from the root to p
RECURSIVE ResizePane(_, _, _, _)
ResizePane(t, p, dir, delta) ==
    IF IsLeaf(t) \/ ~ContainsPane(t, p) THEN None
    ELSE LET in_a == ContainsPane(t.a, p)
         IN  IF t.dir = dir
             THEN Split(dir, IF in_a THEN Plus(t.ratio, delta) ELSE Minus(t.ratio, delta),
                        t.a, t.b)
             ELSE LET sub == ResizePane(IF in_a THEN t.a ELSE t.b, p, dir, delta)
                  IN  CASE sub = None -> None
                        [] sub # None /\ in_a -> Split(t.dir, t.ratio, sub, t.b)
                        [] sub # None /\ ~in_a -> Split(t.dir, t.ratio, t.a, sub)

RECURSIVE RemovePane(_, _)
RemovePane(t, p) ==
    CASE IsLeaf(t) -> None
      [] ~IsLeaf(t) /\ t.a = Leaf(p) -> t.b
      [] ~IsLeaf(t) /\ t.a # Leaf(p) /\ t.b = Leaf(p) -> t.a
      [] OTHER ->
            CASE ContainsPane(t.a, p) -> Split(t.dir, t.ratio, RemovePane(t.a, p), t.b)
              [] ~ContainsPane(t.a, p) /\ ContainsPane(t.b, p) ->
                    Split(t.dir, t.ratio, t.a, RemovePane(t.b, p))
              [] OTHER -> None

RECURSIVE SwapInner(_, _, _)
SwapInner(t, p, q) ==
    IF IsLeaf(t)
    THEN CASE t.leaf = p -> Leaf(q) [] t.leaf = q -> Leaf(p) [] OTHER -> t
    ELSE Split(t.dir, t.ratio, SwapInner(t.a, p, q), SwapInner(t.b, p, q))
SwapPanes(t, p, q) ==
    IF ContainsPane(t, p) /\ ContainsPane(t, q) THEN SwapInner(t, p, q) ELSE None

-----------------------------------------------------------------------------
(* Geometry                                                                *)

Rect(x, y, w, h) == [x |-> x, y |-> y, w |-> w, h |-> h]
Saturating(n) == IF n > 0 THEN n ELSE 0

\* Mutant: the second half starts where the first ends plus the separator, but
\* keeps its full width
SplitRectWide(v, dir, ratio) ==
    IF dir = "Vertical"
    THEN LET aw == Share(Saturating(v.w - SEPARATOR_SIZE), ratio)
         IN  <<Rect(v.x, v.y, aw, v.h), Rect(v.x + aw + SEPARATOR_SIZE, v.y, v.w - aw, v.h)>>
    ELSE LET ah == Share(Saturating(v.h - SEPARATOR_SIZE), ratio)
         IN  <<Rect(v.x, v.y, v.w, ah), Rect(v.x, v.y + ah + SEPARATOR_SIZE, v.w, v.h - ah)>>

SplitRect(v, dir, ratio) ==
    IF dir = "Vertical"
    THEN LET total == Saturating(v.w - SEPARATOR_SIZE)
             aw == Share(total, ratio)
         IN  <<Rect(v.x, v.y, aw, v.h),
               Rect(v.x + aw + SEPARATOR_SIZE, v.y, total - aw, v.h)>>
    ELSE LET total == Saturating(v.h - SEPARATOR_SIZE)
             ah == Share(total, ratio)
         IN  <<Rect(v.x, v.y, v.w, ah),
               Rect(v.x, v.y + ah + SEPARATOR_SIZE, v.w, total - ah)>>

\* Sequence of <<pane, rect>>, in leaf order
RECURSIVE ComputeRects(_, _)
ComputeRects(t, v) ==
    IF IsLeaf(t) THEN <<[pane |-> t.leaf, rect |-> v]>>
    ELSE LET r == SplitRect(v, t.dir, t.ratio)
         IN  ComputeRects(t.a, r[1]) \o ComputeRects(t.b, r[2])

\* LayoutNode::reratioed: <<tree, width, height>> for the pane sizes size
RECURSIVE Reratioed(_, _)
Reratioed(t, size) ==
    IF IsLeaf(t) THEN <<t, size[t.leaf][1], size[t.leaf][2]>>
    ELSE LET a == Reratioed(t.a, size)
             b == Reratioed(t.b, size)
             larger(m, n) == IF m > n THEN m ELSE n
             side == IF t.dir = "Vertical" THEN 2 ELSE 3
             ratio == <<a[side], larger(a[side] + b[side], 1)>>
             along == a[side] + SEPARATOR_SIZE + b[side]
         IN  IF t.dir = "Vertical"
             THEN <<Split(t.dir, ratio, a[1], b[1]), along, larger(a[3], b[3])>>
             ELSE <<Split(t.dir, ratio, a[1], b[1]), larger(a[2], b[2]), along>>

\* Every pane of t gets its size in a viewport of w columns, of h rows
FitsWide(t, size, w, h) ==
    \A i \in DOMAIN PaneIds(t) :
        LET c == ComputeRects(t, Rect(0, 0, w, h))[i] IN c.rect.w >= size[c.pane][1]
FitsHigh(t, size, w, h) ==
    \A i \in DOMAIN PaneIds(t) :
        LET c == ComputeRects(t, Rect(0, 0, w, h))[i] IN c.rect.h >= size[c.pane][2]

\* The largest shortfall of a pane along one axis
ShortWide(t, size, w, h) ==
    LET rects == ComputeRects(t, Rect(0, 0, w, h))
    IN  Max({Saturating(size[rects[i].pane][1] - rects[i].rect.w) : i \in DOMAIN rects})
ShortHigh(t, size, w, h) ==
    LET rects == ComputeRects(t, Rect(0, 0, w, h))
    IN  Max({Saturating(size[rects[i].pane][2] - rects[i].rect.h) : i \in DOMAIN rects})

\* The two growing loops of LayoutNode::fitted; the cap `max` is not modelled
RECURSIVE GrowWide(_, _, _, _)
GrowWide(t, size, w, h) ==
    LET short == ShortWide(t, size, w, h)
    IN  IF short = 0 THEN w ELSE GrowWide(t, size, w + short, h)
RECURSIVE GrowHigh(_, _, _, _)
GrowHigh(t, size, w, h) ==
    LET short == ShortHigh(t, size, w, h)
    IN  IF short = 0 THEN h ELSE GrowHigh(t, size, w, h + short)

\* Mutant: the sum of the pane sizes is taken for the viewport
FittedUngrown(t, size) == Reratioed(t, size)

Fitted(t, size) ==
    LET r == Reratioed(t, size)
        w == GrowWide(r[1], size, r[2], r[3])
    IN  <<r[1], w, GrowHigh(r[1], size, w, r[3])>>

\* LayoutNode::directional_focus: the first leaf nearest to p's centre among
\* those whose centre lies in the direction; the distance along the direction
\* counts before the one across it
Centre(r) == <<r.x + (r.w \div 2), r.y + (r.h \div 2)>>
Abs(n) == IF n < 0 THEN -n ELSE n

\* Mutant: only Left looks back along its axis
DirectionalFocusDown(t, p, nav, v) ==
    LET rects == ComputeRects(t, v)
        at(i) == Centre(rects[i].rect)
        me == CHOOSE i \in DOMAIN rects : rects[i].pane = p
        axis == IF nav \in {"Left", "Right"} THEN 1 ELSE 2
        valid == {i \in DOMAIN rects : IF nav = "Left" THEN at(i)[axis] < at(me)[axis]
                                                       ELSE at(i)[axis] > at(me)[axis]}
    IN  IF valid = {} THEN None ELSE rects[CHOOSE i \in valid : TRUE].pane

DirectionalFocus(t, p, nav, v) ==
    LET rects == ComputeRects(t, v)
        at(i) == Centre(rects[i].rect)
        me == CHOOSE i \in DOMAIN rects : rects[i].pane = p
        axis == IF nav \in {"Left", "Right"} THEN 1 ELSE 2
        valid == {i \in DOMAIN rects :
                    IF nav \in {"Left", "Up"} THEN at(i)[axis] < at(me)[axis]
                                              ELSE at(i)[axis] > at(me)[axis]}
        dist(i) == 1000 * Abs(at(i)[axis] - at(me)[axis]) + Abs(at(i)[3 - axis] - at(me)[3 - axis])
    IN  IF valid = {} THEN None
        ELSE LET best == CHOOSE i \in valid :
                           \A j \in valid : dist(i) < dist(j) \/ (dist(i) = dist(j) /\ i <= j)
             IN  rects[best].pane

-----------------------------------------------------------------------------
(* WindowLayout                                                            *)

\* zoom.take(): the whole tree, whether or not a pane is zoomed
Whole == IF zoom = None THEN tree ELSE zoom.saved

Init ==
    \E p \in Pane : tree = Leaf(p) /\ leaves = <<p>> /\ zoom = None

DoSplit(p, q, dir, ratio) ==
    /\ p \in Range(leaves) /\ q \notin Range(leaves)
    /\ tree' = SplitPane(Whole, p, q, dir, ratio)
    /\ zoom' = None
    /\ leaves' = SplitLeaf(leaves, p, q)

\* Mutant: the pane is looked for in the zoomed tree
DoRemoveZoomed(p) ==
    /\ LET t == RemovePane(tree, p) IN tree' = IF t = None THEN tree ELSE t
    /\ zoom' = None
    /\ leaves' = RemoveLeaf(leaves, p)

\* WindowLayout::remove_pane keeps the tree when there is nothing to return
DoRemove(p) ==
    /\ LET t == RemovePane(Whole, p) IN tree' = IF t = None THEN Whole ELSE t
    /\ zoom' = None
    /\ leaves' = RemoveLeaf(leaves, p)

\* SessionGraph::resize_pane drops its work when no split has the direction
DoResize(p, dir, delta) ==
    /\ LET t == ResizePane(Whole, p, dir, delta) IN t # None /\ tree' = t
    /\ zoom' = None
    /\ UNCHANGED leaves

DoSwap(p, q) ==
    /\ p # q
    /\ LET t == SwapPanes(Whole, p, q) IN t # None /\ tree' = t
    /\ zoom' = None
    /\ leaves' = SwapLeaves(leaves, p, q)

\* WindowLayout::toggle_zoom
DoZoom(p) ==
    LET same == zoom # None /\ zoom.pane = p
    IN  IF ~same /\ ContainsPane(Whole, p) /\ PaneCount(Whole) > 1
        THEN zoom' = [saved |-> Whole, pane |-> p] /\ tree' = Leaf(p) /\ UNCHANGED leaves
        ELSE zoom' = None /\ tree' = Whole /\ UNCHANGED leaves

Next ==
    \E p \in Pane :
        \/ \E q \in Pane, dir \in Direction, ratio \in Ratios : DoSplit(p, q, dir, ratio)
        \/ DoRemove(p)
        \/ \E dir \in Direction, delta \in Deltas : DoResize(p, dir, delta)
        \/ \E q \in Pane : DoSwap(p, q)
        \/ DoZoom(p)

Spec == Init /\ [][Next]_vars

-----------------------------------------------------------------------------
(* Properties                                                              *)

\* The tree operations change the leaves exactly as module LayoutLeaves, and
\* with it the session graph's model, says: the new leaf follows its target,
\* removal and swap keep the order, resize and zoom change nothing
LeavesAgree == PaneIds(Whole) = leaves

Cells(r) == {<<x, y>> : x \in r.x..(r.x + r.w - 1), y \in r.y..(r.y + r.h - 1)}

\* However a layout came about and however small the viewport: no two panes
\* share a cell, and no pane draws outside the viewport
PanesTile ==
    \A w \in Widths, h \in Heights :
        LET v == Rect(0, 0, w, h)
            rects == ComputeRects(tree, v)
        IN  /\ \A i \in DOMAIN rects : Cells(rects[i].rect) \subseteq Cells(v)
            /\ \A i, j \in DOMAIN rects :
                  i # j => Cells(rects[i].rect) \cap Cells(rects[j].rect) = {}

\* Every pane can be reached from every other one with the arrow keys
Arrows(t, p, v) ==
    {DirectionalFocus(t, p, nav, v) : nav \in {"Left", "Right", "Up", "Down"}} \ {None}
RECURSIVE Reach(_, _, _)
Reach(t, S, v) ==
    LET T == S \cup UNION {Arrows(t, p, v) : p \in S}
    IN  IF T = S THEN S ELSE Reach(t, T, v)
AllReachable ==
    LET v == Rect(0, 0, 60, 30)
        rects == ComputeRects(tree, v)
    IN  (\A i \in DOMAIN rects : rects[i].rect.w > 0 /\ rects[i].rect.h > 0) =>
            \A p \in Range(PaneIds(tree)) : Reach(tree, {p}, v) = Range(PaneIds(tree))

\* LayoutNode::fitted promises the smallest viewport in which every pane has
\* its size: the viewport fits, and none that is one column or row smaller does
FittedIsSmallest ==
    \A size \in [Range(PaneIds(tree)) -> {<<1, 1>>, <<12, 3>>, <<40, 1>>}] :
        LET f == Fitted(tree, size)
        IN  /\ FitsWide(f[1], size, f[2], f[3]) /\ FitsHigh(f[1], size, f[2], f[3])
            /\ ~FitsWide(f[1], size, f[2] - 1, f[3])
            /\ ~FitsHigh(f[1], size, f[2], f[3] - 1)

=============================================================================
