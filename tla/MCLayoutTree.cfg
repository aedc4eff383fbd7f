CONSTANTS
    p1 = p1  p2 = p2  p3 = p3  p4 = p4
    Pane <- MCPane
    None = None
    Ratios <- MCRatios
    Deltas <- MCDeltas
    Widths = {0, 1, 2, 7}
    Heights = {1, 4}
SYMMETRY Symmetry
SPECIFICATION Spec
INVARIANTS LeavesAgree PanesTile AllReachable FittedIsSmallest
