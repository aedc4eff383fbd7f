CONSTANTS
    s1 = s1  s2 = s2
    w1 = w1  w2 = w2  w3 = w3
    p1 = p1  p2 = p2  p3 = p3  p4 = p4
    Session <- MCSession
    Window <- MCWindow
    Pane <- MCPane
    Name = {"main", "work"}
    Title = {"sh", "vim"}
    None = None
    MaxPanes = 3
    MaxVersion = 6
SYMMETRY Symmetry
SPECIFICATION Spec
CHECK_DEADLOCK FALSE
INVARIANTS Hierarchy FocusOnScreen NamesUnique CatchesUp
PROPERTY VersionStamps
