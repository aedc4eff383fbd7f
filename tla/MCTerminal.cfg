SPECIFICATION Spec
CONSTANTS
  None = None
  Size <- Size23
  Sizes <- SizesEdit
  Cap = 1
  Chars = {"x", "W", "r", "zwj"}
  Counts = {1, 2}
  Inputs = {"print", "BS", "LF", "CR", "NEL", "RI", "CUU", "CUD", "CUF", "CUB", "CNL", "CPL", "CHA", "VPA", "CUP", "ED0", "ED1", "ED2", "EL0", "EL1", "EL2", "IL", "DL", "SU", "SD", "ICH", "DCH", "ECH", "DECSTBM", "IRM", "LNM", "DECAWM", "DECOM", "DECTCEM", "DECALN", "2026", "resize"}
  MaxSteps = 4
INVARIANTS WidePairs DirtyCovers
PROPERTIES ResizeKeepsText
CHECK_DEADLOCK FALSE
