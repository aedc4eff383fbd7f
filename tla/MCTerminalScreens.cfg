SPECIFICATION Spec
CONSTANTS
  None = None
  Size <- Size22
  Sizes <- SizesScreen
  Cap = 1
  Chars = {"x"}
  Counts = {1}
  Inputs = {"print", "LF", "EL0", "ED3", "1049", "1047", "2026", "OSC", "RIS", "DECSC", "DECRC", "resize", "flood"}
  MaxSteps = 5
INVARIANTS SpareBlank RevisionCovers
PROPERTIES HoldsFrame
CHECK_DEADLOCK FALSE
