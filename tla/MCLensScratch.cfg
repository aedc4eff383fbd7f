SPECIFICATION Spec
CONSTANTS
  None = None
  Foreign = Foreign
  Scratch = {s1, s2, o1}
  Opaque = {o1}
  Pgid = {p1, p2}
  Quota = 2
  MaxCrash = 1
INVARIANTS GroupsKnown QuotaHeld EveryRowHeld
PROPERTIES SparesOthers DroppedWhenGone
CHECK_DEADLOCK FALSE
SYMMETRY Symmetry
