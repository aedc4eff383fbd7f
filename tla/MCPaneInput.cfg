SPECIFICATION Spec
CONSTANTS
  None = None
  Clients = {c1, c2}
  Callers = {r1}
  Lengths = {3}
  Budget = 5
  Control = 4
  ChunkCost = 3
  Slots = 1
  MaxReplies = 1
  MaxPastes = 1
  MaxLeaves = 1
  MaxQueries = 1
  MaxBeside = 1
INVARIANTS BudgetExact
PROPERTIES PasteKept
CHECK_DEADLOCK FALSE
SYMMETRY Symmetry
