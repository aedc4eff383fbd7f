SPECIFICATION Spec
CONSTANTS
  None = None
  r1 = r1
  r2 = r2
  p1 = p1
  a = a
  b = b
  Recs = {r1, r2}
  Panes = {p1}
  Paths = {a, b}
  Files = {f}
  Asks <- Requests
  FileOf <- OneFile
  Channel = 1
  MaxReads = 2
INVARIANTS Lossless FileIntact NoneOutlives
PROPERTIES Settles
CHECK_DEADLOCK FALSE
