SPECIFICATION Spec
CONSTANTS
  None = None
  Unset = Unset
  HistoryCapacity = 2
  BroadcastCapacity = 1
  MaxSeq = 4
  MaxSpawns = 2
  Frames = {"a", "b"}
  Blank = "a"
  Asks <- MCAsks
  MaxRev = 3
  MaxNow = 4
  KeepEnded = 1
  MaxStamp = 6
INVARIANTS AnswersTruly CommandTruly SettlesTruly
PROPERTIES EveryCallAnswered
CHECK_DEADLOCK FALSE
