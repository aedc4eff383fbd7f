CONSTANTS
    Topic = {"pane", "other"}
    Wanted = {"pane"}
    None = None
    FirstSeqs = {None, 1}
    HistoryCapacity = 3
    BroadcastCapacity = 2
    MaxEvents = 2
    MaxSeq = 6
SPECIFICATION LiveSpec
INVARIANTS NeverTwice
PROPERTIES ResumableLog NothingStranded
