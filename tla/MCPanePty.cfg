CONSTANTS
    attach = attach
    Creator = creator
    Attacher <- MCAttacher
    None = None
    MaxInc = 2
    MaxGen = 3
SPECIFICATION Spec
CHECK_DEADLOCK FALSE
INVARIANTS OneProgram StatusAgrees NothingAfterDrain KilledLeavesNothing
PROPERTY ExitIsFinal
