CONSTANTS
    attach = attach
    Creator = creator
    Attacher <- MCAttacher
    None = None
    MaxInc = 2
    MaxGen = 1
SPECIFICATION LiveSpec
CHECK_DEADLOCK FALSE
PROPERTIES EveryCallReturns KilledIsReaped
