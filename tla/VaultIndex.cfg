SPECIFICATION VaultFairSpec
CONSTANTS
    Top = {x, y}
    Sub = {z}
    QueueMax = 3
    MaxOps = 2
    MaxOthers = 1
    MaxFails = 1
INVARIANT IndexMirrorsTree
PROPERTY CatchesUp
CHECK_DEADLOCK FALSE
