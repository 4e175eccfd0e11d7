SPECIFICATION FairSpec
CONSTANTS
    Ids = {a}
    Dev = dev
    NoTime = never
    Window = 1
    MaxClock = 3
    MaxGen = 3
    MaxRestarts = 1
CHECK_DEADLOCK FALSE
PROPERTIES
    UndoWindowHonoured
    DeliberateCloseNotReported
    PendingResolved
