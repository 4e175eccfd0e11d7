SPECIFICATION FairSpec
CONSTANTS
    NoRef = none
    MaxPrompts = 3
    MaxQueue = 1
    MaxNotes = 1
    MaxRefs = 2
    MaxErrors = 1
    MaxCmds = 2
CHECK_DEADLOCK FALSE
INVARIANT BusyHasCause
PROPERTIES
    ResultsBelong
    ReplyContinues
    KillEnds
