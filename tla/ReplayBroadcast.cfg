SPECIFICATION Spec
CONSTANTS
    Clients = {c1, c2}
    Capacity = 2
    Room = 2
    MaxPrompts = 2
    MaxRecords = 4
    MaxCommands = 1
    MaxConnects = 2
SYMMETRY Alike
INVARIANTS
    HistoryIsWhole
    ModeAgrees
    BusyIsTrue
CHECK_DEADLOCK FALSE
