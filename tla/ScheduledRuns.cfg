CONSTANTS
  Web = {"tab1", "tab2"}
  Keep = 1
  MaxRuns = 2
  MaxClock = 2
  MaxRestarts = 1
SPECIFICATION Spec
INVARIANT RowCoversRun
PROPERTIES SlotIsExclusive PendingNeverDropped VerdictIsFinal ConsumedByLiveReplay
CHECK_DEADLOCK FALSE
