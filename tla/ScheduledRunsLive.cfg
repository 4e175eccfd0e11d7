CONSTANTS
  Web = {"web"}
  Keep = 1
  MaxRuns = 1
  MaxClock = 1
  MaxRestarts = 2
SPECIFICATION FairSpec
PROPERTIES RunsEnd AbortedStops
CHECK_DEADLOCK FALSE
