SPECIFICATION FairSpec
CONSTANTS
  Client = {c1, c2}
  c1 = c1
  c2 = c2
  MaxFanout = 3
  MaxRestarts = 2
INVARIANT RemovedStaysRemoved
PROPERTIES ProcessIsExclusive TokenNeverLost SpawnEnds
CHECK_DEADLOCK FALSE
