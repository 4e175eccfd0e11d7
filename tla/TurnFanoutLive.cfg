SPECIFICATION FairSpec
CONSTANTS
  MaxTurns = 2
  MaxPending = 1
  MaxExternal = 1
  MaxChannel = 2
  MaxStdin = 3
  MaxBlocks = 1
PROPERTIES
  EveryTurnEnds
  QueuedPromptLeaves
CHECK_DEADLOCK FALSE
