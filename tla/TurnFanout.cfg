SPECIFICATION Spec
CONSTANTS
  MaxTurns = 3
  MaxPending = 1
  MaxExternal = 1
  MaxChannel = 3
  MaxStdin = 3
  MaxBlocks = 0
INVARIANTS
  FanoutBookkeeping
  RunOwnsLiveTurn
  BoundarySettlesOwnTurn
  IntentReachesItsTurn
  PostureIsLatest
  NoFalseDonePush
  BusyIffWork
CHECK_DEADLOCK FALSE
