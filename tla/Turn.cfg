SPECIFICATION FairTurn
CONSTANTS
  MaxCalls = 2
  MaxFaults = 1
  MaxUpdates = 1
  MaxFrames = 3
INVARIANTS
  OneTerminal
  NewestBeforeResult
  SilentAfterResult
  BarrierHolds
  NothingLeftRunning
PROPERTIES
  ImplementsContract
  TurnEnds
CHECK_DEADLOCK FALSE
