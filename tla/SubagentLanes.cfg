SPECIFICATION Spec
CONSTANTS
  a = a
  b = b
  Lanes <- TwoLanes
  MaxRunning = 1
  MaxRetained = 1
  MaxGeneration <- ThreeAndTwo
  MaxQueued = 1
  MaxEpoch = 1
  MaxWrites = 1
INVARIANTS
  RunningLimit
  OneNoticePerTurn
  RetentionBounded
  FinishAnnounced
PROPERTIES
  NoStaleNotice
  AnswersBeforeNotice
CHECK_DEADLOCK FALSE
