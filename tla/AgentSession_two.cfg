SPECIFICATION Spec
CONSTANTS
  Runs = {r1, r2}
  MaxRetries = 1
  MaxRateLimitRetries = 0
  MaxInputs = 0
  MaxToolTurns = 0
  MaxDecisions = 0
  IdleWaits = TRUE
  Answers = {"ok", "transient", "empty", "aborted"}
  PartialText = {"transient"}
  ConcurrentPreflight = TRUE
INVARIANTS
  OneAttempt
  WaitersHaveARun
PROPERTIES
  CancellationSticks
CHECK_DEADLOCK FALSE
