SPECIFICATION Spec
CONSTANTS
  Runs = {r1}
  MaxRetries = 1
  MaxRateLimitRetries = 0
  MaxInputs = 0
  MaxToolTurns = 0
  MaxDecisions = 0
  IdleWaits = FALSE
  Answers = {"ok", "bigStop", "tools", "length", "aborted", "transient", "rateLimit",
             "overflow", "fatal", "empty", "emptyOverflow"}
  PartialText = {}
  ConcurrentPreflight = FALSE
INVARIANT
  ContinueAccepted
CHECK_DEADLOCK FALSE
