SPECIFICATION FairSpec
CONSTANTS
  Runs = {r1}
  MaxRetries = 1
  MaxRateLimitRetries = 1
  MaxInputs = 1
  MaxToolTurns = 1
  MaxDecisions = 1
  IdleWaits = FALSE
  Answers = {"ok", "bigStop", "tools", "length", "aborted", "transient", "rateLimit",
             "overflow", "fatal", "empty", "emptyOverflow"}
  PartialText = {"length", "aborted", "transient", "rateLimit", "overflow", "fatal"}
  ConcurrentPreflight = FALSE
INVARIANTS
  RecoveriesBounded
PROPERTIES
  RunSettles
  NoFalseFailure
  NoSilentFailure
CHECK_DEADLOCK FALSE
