CONSTANTS
  Runs <- MCRuns
  Batches <- MCBatches
  Calls <- MCCalls
  RunOf <- MCRunOf
  Ceiling <- MCCeiling
  OwnLimit <- MCOwnLimit
  RaiseAfter = 1
SPECIFICATION Spec
INVARIANTS
  NoLostWakeup
  SlotsAccounted
PROPERTIES
  HostCeiling
  CallsEnd
CHECK_DEADLOCK FALSE
