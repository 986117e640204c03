CONSTANTS
  Sessions = {s1, s2}
  Jobs = {once, daily}
  Recurring = {daily}
  NoJob = NoJob
  Period = 1
  Lifetime = 2
  MaxTime = 2
  MaxHalts = 1
  MaxFailures = 1
SPECIFICATION Spec
INVARIANTS
  FiredOnce
  NoLostUpdate
  LockReleased
CHECK_DEADLOCK FALSE
