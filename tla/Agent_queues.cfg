SPECIFICATION Spec
CONSTANTS
  u1 = u1
  u2 = u2
  a1 = a1
  a2 = a2
  Messages <- TwoUsersOneAutomatic
  UserMessages <- Users
  Interventions <- Hold
  SteeringMode = "one-at-a-time"
  FollowUpMode = "one-at-a-time"
  MaxCalls = 1
  MaxToolTurns = 1
  MaxFaults = 0
INVARIANTS
  OldestFirst
  OneSteeringPerTurn
CHECK_DEADLOCK FALSE
