SPECIFICATION FairSpec
CONSTANTS
  u1 = u1
  u2 = u2
  a1 = a1
  a2 = a2
  Messages <- OneOfEach
  UserMessages <- OneUser
  Interventions <- Everything
  SteeringMode = "one-at-a-time"
  FollowUpMode = "one-at-a-time"
  MaxCalls = 2
  MaxToolTurns = 1
  MaxFaults = 1
INVARIANTS
  DeliveredOnce
  NothingLost
  CallsAnswered
PROPERTIES
  BarrierEndsRun
  RunEnds
CHECK_DEADLOCK FALSE
