SPECIFICATION FairSpec
CONSTANTS
  r1 = r1
  r2 = r2
  r3 = r3
  None = None
  Requests <- MCRequests
  Setups <- MCSetups
  Assignments <- MCAssignments
  Environment = "prod"
  Threads = 2
  IngestSlots = 1
  Policies <- MCPolicies
  BatchLimit = 1
  MaxAttempts = 2
  MaxDay = 2
INVARIANTS KeyActsOnce AnswerIsTrue HandoffIsSound
PROPERTIES EveryRequestAnswered
CHECK_DEADLOCK FALSE
