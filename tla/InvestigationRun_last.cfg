SPECIFICATION FairSpec
CONSTANTS
  w1 = w1
  w2 = w2
  d1 = d1
  d2 = d2
  None = None
  Dead = Dead
  Workers <- OneWorker
  Menu = {d1}
  KnowledgeDomains = {}
  PlannerOutputs <- MCPlannerOutputs
  HypothesisOutputs <- LastHypothesisOutputs
  ProviderFailures = {"transient"}
  EvidenceQuality = 100
  Policy <- LastPolicy
  MaxAttempts = 2
  MaxIteration = 3
  MaxFaults = 2
  MaxStallIteration = 0
  MaxControls = 1
  MaxDisturbances = 2
PROPERTIES RunEnds
CHECK_DEADLOCK FALSE
