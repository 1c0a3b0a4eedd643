SPECIFICATION Spec
CONSTANTS
  w1 = w1
  w2 = w2
  d1 = d1
  d2 = d2
  None = None
  Dead = Dead
  Workers <- TwoWorkers
  Menu = {d1}
  KnowledgeDomains = {d1}
  PlannerOutputs <- MCPlannerOutputs
  HypothesisOutputs <- RaceHypothesisOutputs
  ProviderFailures = {"transient", "permanent"}
  EvidenceQuality = 100
  Policy <- RacePolicy
  MaxAttempts = 2
  MaxIteration = 3
  MaxFaults = 1
  MaxStallIteration = 0
  MaxControls = 1
  MaxDisturbances = 1
SYMMETRY RaceSymmetry
INVARIANTS OneRunPerRequest CalledOnce EscalatedOnGrounds OverspendBounded
CHECK_DEADLOCK FALSE
