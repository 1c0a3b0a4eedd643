SPECIFICATION Spec
CONSTANTS
    Workers = {w1, w2}
    Free = Free
    Dead = Dead
    Cases <- CaseMatrix
    Stalls = TRUE
    MaxFaults = 2
    Confidence <- ConfidenceLevels
    ConfidenceThreshold = 1
    MaxContradicting = 0
SYMMETRY WorkerSymmetry
INVARIANT AtMostOnce
INVARIANT WriteHasAuthority
INVARIANT VerdictRestsOnEffect
PROPERTY RefinesContract
CHECK_DEADLOCK FALSE
