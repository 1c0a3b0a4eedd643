SPECIFICATION FairSpec
CONSTANTS
    Workers = {w1, w2}
    Free = Free
    Dead = Dead
    Cases <- CaseTriple
    Stalls = FALSE
    MaxFaults = 2
    Confidence <- ConfidenceLevels
    ConfidenceThreshold = 1
    MaxContradicting = 0
INVARIANT CleanMeansUntouched
INVARIANT OnlyLeaseholderActs
PROPERTY RunEnds
PROPERTY ExecutionIsJudged
CHECK_DEADLOCK FALSE
