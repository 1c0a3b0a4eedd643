SPECIFICATION Spec
CONSTANTS
    simulator = simulator
    prometheus = prometheus
    None = None
    Threshold = 1
    Window = 3
    MaxBaselineAge = 3
    Settling = 2
    Approved <- MCApproved
    Sources = {simulator, prometheus}
    Values = {0, 1, 2}
    MaxTime = 8
CHECK_DEADLOCK FALSE
INVARIANTS
    VerifiedRestsOnMeasurement
    RefusedOnlyForAgeOrSource
