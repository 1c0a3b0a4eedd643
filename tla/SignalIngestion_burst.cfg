SPECIFICATION Spec
CONSTANTS
    s1 = s1
    s2 = s2
    Sessions = {s1, s2}
    Scenarios <- Deliveries
    Duplicated = {7}
    Registered = {1}
    Incidents = {1, 2, 3}
    None = None
    WINDOW_SECONDS = 1
    MAX_CANDIDATES = 1
    FirstClock = 2
    MaxClock = 3
SYMMETRY SessionSymmetry
CHECK_DEADLOCK FALSE
INVARIANTS
    HeardOnce
    ShowsLatest
    OneIncidentPerBurst
    FiringIsNotLost
