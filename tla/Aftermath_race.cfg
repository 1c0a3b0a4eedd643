SPECIFICATION Spec
CONSTANTS
    Sessions = {s1, s2}
    NoOne = NoOne
    MaxEvents = 4
    MaxEvidence = 1
    Humans = {u1}
    Agent = agent
    MaxPromotions = 1
    Claims <- MCClaims
    Flagged <- MCFlagged
SYMMETRY Symmetry
CHECK_DEADLOCK FALSE
INVARIANTS
    OneDraftPerRecordSet
    DraftIsTrue
    EntryIsEarned
PROPERTIES
    DraftMissesNothing
