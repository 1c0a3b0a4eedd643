SPECIFICATION Spec
CONSTANTS
    s1 = s1
    s2 = s2
    r1 = r1
    k1 = k1
    Sessions = {s1, s2}
    Nobody = Nobody
    Requests = {r1}
    EventKeys = {k1}
    NoKey = NoKey
    MaxEvents = 3
    MaxVersion = 3
SYMMETRY SessionSymmetry
INVARIANTS
    Gapless
    StatusMatchesLog
    LogIsAWalk
    TimelineHasNoHole
