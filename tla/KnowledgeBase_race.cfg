SPECIFICATION KnowledgeSpec
CONSTANTS
    Importers = {i1, i2}
    Managers = {h1}
    Searchers = {s1}
    b1 = b1
    b2 = b2
    b3 = b3
    b4 = b4
    m1 = m1
    Bodies = {b1, b2, b3, b4}
    Refused = Refused
    Labels = {l1}
    Interval = 1
    Nobody = Nobody
    Never = Never
    MaxVersions = 2
    MaxTime = 2
    Canonical <- MCCanonical
    ModelOf <- MCModelOf
SYMMETRY Symmetry
CHECK_DEADLOCK FALSE
INVARIANTS
    OneVersionPerMoment
PROPERTIES
    AddedUnderStandingPolicy
    WithdrawnIsNotShown
