SPECIFICATION FairSpec
CONSTANTS
    Procs = {p1, p2, p3}
    Probers = {d1}
    Nobody = Nobody
    N = 2
    Pinned = {p3}
    Selection <- SomePinned
INVARIANTS
    TypeOK
    ClaimsMatch
PROPERTIES
    OpenSettles
