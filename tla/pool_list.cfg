SPECIFICATION Spec
CONSTANTS
    Procs = {p1}
    Probers = {d1}
    Nobody = Nobody
    N = 2
    Pinned = {}
    Selection <- AllAuto
INVARIANTS
    PicksFreeTuner
