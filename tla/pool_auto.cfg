SPECIFICATION Spec
CONSTANTS
    Procs = {p1, p2, p3}
    Probers = {}
    Nobody = Nobody
    N = 3
    Pinned = {}
    Selection <- AllAuto
SYMMETRY ProcSymmetry
INVARIANTS
    PicksFreeTuner
