\* Worker jobs: is a run whose reviews are cleared always processed?
CONSTANTS
    Pivot = {p1, p2}
    Worker = {w1, w2, w3}
    Call = {a1, a2}
    NoLease = NoLease
    Deployment = {TRUE}
    Concurrent = FALSE
    MaxFaults = 0
SPECIFICATION Spec
SYMMETRY Interchangeable
INVARIANTS
    NeverStranded
CHECK_DEADLOCK FALSE
