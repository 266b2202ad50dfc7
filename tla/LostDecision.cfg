\* Two overlapping calls of DecidePivot on different pivots.
CONSTANTS
    Pivot = {p1, p2}
    Worker = {w1, w2, w3}
    Call = {a1, a2}
    NoLease = NoLease
    Deployment = {FALSE}
    Concurrent = TRUE
    MaxFaults = 0
SPECIFICATION Spec
SYMMETRY Interchangeable
INVARIANTS
    AcknowledgedKept
CHECK_DEADLOCK FALSE
