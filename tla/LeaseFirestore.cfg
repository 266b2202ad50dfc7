\* Two workers and one API call: does the lease keep the second worker out?
CONSTANTS
    Worker = {w1, w2}
    Caller = {a1}
    NoLease = NoLease
    TTL = 3
    Interval = 2
    MaxTime = 6
SPECIFICATION Spec
SYMMETRY WorkerSymmetry
INVARIANTS
    NoDuplicateWork
CHECK_DEADLOCK FALSE
