\* Three workers: a holder, one that was refused or died, and one that takes
\* over, beside one API call.  The lease is one tick longer than the heartbeat
\* interval, the shortest that NewWorker allows, and the clock lets it expire and
\* be renewed.
CONSTANTS
    Worker = {w1, w2, w3}
    Caller = {a1}
    NoLease = NoLease
    TTL = 3
    Interval = 2
    MaxTime = 6
SPECIFICATION Spec
SYMMETRY WorkerSymmetry
CONSTRAINT Unclobbered
INVARIANTS
    TypeOK
    MutualExclusion
PROPERTIES
    HeartbeatNotUndone
CHECK_DEADLOCK FALSE
