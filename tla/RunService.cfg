\* Both deployments.  Two roots to review, three calls (one may be refused or
\* fail), and executions for the first dispatch and the resumes.  The reviewer
\* decides as soon as a pivot is shown, one call after the other.
CONSTANTS
    Pivot = {p1, p2}
    Worker = {w1, w2, w3}
    Call = {a1, a2, a3}
    NoLease = NoLease
    Deployment = {TRUE, FALSE}
    Concurrent = FALSE
    MaxFaults = 1
SPECIFICATION Spec
SYMMETRY Interchangeable
INVARIANTS
    NotStranded
    AcknowledgedKept
    SingleProcessor
    ProjectionMatches
CHECK_DEADLOCK FALSE
