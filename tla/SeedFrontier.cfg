\* Four keys: one submitted and one for each wave that may follow;
\* depth 2, so that normal frontiers, their exhaustion and the reserved wave
\* all occur.
CONSTANTS
    k1 = k1
    k2 = k2
    k3 = k3
    k4 = k4
    s1 = s1
    s2 = s2
    Key = {k1, k2, k3, k4}
    Signal = {s1, s2}
    MaxDepth = 2
    Submission <- MCSubmission
    Offer <- MCOffer
SPECIFICATION Spec
INVARIANTS
    TypeOK
    PendingNeverCollected
    CopiesAgree
    WavesBounded
PROPERTIES
    LastWaveIsLast
CHECK_DEADLOCK FALSE
