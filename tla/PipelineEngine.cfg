\* Four keys, one of them a PTR hostname: a submitted seed, seeds for two
\* discovered frontiers and one for the extra wave.  The empty submission makes
\* the first wave an empty one.
CONSTANTS
    k1 = k1
    k2 = k2
    k3 = k3
    h1 = h1
    Key = {k1, k2, k3, h1}
    Signal = {}
    MaxDepth = 2
    Submission <- MCSubmission
    Host = {h1}
    Collector = {c1, c2}
    Nodes <- MCNodes
SPECIFICATION Spec
INVARIANTS
    NoScheduledSeedLost
PROPERTIES
    ResumeReturns
CHECK_DEADLOCK FALSE
