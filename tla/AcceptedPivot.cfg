\* As LiveRun, without faults: is an accepted pivot a seed?
CONSTANTS
    k1 = k1
    k2 = k2
    k3 = k3
    h1 = h1
    Key = {k1, k2, k3, h1}
    Signal = {}
    MaxDepth = 1
    Submission <- MCSubmission
    Host = {h1}
    Collector = {c1}
    Nodes <- MCNodes
    FaultKind = {}
    MaxFaults = 0
    MaxRedeliveries = 0
SPECIFICATION LiveSpec
INVARIANTS
    AcceptedPivotIsSeed
CHECK_DEADLOCK FALSE
