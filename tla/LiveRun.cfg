\* One submitted root, two roots and a PTR hostname to find; one discovered
\* frontier and the extra wave; one fault of any kind (a refused claim is one)
\* and one execution an operator starts after it.
CONSTANTS
    k1 = k1
    k2 = k2
    k3 = k3
    h1 = h1
    Key = {k1, k2, k3, h1}
    Signal = {}
    MaxDepth = 1
    Submission <- MCSubmission
    Host = {h1}
    Collector = {c1}
    Nodes <- MCNodes
    FaultKind = {"node", "save", "project", "artifact", "panic", "crash", "refused"}
    MaxFaults = 1
    MaxRedeliveries = 1
SPECIFICATION LiveSpec
INVARIANTS
    TypeOK
    WaveMatchesDepth
    CollectedInOneWave
    SeedsCollected
    DecisionsSurvive
    RejectedStaysOut
    ManualNeedsApproval
    DispatchedOnlyWhenIdle
PROPERTIES
    RunCompletes
    ImplementsLifecycle
CHECK_DEADLOCK FALSE
