SPECIFICATION Spec
CONSTANTS
    n1 = n1
    n2 = n2
    n3 = n3
    x1 = x1
    w1 = w1
    w2 = w2
    q1 = q1
    k1 = k1
    k2 = k2
    j1 = j1
    j2 = j2
    j3 = j3
    JobIds = {j1, j2}
    Ticks = {k1}
    Targets = {x1}
    NoJob = NoJob
    NoTarget = NoTarget
    ClaimLimit = 1
    MaxAttempts = 2
    JobFaults = {"refused", "tick"}
    Nodes <- MCNodes
    Graphs <- MCSafe
    FirstGraph <- Chain
    Runs = {x1}
    Workers = {w1, w2}
    Requests = {q1}
    NoRun = NoRun
    NoNode = NoNode
    Ops = {"edit", "event", "cancel"}
    StepFloor = 2
    StepCeiling = 4
    RunFaults = {"action", "worker", "request"}
SYMMETRY Symmetry
CHECK_DEADLOCK FALSE
INVARIANTS
    TypeOK
    OneExecutor
    StepsWithinBudget
    CancelledStops
    SucceededIsComplete
PROPERTIES
    LivesOnce
