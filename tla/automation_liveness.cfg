SPECIFICATION FairSpec
CONSTANTS
    n1 = n1
    n2 = n2
    n3 = n3
    x1 = x1
    w1 = w1
    w2 = w2
    q1 = q1
    k1 = k1
    k2 = k2
    j1 = j1
    j2 = j2
    j3 = j3
    JobIds = {j1, j2}
    Ticks = {k1}
    Targets = {x1}
    NoJob = NoJob
    NoTarget = NoTarget
    ClaimLimit = 1
    MaxAttempts = 2
    JobFaults = {"refused", "tick"}
    Nodes <- MCNodes
    Graphs <- MCMore
    FirstGraph <- DeadEnd
    Runs = {x1}
    Workers = {w1}
    Requests = {q1}
    NoRun = NoRun
    NoNode = NoNode
    Ops = {"edit", "publish", "pause", "test", "cancel"}
    StepFloor = 2
    StepCeiling = 4
    RunFaults = {"action", "worker"}
CHECK_DEADLOCK FALSE
PROPERTIES
    RunsFinish
