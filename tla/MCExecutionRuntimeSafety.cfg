SPECIFICATION Spec
CONSTANTS
    a = a
    b = b
    c = c
    p1 = p1
    p2 = p2
    r1 = r1
    r2 = r2
    t = t
    Node <- MCNode
    DependsOn <- MCDependsOn
    ApprovalRequired = {b}
    Tool = {t}
    AllowedTools <- MCAllowedTools
    Outcome = {"SUCCEEDED", "FAILED"}
    Proc = {p1, p2}
    Run = {r1, r2}
    RunOf <- MCDistinctRuns
    NoRun = NoRun
    NoNode = NoNode
    MaxConcurrency = 1
    MaxSteps = 2
    MaxOtherSteps = 1
    MaxGeneration = 2
    MaxSequence = 3
INVARIANTS
    TypeOK
    MemoryCoherent
    RestartPossible
    TicketsHandedOutOnce
    StepAccounting
    BoundedUnsettled
PROPERTIES
    ImplementsLedger
    NoDispatchAfterCancellation
    AbandonedFreezesPlan
CHECK_DEADLOCK FALSE
