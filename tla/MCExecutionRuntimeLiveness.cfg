SPECIFICATION FairSpec
CONSTANTS
    a = a
    b = b
    c = c
    p1 = p1
    p2 = p2
    r1 = r1
    r2 = r2
    t = t
    Node <- MCOneNode
    DependsOn <- MCDependsOn
    ApprovalRequired = {a}
    Tool = {}
    AllowedTools <- MCNoTools
    Outcome = {"SUCCEEDED"}
    Proc = {p1, p2}
    Run = {r1, r2}
    RunOf <- MCDistinctRuns
    NoRun = NoRun
    NoNode = NoNode
    MaxConcurrency = 2
    MaxSteps = 1
    MaxOtherSteps = 0
    MaxGeneration = 2
    MaxSequence = 2
PROPERTIES
    DispatchesSettle
CHECK_DEADLOCK FALSE
