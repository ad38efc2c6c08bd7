CONSTANTS
    p1 = p1
    p2 = p2
    a1 = a1
    a2 = a2
    old = old
    None = None
    Proc <- MCProc
    Asset <- MCAsset
    Inventory <- MCTwoAssets
    HourTicks = 3
    StaleAfter = 1
    Timed <- MCTimed
    RunCap = 1
    MaxTime = 2
    MaxAttempt = 2
    MaxCalls = 2
    Leftover <- MCLeftover
    Period <- MCPeriod
    WindowStart <- MCWindowStart
    Cutoff = 1
    MaxArchive = 1
SPECIFICATION Spec
INVARIANT DataGapsVisible
CHECK_DEADLOCK FALSE
